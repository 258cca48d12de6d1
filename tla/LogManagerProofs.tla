-------------------------- MODULE LogManagerProofs --------------------------
(***************************************************************************)
(* The log file and its archives are bounded, a broken stream is silent    *)
(* for a bounded number of lines, no rotation loses a line, and clean-up   *)
(* takes the oldest archives: for all thresholds, any number of faults,    *)
(* restarts and steps of the clock.                                        *)
(***************************************************************************)
EXTENDS LogManager, FiniteSetTheorems, TLAPS

(* A bound that grows with the faults still holds after more of them. *)
LEMMA SumGrows ==
  ASSUME NEW a \in Int, NEW b \in Int, NEW f \in Int, NEW g \in Int,
         a <= b + f, f <= g
  PROVE  a <= b + g
  OBVIOUS

USE LogAssumption

LEMMA LogNumbers ==
  /\ {SizeThreshold, TimeInterval, MaxLogFiles, Word} \subseteq Nat
  /\ SizeThreshold >= 1 /\ MaxLines \in Nat /\ MaxSeconds \in Nat
  /\ MaxFaults \in Nat /\ MaxSetbacks \in Nat /\ MaxRestarts \in Nat
  /\ Lives \subseteq Nat /\ 0 \in Lives
  BY DEF Lives

(* Lines are numbers up to logged, so every set of lines is finite. *)
LEMMA LinesFinite ==
  ASSUME NEW n \in Nat, NEW S \in SUBSET (1 .. n)
  PROVE  IsFiniteSet(S) /\ Cardinality(S) \in Nat
<1>1. IsFiniteSet(1 .. n)
  BY FS_Interval
<1>2. IsFiniteSet(S)
  BY <1>1, FS_Subset
<1> QED  BY <1>2, FS_CardinalityType

(* Adding one line makes a set at most one larger. *)
LEMMA OneMore ==
  ASSUME NEW n \in Nat, NEW S \in SUBSET (1 .. n), NEW x
  PROVE  Cardinality(S \cup {x}) <= Cardinality(S) + 1
<1>1. IsFiniteSet(S) /\ Cardinality(S) \in Nat
  BY LinesFinite
<1>2. Cardinality(S \cup {x}) = IF x \in S THEN Cardinality(S) ELSE Cardinality(S) + 1
  BY <1>1, FS_AddElement
<1> QED  BY <1>1, <1>2

(* Put keeps the type of the files, and one file per name and kind. *)
LEMMA PutTyped ==
  ASSUME TypeOK, NEW f \in FileType, Put(f)
  PROVE  /\ files' \subseteq FileType
         /\ \A g, h \in files' : g.name = h.name /\ g.zip = h.zip => g = h
  BY DEF TypeOK, Put

LEMMA FewerTyped ==
  ASSUME TypeOK, files' \subseteq files
  PROVE  /\ files' \subseteq FileType
         /\ \A g, h \in files' : g.name = h.name /\ g.zip = h.zip => g = h
  BY DEF TypeOK

LEMMA FileTyped ==
  ASSUME NEW n \in 0 .. MaxSeconds, NEW zip \in BOOLEAN,
         NEW lines \in SUBSET (1 .. MaxLines), NEW t \in 0 .. MaxSeconds
  PROVE  File(n, zip, lines, t) \in FileType
  BY DEF File, FileType

LEMMA FaultStep ==
  ASSUME TypeOK, Works \/ Fails
  PROVE  faults' \in 0 .. MaxFaults
  BY LogNumbers DEF TypeOK, Works, Fails

(* The shells are records of their type, and one is replaced at a time.     *)
LEMMA ShellSet ==
  ASSUME shell \in [Lives -> ShellType], NEW i \in Lives, NEW r \in ShellType,
         shell' = [shell EXCEPT ![i] = r]
  PROVE  /\ shell' \in [Lives -> ShellType] /\ shell'[i] = r
         /\ \A j \in Lives \ {i} : shell'[j] = shell[j]
  OBVIOUS

LEMMA NoShellTyped == NoShell \in ShellType /\ NoShell.step = "none"
<1>1. 0 \in 0 .. MaxSeconds
  BY LogNumbers
<1> QED  BY <1>1 DEF NoShell, ShellType

ShellStep(i) == ShellOpens(i) \/ ShellFills(i) \/ ShellRm(i)

(* A step of a shell: it is one of those that popen() started, it keeps its *)
(* name, and the other shells and the process stay where they are.          *)
LEMMA ShellMoves ==
  ASSUME TypeOK, NEW i \in Lives, ShellStep(i)
  PROVE  /\ shell[i].step \in {"tar", "fill", "rm"} /\ i <= restarts
         /\ shell' \in [Lives -> ShellType]
         /\ shell'[i].name = shell[i].name
         /\ shell'[i].step \in {"fill", "rm", "done"}
         /\ shell[i].step # "tar" => shell'[i].lines = shell[i].lines
         /\ \A j \in Lives \ {i} : shell'[j] = shell[j]
         /\ ShellKeeps /\ (Works \/ Fails)
<1>1. /\ shell \in [Lives -> ShellType] /\ shell[i] \in ShellType
      /\ shell[i].step \in {"tar", "fill", "rm"} /\ ShellKeeps /\ (Works \/ Fails)
  BY DEF TypeOK, ShellStep, ShellOpens, ShellFills, ShellRm
<1>2. i <= restarts
  <2>1. i \in Nat /\ restarts \in Nat
    BY LogNumbers DEF TypeOK
  <2> QED  BY <1>1, <2>1 DEF TypeOK, OwnShell
<1>3. ASSUME NEW step \in {"fill", "rm", "done"}, Goes(i, step)
      PROVE  /\ shell' \in [Lives -> ShellType]
             /\ shell'[i] = [shell[i] EXCEPT !.step = step]
             /\ \A j \in Lives \ {i} : shell'[j] = shell[j]
  <2>1. [shell[i] EXCEPT !.step = step] \in ShellType
    BY <1>1, <1>3 DEF ShellType
  <2>2. shell' = [shell EXCEPT ![i] = [shell[i] EXCEPT !.step = step]]
    BY <1>1, <1>3 DEF Goes
  <2> QED  BY <1>1, <2>1, <2>2, ShellSet
<1>4. ASSUME NEW f \in Source(shell[i].name),
             shell' = [shell EXCEPT ![i].lines = f.lines, ![i].step = "fill"]
      PROVE  /\ shell' \in [Lives -> ShellType]
             /\ shell'[i] = [shell[i] EXCEPT !.lines = f.lines, !.step = "fill"]
             /\ \A j \in Lives \ {i} : shell'[j] = shell[j]
  <2>1. f.lines \in SUBSET (1 .. MaxLines)
    BY <1>4 DEF Source, TypeOK, FileType
  <2>2. [shell[i] EXCEPT !.lines = f.lines, !.step = "fill"] \in ShellType
    BY <1>1, <2>1 DEF ShellType
  <2>3. shell' = [shell EXCEPT ![i] = [shell[i] EXCEPT !.lines = f.lines, !.step = "fill"]]
    BY <1>1, <1>4
  <2> QED  BY <1>1, <2>2, <2>3, ShellSet
<1>5. CASE ShellOpens(i)
  <2>1. CASE Goes(i, RmAfter(FALSE))
    <3>1. Goes(i, "done") /\ shell[i].step = "tar"
      BY <1>5, <2>1 DEF RmAfter, AfterTar, ShellOpens
    <3> QED  BY <1>1, <1>2, <1>3, <3>1 DEF ShellType
  <2>2. CASE \E f \in Source(shell[i].name) :
               shell' = [shell EXCEPT ![i].lines = f.lines, ![i].step = "fill"]
    <3>1. shell[i].step = "tar"
      BY <1>5 DEF ShellOpens
    <3> QED  BY <1>1, <1>2, <1>4, <2>2, <3>1 DEF ShellType
  <2> QED  BY <1>5, <2>1, <2>2 DEF ShellOpens
<1>6. CASE ShellFills(i)
  <2>1. Goes(i, "rm") \/ Goes(i, "done")
    BY <1>6 DEF ShellFills, RmAfter, AfterTar
  <2> QED  BY <1>1, <1>2, <1>3, <2>1 DEF ShellType
<1>7. CASE ShellRm(i)
  <2>1. Goes(i, "done")
    BY <1>7 DEF ShellRm
  <2> QED  BY <1>1, <1>2, <1>3, <2>1 DEF ShellType
<1> QED  BY <1>5, <1>6, <1>7 DEF ShellStep

(* What a step of a shell does to the files. *)
LEMMA ShellFiles ==
  ASSUME TypeOK, NEW i \in Lives, ShellStep(i)
  PROVE  files' \subseteq files \/ \E lines \in SUBSET (1 .. MaxLines) :
                                    Put(File(shell[i].name, TRUE, lines, now))
<1>1. shell[i].lines \in SUBSET (1 .. MaxLines)
  BY DEF TypeOK, ShellType
<1>2. {} \in SUBSET (1 .. MaxLines)
  OBVIOUS
<1>3. CASE ShellOpens(i)
  BY <1>2, <1>3 DEF ShellOpens
<1>4. CASE ShellFills(i)
  BY <1>1, <1>4 DEF ShellFills
<1>5. CASE ShellRm(i)
  BY <1>5 DEF ShellRm
<1> QED  BY <1>3, <1>4, <1>5 DEF ShellStep

LEMMA OpenTyped ==
  ASSUME TypeOK, OpenWorks
  PROVE  /\ open' \in BOOLEAN /\ good' \in BOOLEAN /\ size' \in Nat
         /\ created' \in 0 .. MaxSeconds /\ missed' \in Nat
<1>1. logged \in Nat /\ current \in SUBSET (1 .. logged)
  BY LogNumbers DEF TypeOK
<1>2. Cardinality(current) \in Nat
  BY <1>1, LinesFinite
<1> QED  BY <1>2 DEF TypeOK, OpenWorks, SizeFound

(* log() has counted its line before the rotation and the write. *)
LineCounted ==
  pc \in {"rename", "compress", "wait", "open", "write"} \/ (pc = "cleanup" /\ ~open)
    => logged # 0

TypeInv == TypeOK /\ LineCounted

LEMMA InitType == Init => TypeInv
<1> SUFFICES ASSUME Init PROVE TypeInv
  OBVIOUS
<1>1. /\ 0 \in 0 .. MaxSeconds /\ 0 \in 0 .. MaxLines
      /\ 0 \in 0 .. MaxFaults /\ 0 \in 0 .. MaxSetbacks /\ 0 \in 0 .. MaxRestarts
  BY LogNumbers
<1>2. shell \in [Lives -> ShellType] /\ \A i \in Lives : shell[i].step = "none"
  BY NoShellTyped DEF Init
<1>3. OwnShell
  BY <1>2, LogNumbers DEF Init, OwnShell
<1> QED  BY <1>1, <1>2, <1>3 DEF Init, TypeInv, TypeOK, LineCounted

LEMMA NextCounted == TypeInv /\ [Next]_vars => LineCounted'
<1> SUFFICES ASSUME TypeInv, [Next]_vars PROVE LineCounted'
  OBVIOUS
<1> USE DEF TypeInv, LineCounted, disk, stream
<1>1. CASE Start
  BY <1>1 DEF Start, OpenWorks, TypeOK
<1>2. CASE Log
  BY <1>2, LogNumbers DEF Log, TypeOK
<1>3. CASE Rename
  BY <1>3 DEF Rename
<1>4. CASE Compress
  BY <1>4 DEF Compress
<1>5. CASE Wait
  BY <1>5 DEF Wait, bounds
<1>6. CASE Cleanup
  BY <1>6 DEF Cleanup
<1>7. CASE Reopen
  BY <1>7 DEF Reopen
<1>8. CASE Write
  BY <1>8 DEF Write
<1>9. CASE Tick
  BY <1>9 DEF Tick
<1>10. CASE StepBack
  BY <1>10 DEF StepBack
<1>11. CASE Crash
  BY <1>11 DEF Crash
<1>13. ASSUME NEW i \in Lives, ShellStep(i) PROVE LineCounted'
  BY <1>13, ShellMoves DEF ShellKeeps
<1>12. CASE UNCHANGED vars
  BY <1>12 DEF vars, bounds
<1> QED  BY <1>1, <1>2, <1>3, <1>4, <1>5, <1>6, <1>7, <1>8, <1>9, <1>10, <1>11,
            <1>12, <1>13 DEF Next, ShellStep

(* Only the process starts and ends its own shell. *)
LEMMA NextOwn == TypeInv /\ [Next]_vars => shell' \in [Lives -> ShellType] /\ OwnShell'
<1> SUFFICES ASSUME TypeInv, [Next]_vars
             PROVE  shell' \in [Lives -> ShellType] /\ OwnShell'
  OBVIOUS
<1>0. /\ TypeOK /\ shell \in [Lives -> ShellType] /\ OwnShell
      /\ restarts \in Lives /\ restarts \in Nat /\ Lives \subseteq Nat
      /\ target \in 0 .. MaxSeconds
  BY LogNumbers DEF TypeInv, TypeOK, Lives
<1>1. ASSUME UNCHANGED <<shell, restarts>>, pc' # "wait", pc # "wait"
      PROVE  shell' \in [Lives -> ShellType] /\ OwnShell'
  BY <1>0, <1>1 DEF OwnShell
<1>2. CASE Start \/ Log \/ Rename \/ Cleanup \/ Reopen \/ Write
  <2>1. UNCHANGED <<shell, restarts>> /\ pc # "wait"
    BY <1>2 DEF Start, Log, Rename, Cleanup, Reopen, Write, commands
  <2>2. pc' # "wait"
    BY <1>2, <2>1 DEF Start, Log, Rename, Cleanup, Reopen, Write
  <2> QED  BY <1>1, <2>1, <2>2
<1>3. CASE Compress
  <2>1. CASE pc' = "cleanup" /\ UNCHANGED shell
    BY <1>1, <1>3, <2>1 DEF Compress
  <2> DEFINE new == [NoShell EXCEPT !.name = target, !.step = "tar"]
  <2>2. CASE pc' = "wait" /\ shell' = [shell EXCEPT ![restarts] = new]
    <3>1. new \in ShellType /\ new.step = "tar" /\ new.name = target
      BY <1>0, NoShellTyped DEF ShellType
    <3> HIDE DEF new
    <3>2. shell' \in [Lives -> ShellType] /\ shell'[restarts] = new
          /\ \A j \in Lives \ {restarts} : shell'[j] = shell[j]
      BY <1>0, <2>2, <3>1, ShellSet
    <3>3. restarts' = restarts /\ target' = target
      BY <1>3 DEF Compress
    <3>4. \A j \in Lives : j > restarts => j # restarts
      BY <1>0
    <3> QED  BY <1>0, <2>2, <3>1, <3>2, <3>3, <3>4 DEF OwnShell
  <2> QED  BY <1>3, <2>1, <2>2 DEF Compress
<1>4. CASE Wait
  <2>1. shell' \in [Lives -> ShellType] /\ shell'[restarts] = NoShell
        /\ \A j \in Lives \ {restarts} : shell'[j] = shell[j]
    BY <1>0, <1>4, NoShellTyped, ShellSet DEF Wait
  <2>2. restarts' = restarts /\ pc' = "cleanup"
    BY <1>4 DEF Wait, bounds
  <2> QED  BY <1>0, <2>1, <2>2, NoShellTyped DEF OwnShell
<1>5. ASSUME NEW i \in Lives, ShellStep(i)
      PROVE  shell' \in [Lives -> ShellType] /\ OwnShell'
  <2>1. /\ shell[i].step \in {"tar", "fill", "rm"} /\ i <= restarts
        /\ shell' \in [Lives -> ShellType] /\ shell'[i].name = shell[i].name
        /\ shell'[i].step \in {"fill", "rm", "done"}
        /\ \A j \in Lives \ {i} : shell'[j] = shell[j]
        /\ UNCHANGED <<pc, target, restarts>>
    BY <1>0, <1>5, ShellMoves DEF ShellKeeps
  <2>2. \A j \in Lives : j > restarts => j # i
    BY <1>0, <2>1
  <2>3. CASE i = restarts
    BY <1>0, <2>1, <2>2, <2>3 DEF OwnShell
  <2>4. CASE i # restarts
    BY <1>0, <2>1, <2>2, <2>4 DEF OwnShell
  <2> QED  BY <2>3, <2>4
<1>6. CASE Crash
  <2>1. restarts + 1 \in Lives /\ restarts' = restarts + 1 /\ pc' = "down"
    BY <1>0, <1>6, LogNumbers DEF Crash, Lives
  <2>2. /\ shell' \in [Lives -> ShellType]
        /\ \A j \in Lives \ {restarts} : shell'[j] = shell[j]
    <3>1. CASE shell' = shell
      BY <1>0, <3>1
    <3>2. CASE shell' = [shell EXCEPT ![restarts] = NoShell]
      BY <1>0, <3>2, NoShellTyped, ShellSet
    <3> QED  BY <1>6, <3>1, <3>2 DEF Crash
  <2>3. \A j \in Lives : j >= restarts + 1 => shell'[j].step = "none"
    <3>1. \A j \in Lives : j >= restarts + 1 => j > restarts /\ j # restarts
      BY <1>0
    <3> QED  BY <1>0, <2>2, <3>1 DEF OwnShell
  <2>4. \A j \in Lives : j > restarts + 1 => j >= restarts + 1
    BY <1>0
  <2>5. restarts + 1 >= restarts + 1
    BY <1>0
  <2> QED  BY <2>1, <2>2, <2>3, <2>4, <2>5 DEF OwnShell
<1>7. CASE Tick \/ StepBack \/ UNCHANGED vars
  <2>1. UNCHANGED <<shell, restarts, pc, target>>
    BY <1>7 DEF Tick, StepBack, vars, commands, bounds
  <2> QED  BY <1>0, <2>1 DEF OwnShell
<1> QED  BY <1>2, <1>3, <1>4, <1>5, <1>6, <1>7 DEF Next, ShellStep

LEMMA NextType == TypeInv /\ [Next]_vars => TypeOK'
<1> SUFFICES ASSUME TypeInv, [Next]_vars PROVE TypeOK'
  OBVIOUS
<1>0. TypeOK /\ shell' \in [Lives -> ShellType] /\ OwnShell'
  BY NextOwn DEF TypeInv
<1>1. CASE Start
  <2>1. CASE OpenWorks /\ pc' = "cleanup"
    BY <1>0, <1>1, <2>1, OpenTyped, FaultStep DEF Start, disk, commands, TypeOK, OpenWorks
  <2>2. CASE Fails /\ UNCHANGED <<stream, pc, missed>>
    BY <1>0, <1>1, <2>2, FaultStep DEF Start, disk, commands, stream, TypeOK
  <2> QED  BY <1>0, <1>1, <2>1, <2>2 DEF Start
<1>2. CASE Log
  <2>1. logged' \in 0 .. MaxLines /\ 1 .. logged \subseteq 1 .. logged'
    BY <1>0, <1>2, LogNumbers DEF Log, TypeOK
  <2>2. current' \subseteq 1 .. logged'
    BY <1>0, <1>2, <2>1 DEF Log, TypeOK, disk
  <2> QED  BY <1>0, <1>2, <2>1, <2>2 DEF Log, disk, commands, stream, TypeOK, MustRotate
<1>3. CASE Rename
  <2>1. current \in SUBSET (1 .. MaxLines)
    BY <1>0, LogNumbers DEF TypeOK
  <2>2. File(now, FALSE, current, now) \in FileType
    BY <1>0, <2>1, FileTyped DEF TypeOK
  <2>3. /\ files' \subseteq FileType
        /\ \A g, h \in files' : g.name = h.name /\ g.zip = h.zip => g = h
    BY <1>0, <1>3, <2>2, PutTyped, FewerTyped DEF Rename, disk
  <2>4. reused' \subseteq 0 .. MaxSeconds
    BY <1>0, <1>3 DEF Rename, TypeOK
  <2> QED  BY <1>0, <1>3, <2>3, <2>4, FaultStep DEF Rename, Close, disk, TypeOK
<1>4. CASE Compress
  <2>1. (Works \/ Fails) /\ pc' \in {"wait", "cleanup"} /\ ~open
    BY <1>0, <1>4 DEF Compress, TypeOK
  <2>2. UNCHANGED <<target, stream, disk, reused, now, logged, missed, setbacks, restarts>>
    BY <1>4 DEF Compress
  <2> QED  BY <1>0, <2>1, <2>2, FaultStep DEF stream, disk, TypeOK
<1>5. CASE Wait
  BY <1>0, <1>5 DEF Wait, stream, disk, bounds, TypeOK
<1>6. CASE Cleanup
  <2>1. files' \subseteq files
    BY <1>0, <1>6 DEF Cleanup
  <2>2. Works \/ Fails
    BY <1>0, <1>6 DEF Cleanup
  <2> QED  BY <1>0, <1>6, <2>1, <2>2, FewerTyped, FaultStep
           DEF Cleanup, stream, commands, TypeOK
<1>7. CASE Reopen
  <2>1. CASE OpenWorks
    BY <1>0, <1>7, <2>1, OpenTyped, FaultStep DEF Reopen, disk, commands, TypeOK, OpenWorks
  <2>2. CASE Fails /\ UNCHANGED <<stream, missed>>
    BY <1>0, <1>7, <2>2, FaultStep DEF Reopen, disk, commands, stream, TypeOK
  <2> QED  BY <1>0, <1>7, <2>1, <2>2 DEF Reopen
<1>8. CASE Write
  <2>1. faults' \in 0 .. MaxFaults
    BY <1>0, <1>8, FaultStep DEF Write
  <2>2. logged \in 1 .. logged
    BY <1>8, LogNumbers DEF Write, TypeInv, TypeOK, LineCounted
  <2>3. /\ current' \subseteq current \cup {logged}
        /\ size' \in {size, size + 1} /\ missed' \in {missed, missed + 1}
        /\ good' \in {good, FALSE}
    <3>1. CASE open /\ good /\ current' = current \cup {logged}
               /\ size' = SizeAfter(TRUE) /\ UNCHANGED <<good, missed>>
      BY <3>1 DEF SizeAfter
    <3>2. CASE open /\ good' = FALSE /\ size' = SizeAfter(FALSE)
               /\ missed' = missed + 1 /\ UNCHANGED current
      BY <3>2 DEF SizeAfter
    <3>3. CASE UNCHANGED <<good, current>> /\ size' = SizeAfter(FALSE)
               /\ missed' = missed + 1
      BY <3>3 DEF SizeAfter
    <3>4. CASE UNCHANGED <<good, size, missed, current>>
      BY <3>4
    <3> QED  BY <1>8, <3>1, <3>2, <3>3, <3>4 DEF Write
  <2>4. current' \subseteq 1 .. logged
    BY <1>0, <2>2, <2>3 DEF TypeOK
  <2>5. size' \in Nat /\ missed' \in Nat
    <3>1. size \in Nat /\ missed \in Nat
      BY <1>0 DEF TypeOK
    <3> QED  BY <2>3, <3>1
  <2>7. good' \in BOOLEAN
    <3>1. good \in BOOLEAN
      BY <1>0 DEF TypeOK
    <3>2. good' \in {good, FALSE}
      BY <2>3
    <3> QED  BY <3>1, <3>2, Zenon
  <2>6. /\ pc' = "idle"
        /\ UNCHANGED <<target, open, created, files, shell, reused, now, logged, setbacks,
                       restarts>>
    BY <1>0, <1>8 DEF Write, commands
  <2> QED  BY <1>0, <2>1, <2>4, <2>5, <2>6, <2>7 DEF TypeOK
<1>9. CASE Tick
  BY <1>0, <1>9, LogNumbers DEF Tick, disk, commands, stream, TypeOK
<1>10. CASE StepBack
  BY <1>0, <1>10, LogNumbers DEF StepBack, disk, commands, stream, TypeOK
<1>11. CASE Crash
  <2>1. restarts' \in 0 .. MaxRestarts
    BY <1>0, <1>11, LogNumbers DEF Crash, TypeOK
  <2>2. /\ pc' = "down" /\ open' = FALSE
        /\ UNCHANGED <<target, good, size, created, current, files, reused, now, logged,
                       missed, faults, setbacks>>
    BY <1>0, <1>11 DEF Crash, disk
  <2> QED  BY <1>0, <2>1, <2>2 DEF TypeOK
<1>13. ASSUME NEW i \in Lives, ShellStep(i) PROVE TypeOK'
  <2>1. \A lines \in SUBSET (1 .. MaxLines) :
          File(shell[i].name, TRUE, lines, now) \in FileType
    BY <1>0, <1>13, FileTyped DEF TypeOK, ShellType
  <2>2. /\ files' \subseteq FileType
        /\ \A g, h \in files' : g.name = h.name /\ g.zip = h.zip => g = h
    BY <1>0, <1>13, <2>1, ShellFiles, PutTyped, FewerTyped
  <2>3. ShellKeeps /\ (Works \/ Fails)
    BY <1>0, <1>13, ShellMoves
  <2> QED  BY <1>0, <2>2, <2>3, FaultStep DEF ShellKeeps, stream, TypeOK
<1>12. CASE UNCHANGED vars
  BY <1>0, <1>12 DEF vars, disk, commands, stream, bounds, TypeOK
<1> QED  BY <1>0, <1>1, <1>2, <1>3, <1>4, <1>5, <1>6, <1>7, <1>8, <1>9, <1>10, <1>11,
            <1>12, <1>13 DEF Next, ShellStep

(* Types, one file per name and kind, and a log file that is closed while  *)
(* its lines are moved away.                                                *)
THEOREM LogTypeCorrect == Spec => []TypeOK
<1>1. TypeInv /\ [Next]_vars => TypeInv'
  BY NextType, NextCounted DEF TypeInv
<1> QED  BY <1>1, InitType, PTL DEF Spec, TypeInv
-----------------------------------------------------------------------------
(***************************************************************************)
(* The log file.  Held is what it holds, size what current_file_size says; *)
(* the two part when a write or a reopening fails.                         *)
(***************************************************************************)
Held == Cardinality(current)

(* An open file has at least the size it holds and was silent for; a line  *)
(* is only written to one that has room for it.                            *)
OpenCounted == open => Held <= size /\ missed <= size /\ missed <= SizeThreshold
RoomToWrite ==
  pc = "write" /\ open => Held <= SizeThreshold - 1 + faults /\ missed < SizeThreshold
RoomToOpen == pc = "open" => Held <= SizeThreshold - 1 + faults
MovedAway == pc \in {"compress", "wait"} \/ (pc = "cleanup" /\ ~open) => current = {}

BoundInv ==
  TypeInv /\ CurrentBounded /\ OpenCounted /\ RoomToWrite /\ RoomToOpen /\ MovedAway

LEMMA HeldTyped == TypeInv => Held \in Nat /\ faults \in Nat /\ size \in Nat /\ missed \in Nat
<1> SUFFICES ASSUME TypeInv PROVE Held \in Nat /\ faults \in Nat /\ size \in Nat /\ missed \in Nat
  OBVIOUS
<1>1. logged \in Nat /\ current \in SUBSET (1 .. logged)
  BY LogNumbers DEF TypeInv, TypeOK
<1>2. Held \in Nat
  BY <1>1, LinesFinite DEF Held
<1> QED  BY <1>2, LogNumbers DEF TypeInv, TypeOK

LEMMA EmptyHeld == Cardinality({}) = 0
  BY FS_EmptySet

LEMMA FaultsGrow ==
  ASSUME TypeInv, Works \/ Fails
  PROVE  faults' \in Nat /\ faults' >= faults /\ (faults' = faults \/ faults' = faults + 1)
  BY HeldTyped DEF Works, Fails

LEMMA InitBounds == Init => BoundInv
  BY InitType, EmptyHeld, LogNumbers
     DEF Init, BoundInv, CurrentBounded, OpenCounted, RoomToWrite, RoomToOpen,
         MovedAway, Held

(* What a step leaves of the bounds when it neither opens, writes nor      *)
(* moves anything.                                                         *)
LEMMA BoundsKept ==
  ASSUME BoundInv, current' = current, size' = size, missed' = missed,
         faults' \in Nat, faults' >= faults, open' => open
  PROVE  CurrentBounded' /\ OpenCounted' /\ (pc' \notin {"write", "open"} => RoomToWrite' /\ RoomToOpen')
<1>1. Held' = Held
  BY DEF Held
<1>2. Held \in Nat /\ faults \in Nat /\ size \in Nat /\ missed \in Nat /\ SizeThreshold \in Nat
  BY HeldTyped, LogNumbers DEF BoundInv
<1>3. CurrentBounded'
  BY <1>1, <1>2 DEF BoundInv, CurrentBounded, Held
<1>4. OpenCounted'
  BY <1>1, <1>2 DEF BoundInv, OpenCounted
<1> QED  BY <1>3, <1>4 DEF RoomToWrite, RoomToOpen

(* Opening makes size what the file holds. *)
LEMMA OpeningBounds ==
  ASSUME BoundInv, OpenWorks, current' = current
  PROVE  CurrentBounded' /\ OpenCounted' /\ faults' = faults /\ missed' = 0
<1>1. Held' = Held /\ size' = Held /\ missed' = 0 /\ faults' = faults
  BY DEF OpenWorks, SizeFound, Works, Held
<1>2. Held \in Nat /\ SizeThreshold \in Nat
  BY HeldTyped, LogNumbers DEF BoundInv
<1>3. OpenCounted'
  BY <1>1, <1>2 DEF OpenCounted
<1> QED  BY <1>1, <1>3 DEF BoundInv, CurrentBounded, Held

LEMMA WriteBounds ==
  ASSUME BoundInv, Write
  PROVE  CurrentBounded' /\ OpenCounted' /\ faults' \in Nat
<1>1. /\ Held \in Nat /\ faults \in Nat /\ size \in Nat /\ missed \in Nat
      /\ SizeThreshold \in Nat /\ pc = "write" /\ open' = open
      /\ faults' \in Nat /\ faults' >= faults
  BY HeldTyped, LogNumbers, FaultsGrow DEF BoundInv, Write
<1>2. CASE open /\ good /\ Works /\ current' = current \cup {logged}
           /\ size' = SizeAfter(TRUE) /\ UNCHANGED <<good, missed>>
  <2>1. logged \in Nat /\ current \in SUBSET (1 .. logged) /\ logged \in 1 .. logged
    BY <1>1, LogNumbers DEF BoundInv, TypeInv, TypeOK, LineCounted
  <2>2. Held' <= Held + 1
    BY <1>2, <2>1, OneMore DEF Held
  <2>3. current' \in SUBSET (1 .. logged)
    BY <1>2, <2>1
  <2>4. Held' \in Nat
    BY <2>1, <2>3, LinesFinite DEF Held
  <2>5. Held <= SizeThreshold - 1 + faults /\ missed < SizeThreshold
        /\ Held <= size /\ missed <= size
    BY <1>1, <1>2 DEF BoundInv, RoomToWrite, OpenCounted
  <2>6. Held' <= SizeThreshold + faults'
    <3>1. Held' <= SizeThreshold + faults
      BY <1>1, <2>2, <2>4, <2>5
    <3>2. faults' = faults
      BY <1>2 DEF Works
    <3> QED  BY <3>1, <3>2
  <2>7. Held' <= size' /\ missed' <= size' /\ missed' <= SizeThreshold
    <3>1. size' = size + 1 /\ missed' = missed
      BY <1>2 DEF SizeAfter
    <3> QED  BY <1>1, <2>2, <2>4, <2>5, <3>1
  <2> QED  BY <1>1, <2>6, <2>7 DEF CurrentBounded, OpenCounted, Held
<1>3. CASE open /\ UNCHANGED current /\ size' = SizeAfter(FALSE) /\ missed' = missed + 1
  <2>1. Held' = Held
    BY <1>3 DEF Held
  <2>2. missed < SizeThreshold /\ Held <= size /\ missed <= size
    BY <1>1, <1>3 DEF BoundInv, RoomToWrite, OpenCounted
  <2>3. Held' <= size' /\ missed' <= size' /\ missed' <= SizeThreshold
    <3>1. size' = size + 1 /\ missed' = missed + 1
      BY <1>3 DEF SizeAfter
    <3> QED  BY <1>1, <2>1, <2>2, <3>1
  <2>4. Held <= SizeThreshold + faults
    BY DEF BoundInv, CurrentBounded, Held
  <2>5. Held' <= SizeThreshold + faults'
    <3>1. Held \in Int /\ SizeThreshold \in Int
      BY <1>1
    <3>2. faults \in Int /\ faults' \in Int /\ faults <= faults'
      BY <1>1
    <3> DEFINE Goal(n) == Held <= SizeThreshold + n
    <3>3. Goal(faults')
      BY ONLY <2>4, <3>1, <3>2, SumGrows
    <3> QED  BY ONLY <2>1, <3>3
  <2> QED  BY <1>1, <2>3, <2>5 DEF CurrentBounded, OpenCounted, Held
<1>4. CASE ~open /\ UNCHANGED <<good, size, missed, current>>
  BY <1>1, <1>4, BoundsKept
<1> QED  BY <1>1, <1>2, <1>3, <1>4 DEF Write

LEMMA NextBounds == BoundInv /\ [Next]_vars => BoundInv'
<1> SUFFICES ASSUME BoundInv, [Next]_vars PROVE BoundInv'
  OBVIOUS
<1>0. TypeInv /\ TypeInv'
  BY NextType, NextCounted DEF BoundInv, TypeInv
<1>a. /\ Held \in Nat /\ faults \in Nat /\ size \in Nat /\ missed \in Nat
      /\ SizeThreshold \in Nat /\ SizeThreshold >= 1
  BY <1>0, HeldTyped, LogNumbers
<1> DEFINE Rest == RoomToWrite' /\ RoomToOpen' /\ MovedAway'
<1>s. SUFFICES CurrentBounded' /\ OpenCounted' /\ Rest
  BY <1>0 DEF BoundInv
<1>1. CASE Start
  <2>1. CASE OpenWorks /\ pc' = "cleanup"
    <3>1. current' = current /\ open'
      BY <1>1, <2>1 DEF Start, disk, OpenWorks
    <3> QED  BY <2>1, <3>1, OpeningBounds DEF RoomToWrite, RoomToOpen, MovedAway
  <2>2. CASE Fails /\ UNCHANGED <<stream, pc, missed>>
    <3>1. current' = current /\ size' = size /\ open' = open /\ missed' = missed /\ pc' = "down"
      BY <1>1, <2>2 DEF Start, disk, stream
    <3> QED  BY <1>0, <2>2, <3>1, FaultsGrow, BoundsKept DEF MovedAway
  <2> QED  BY <1>1, <2>1, <2>2 DEF Start
<1>2. CASE Log
  <2>1. /\ UNCHANGED <<current, size, missed, open, faults>>
        /\ pc' = IF MustRotate THEN "rename" ELSE "write"
    BY <1>2 DEF Log, disk, stream
  <2>2. CurrentBounded' /\ OpenCounted'
    BY <1>a, <2>1, BoundsKept
  <2>3. RoomToWrite'
    <3> SUFFICES ASSUME pc' = "write", open'
                 PROVE  Held' <= SizeThreshold - 1 + faults' /\ missed' < SizeThreshold
      BY DEF RoomToWrite
    <3>1. size < SizeThreshold
      BY <1>a, <2>1 DEF MustRotate
    <3>2. Held <= size /\ missed <= size
      BY <2>1 DEF BoundInv, OpenCounted
    <3>3. Held' = Held
      BY <2>1 DEF Held
    <3> QED  BY <1>a, <2>1, <3>1, <3>2, <3>3
  <2> QED  BY <2>1, <2>2, <2>3 DEF RoomToOpen, MovedAway
<1>3. CASE Rename
  <2>1. ~open' /\ size' = size /\ missed' = missed /\ (Works \/ Fails)
    BY <1>3 DEF Rename, Close
  <2>2. CASE Works /\ current' = {} /\ pc' = "compress"
    <3>1. Held' = 0 /\ faults' = faults
      BY <2>2, EmptyHeld DEF Held, Works
    <3> QED  BY <1>a, <2>1, <2>2, <3>1
             DEF CurrentBounded, OpenCounted, Held, RoomToWrite, RoomToOpen, MovedAway
  <2>3. CASE Fails /\ pc' = "open" /\ UNCHANGED disk
    <3>1. current' = current /\ faults' = faults + 1
      BY <2>3 DEF disk, Fails
    <3>2. CurrentBounded' /\ OpenCounted'
      BY <1>a, <2>1, <3>1, BoundsKept
    <3>3. Held' = Held /\ Held <= SizeThreshold + faults
      BY <3>1 DEF Held, BoundInv, CurrentBounded
    <3>4. Held' <= SizeThreshold - 1 + faults'
      BY <1>a, <3>1, <3>3
    <3> QED  BY <2>1, <2>3, <3>2, <3>4 DEF RoomToWrite, RoomToOpen, MovedAway
  <2> QED  BY <1>3, <2>2, <2>3 DEF Rename
<1>4. CASE Compress
  <2>1. /\ UNCHANGED <<current, size, missed, open>>
        /\ (Works \/ Fails) /\ pc = "compress" /\ pc' \in {"wait", "cleanup"}
    BY <1>4 DEF Compress, stream, disk
  <2> QED  BY <1>0, <2>1, FaultsGrow, BoundsKept DEF BoundInv, MovedAway
<1>5. CASE Wait
  <2>1. /\ UNCHANGED <<current, size, missed, open, faults>>
        /\ pc = "wait" /\ pc' = "cleanup"
    BY <1>5 DEF Wait, stream, disk, bounds
  <2> QED  BY <1>a, <2>1, BoundsKept DEF BoundInv, MovedAway
<1>6. CASE Cleanup
  <2>1. /\ UNCHANGED <<current, size, missed, open>>
        /\ (Works \/ Fails) /\ pc = "cleanup"
        /\ pc' = IF open THEN "idle" ELSE "open"
    BY <1>6 DEF Cleanup, stream
  <2>2. CurrentBounded' /\ OpenCounted' /\ faults' \in Nat
    BY <1>0, <2>1, FaultsGrow, BoundsKept
  <2>3. RoomToOpen'
    <3> SUFFICES ASSUME ~open PROVE Held' <= SizeThreshold - 1 + faults'
      BY <2>1 DEF RoomToOpen
    <3>1. Held' = 0
      BY <2>1, EmptyHeld DEF BoundInv, MovedAway, Held
    <3>2. faults' \in Nat
      BY <2>2
    <3>3. SizeThreshold - 1 \in Int /\ 0 <= SizeThreshold - 1 + 0
      BY <1>a
    <3>4. 0 <= SizeThreshold - 1 + faults'
      BY <3>2, <3>3, SumGrows
    <3> QED  BY <3>1, <3>4, Zenon
  <2> QED  BY <2>1, <2>2, <2>3 DEF RoomToWrite, MovedAway
<1>7. CASE Reopen
  <2>1. current' = current /\ pc = "open" /\ pc' = "write"
    BY <1>7 DEF Reopen, disk
  <2>2. Held' = Held /\ Held <= SizeThreshold - 1 + faults
    BY <2>1 DEF Held, BoundInv, RoomToOpen
  <2>3. CASE OpenWorks
    <3>1. CurrentBounded' /\ OpenCounted' /\ faults' = faults /\ missed' = 0
      BY <2>1, <2>3, OpeningBounds
    <3>2. Held' <= SizeThreshold - 1 + faults' /\ missed' < SizeThreshold
      BY <1>a, <2>2, <3>1
    <3> QED  BY <2>1, <3>1, <3>2 DEF RoomToWrite, RoomToOpen, MovedAway
  <2>4. CASE Fails /\ UNCHANGED <<stream, missed>>
    <3>1. ~open' /\ UNCHANGED <<open, size, missed>>
      BY <1>0, <2>1, <2>4 DEF stream, TypeInv, TypeOK
    <3>2. CurrentBounded' /\ OpenCounted'
      BY <1>0, <2>1, <2>4, <3>1, FaultsGrow, BoundsKept
    <3> QED  BY <2>1, <3>1, <3>2 DEF RoomToWrite, RoomToOpen, MovedAway
  <2> QED  BY <1>7, <2>3, <2>4 DEF Reopen
<1>8. CASE Write
  <2>1. pc' = "idle"
    BY <1>8 DEF Write
  <2> QED  BY <1>8, <2>1, WriteBounds DEF RoomToWrite, RoomToOpen, MovedAway
<1>9. ASSUME UNCHANGED <<pc, current, size, missed, open>>, faults' \in Nat,
             faults' >= faults
      PROVE  CurrentBounded' /\ OpenCounted' /\ Rest
  <2>1. Held' = Held
    BY <1>9 DEF Held
  <2>2. CurrentBounded' /\ OpenCounted' /\ MovedAway'
    BY <1>9, BoundsKept DEF BoundInv, MovedAway
  <2>3. Held <= SizeThreshold - 1 + faults => Held' <= SizeThreshold - 1 + faults'
    <3> DEFINE Goal(n) == Held <= SizeThreshold - 1 + n
    <3>1. Held \in Int /\ SizeThreshold - 1 \in Int /\ faults \in Int /\ faults' \in Int
      BY <1>a, <1>9
    <3>2. Goal(faults) => Goal(faults')
      BY ONLY <1>9, <3>1, SumGrows
    <3> QED  BY ONLY <2>1, <3>2
  <2>4. RoomToWrite' /\ RoomToOpen'
    <3>1. RoomToWrite /\ RoomToOpen
      BY DEF BoundInv
    <3> QED  BY <1>9, <2>3, <3>1 DEF RoomToWrite, RoomToOpen
  <2> QED  BY <2>2, <2>3, <2>4
<1>10. CASE Tick \/ StepBack \/ UNCHANGED vars
  <2>1. UNCHANGED <<pc, current, size, missed, open, faults>>
    BY <1>10 DEF Tick, StepBack, vars, disk, stream, bounds
  <2> QED  BY <1>a, <1>9, <2>1
<1>13. ASSUME NEW i \in Lives, ShellStep(i) PROVE CurrentBounded' /\ OpenCounted' /\ Rest
  <2>1. ShellKeeps /\ (Works \/ Fails)
    BY <1>0, <1>13, ShellMoves DEF TypeInv
  <2> QED  BY <1>0, <1>9, <2>1, FaultsGrow DEF ShellKeeps, stream
<1>11. CASE Crash
  <2>1. UNCHANGED <<current, size, missed, faults>> /\ pc' = "down" /\ ~open'
    BY <1>11 DEF Crash, disk
  <2> QED  BY <1>a, <2>1, BoundsKept DEF MovedAway
<1> QED  BY <1>1, <1>2, <1>3, <1>4, <1>5, <1>6, <1>7, <1>8, <1>10, <1>11, <1>13
         DEF Next, ShellStep

(* The log file holds at most size_threshold lines and one for each fault,  *)
(* for every order of rotations, failed renames, restarts and clock steps.  *)
THEOREM LogFileIsBounded == Spec => []CurrentBounded
<1>1. BoundInv => CurrentBounded
  BY DEF BoundInv
<1> QED  BY <1>1, InitBounds, NextBounds, PTL DEF Spec

(* A log file that was opened is silent for at most size_threshold lines    *)
(* after a failed write, because current_file_size counts those, too.       *)
THEOREM SilenceIsBounded == Spec => []SilenceBounded
<1>1. BoundInv => SilenceBounded
  BY DEF BoundInv, OpenCounted, SilenceBounded
<1> QED  BY <1>1, InitBounds, NextBounds, PTL DEF Spec
-----------------------------------------------------------------------------
(***************************************************************************)
(* The lines on disk.  Unless a name is used again, one shell at most is    *)
(* at work on a name, and only its own steps make the archive: it is empty  *)
(* while tar reads the file, and rm is only reached when it holds all of    *)
(* the file, if no later clean-up has taken it.                             *)
(***************************************************************************)
OneShell ==
  \A i, j \in Lives :
    Running(i) /\ Running(j) /\ shell[i].name = shell[j].name /\ shell[i].name \notin reused
      => i = j

BeforeShell ==
  pc = "compress" /\ target \notin reused =>
    Archive(target) = {} /\ \A i \in Lives : Running(i) => shell[i].name # target

InStep(i) ==
  /\ shell[i].step = "tar" => Archive(shell[i].name) = {}
  /\ shell[i].step = "fill" => \A a \in Archive(shell[i].name) : a.lines = {}
  /\ shell[i].step \in {"fill", "rm"} =>
       \A f \in Source(shell[i].name) : f.lines \subseteq shell[i].lines
  /\ shell[i].step = "rm" =>
       \A a \in Archive(shell[i].name) : shell[i].lines \subseteq a.lines
  /\ i = restarts /\ shell[i].step \in {"fill", "rm"} => Archive(shell[i].name) # {}

InSteps == \A i \in Lives : shell[i].name \notin reused => InStep(i)

KeptInv == TypeInv /\ OneShell /\ BeforeShell /\ InSteps

LEMMA InitKept == Init => KeptInv
<1> SUFFICES ASSUME Init PROVE KeptInv
  OBVIOUS
<1>1. pc = "down" /\ \A i \in Lives : shell[i].step = "none"
  BY NoShellTyped DEF Init
<1> QED  BY <1>1, InitType DEF KeptInv, OneShell, BeforeShell, InSteps, InStep, Running

(* Steps that at most end shells and take files away.                       *)
LEMMA KeptStays ==
  ASSUME KeptInv, TypeInv', reused' = reused, files' \subseteq files,
         \A i \in Lives : shell'[i] = shell[i] \/ shell'[i].step \in {"none", "done"},
         pc' = "compress" => pc = "compress" /\ target' = target,
         pc' # "wait" \/ (restarts' = restarts /\ Archives' = Archives)
  PROVE  KeptInv'
<1>1. \A i \in Lives : Running(i)' => Running(i) /\ shell'[i] = shell[i]
  BY DEF Running
<1>2. OneShell'
  BY <1>1 DEF KeptInv, OneShell
<1>3. \A n : Archive(n)' \subseteq Archive(n) /\ Source(n)' \subseteq Source(n)
  BY DEF Archive, Archives, Source
<1>4. BeforeShell'
  BY <1>1, <1>3 DEF KeptInv, BeforeShell, Archive, Archives
<1>5. ASSUME NEW i \in Lives, Running(i)', shell'[i].name \notin reused'
      PROVE  InStep(i)'
  <2>1. shell'[i] = shell[i] /\ InStep(i)
    BY <1>1, <1>5 DEF KeptInv, InSteps
  <2> DEFINE n == shell[i].name
  <2>2. {f \in Archives' : f.name = n} \subseteq Archive(n)
    BY DEF Archive, Archives
  <2>3. {f \in files' : f.name = n /\ ~f.zip} \subseteq Source(n)
    BY DEF Source
  <2>4. i = restarts' => i = restarts /\ Archives' = Archives
    BY <1>5 DEF Running, TypeInv, TypeOK, OwnShell
  <2> QED  BY <2>1, <2>2, <2>3, <2>4 DEF InStep, Archive, Source
<1>6. InSteps'
  BY <1>5 DEF InSteps, InStep, Running
<1> QED  BY <1>2, <1>4, <1>6 DEF KeptInv

(* A step of one shell that goes on: the files of other names stay. *)
LEMMA KeptShell ==
  ASSUME KeptInv, TypeInv', NEW i \in Lives, ShellStep(i),
         \A f : f.name # shell[i].name => (f \in files' <=> f \in files),
         shell[i].name \notin reused => InStep(i)'
  PROVE  KeptInv'
<1>1. /\ Running(i) /\ shell'[i].name = shell[i].name /\ UNCHANGED <<pc, target, reused, restarts>>
      /\ \A j \in Lives \ {i} : shell'[j] = shell[j]
  BY ShellMoves DEF KeptInv, TypeInv, Running, ShellKeeps
<1>2. \A j \in Lives : shell'[j].name = shell[j].name /\ (Running(j)' => Running(j))
  BY <1>1 DEF Running
<1>3. OneShell'
  BY <1>1, <1>2 DEF KeptInv, OneShell
<1>4. ASSUME NEW n, n # shell[i].name
      PROVE  /\ {f \in Archives' : f.name = n} = Archive(n)
             /\ {f \in files' : f.name = n /\ ~f.zip} = Source(n)
  BY <1>4 DEF Archive, Archives, Source
<1>5. BeforeShell'
  <2>1. pc = "compress" /\ target \notin reused => target # shell[i].name
    BY <1>1 DEF KeptInv, BeforeShell
  <2> QED  BY <1>1, <1>2, <1>4, <2>1 DEF KeptInv, BeforeShell, Archive
<1>6. ASSUME NEW j \in Lives, shell'[j].name \notin reused'
      PROVE  InStep(j)'
  <2>1. CASE j = i
    BY <1>1, <1>6, <2>1
  <2>2. CASE j # i /\ Running(j)
    <3>1. shell'[j] = shell[j] /\ shell[j].name \notin reused /\ InStep(j)
      BY <1>1, <1>6, <2>2 DEF KeptInv, InSteps
    <3>2. shell[j].name # shell[i].name
      BY <1>1, <2>2, <3>1 DEF KeptInv, OneShell
    <3> QED  BY <1>1, <1>4, <3>1, <3>2 DEF InStep, Archive, Source
  <2>3. CASE j # i /\ ~Running(j)
    BY <1>1, <2>3 DEF InStep, Running
  <2> QED  BY <2>1, <2>2, <2>3
<1> QED  BY <1>3, <1>5, <1>6 DEF KeptInv, InSteps

(* Put and the names it does not touch. *)
LEMMA PutOthers ==
  ASSUME NEW f, Put(f)
  PROVE  /\ \A g : g.name # f.name => (g \in files' <=> g \in files)
         /\ f \in files'
         /\ \A g \in files' : g.name = f.name /\ g.zip = f.zip => g = f
         /\ \A g \in files' : g = f \/ g \in files
  BY DEF Put

LEMMA KeptOpens ==
  ASSUME KeptInv, TypeInv', NEW i \in Lives, ShellOpens(i) PROVE KeptInv'
<1> DEFINE n == shell[i].name
           new == File(n, TRUE, {}, now)
<1>0. /\ shell \in [Lives -> ShellType] /\ ShellStep(i) /\ ShellKeeps
      /\ UNCHANGED <<pc, target, reused, restarts>>
  BY DEF KeptInv, TypeInv, TypeOK, ShellStep, ShellOpens, ShellKeeps
<1>1. CASE Put(new) /\ \E f \in Source(n) :
             shell' = [shell EXCEPT ![i].lines = f.lines, ![i].step = "fill"]
  <2>1. PICK f \in Source(n) :
          shell' = [shell EXCEPT ![i].lines = f.lines, ![i].step = "fill"]
    BY <1>1
  <2>2. shell[i] \in ShellType /\ shell'[i] = [shell[i] EXCEPT !.lines = f.lines, !.step = "fill"]
    BY <1>0, <2>1
  <2>3. shell'[i].name = n /\ shell'[i].lines = f.lines /\ shell'[i].step = "fill"
    BY <2>2 DEF ShellType
  <2>4. new.name = n /\ new.zip = TRUE /\ new.lines = {}
    BY DEF File
  <2> HIDE DEF new
  <2>5. /\ \A g : g.name # n => (g \in files' <=> g \in files)
        /\ new \in files'
        /\ \A g \in files' : g.name = n /\ g.zip => g.lines = {}
    <3>1. \A g \in files' : g.zip \in BOOLEAN
      BY DEF TypeInv, TypeOK, FileType
    <3> QED  BY <1>1, <2>4, <3>1, PutOthers
  <2>6. \A g \in files' : g.name = n /\ ~g.zip => g.lines = f.lines
    <3> TAKE g \in files'
    <3> HAVE g.name = n /\ ~g.zip
    <3>1. g \in files
      BY <1>1, <2>4, PutOthers
    <3>2. f \in files /\ f.name = n /\ ~f.zip
      BY <2>1 DEF Source
    <3>3. g \in FileType /\ f \in FileType
      BY <3>1, <3>2 DEF KeptInv, TypeInv, TypeOK
    <3>4. g.zip = f.zip
      BY <3>2, <3>3 DEF FileType
    <3> QED  BY <3>1, <3>2, <3>4 DEF KeptInv, TypeInv, TypeOK
  <2>7. InStep(i)'
    BY <2>3, <2>4, <2>5, <2>6 DEF InStep, Archive, Archives, Source
  <2> QED  BY <1>0, <2>5, <2>7, KeptShell
<1>2. CASE Goes(i, "done")
  <2>1. shell'[i].step = "done" /\ \A j \in Lives \ {i} : shell'[j] = shell[j]
    BY <1>0, <1>2 DEF Goes, ShellType
  <2>2. \A f : f.name # n => (f \in files' <=> f \in files)
    BY PutOthers DEF ShellOpens, File
  <2>3. InStep(i)'
    BY <2>1 DEF InStep
  <2> QED  BY <1>0, <2>2, <2>3, KeptShell
<1> QED  BY <1>1, <1>2 DEF ShellOpens, RmAfter, AfterTar

LEMMA KeptFills ==
  ASSUME KeptInv, TypeInv', NEW i \in Lives, ShellFills(i) PROVE KeptInv'
<1> DEFINE n == shell[i].name
           new == File(n, TRUE, shell[i].lines, now)
<1>0. /\ shell \in [Lives -> ShellType] /\ ShellStep(i) /\ ShellKeeps
      /\ shell[i].step = "fill" /\ UNCHANGED <<pc, target, reused, restarts>>
  BY DEF KeptInv, TypeInv, TypeOK, ShellStep, ShellFills, ShellKeeps
<1>1. CASE Goes(i, "rm") /\ Archive(n) # {} /\ Put(new)
  <2>1. /\ shell'[i].name = n /\ shell'[i].lines = shell[i].lines /\ shell'[i].step = "rm"
    BY <1>0, <1>1 DEF Goes, ShellType
  <2>2. new.name = n /\ new.zip = TRUE /\ new.lines = shell[i].lines
    BY DEF File
  <2> HIDE DEF new
  <2>3. /\ \A g : g.name # n => (g \in files' <=> g \in files)
        /\ new \in files'
        /\ \A g \in files' : g.name = n /\ g.zip => g.lines = shell[i].lines
        /\ \A g \in files' : ~g.zip => g \in files
    <3>1. \A g \in files' : g.zip \in BOOLEAN
      BY DEF TypeInv, TypeOK, FileType
    <3> QED  BY <1>1, <2>2, <3>1, PutOthers
  <2>4. n \notin reused => \A f \in Source(n) : f.lines \subseteq shell[i].lines
    BY <1>0 DEF KeptInv, InSteps, InStep
  <2>5. n \notin reused => InStep(i)'
    BY <2>1, <2>2, <2>3, <2>4 DEF InStep, Archive, Archives, Source
  <2> QED  BY <1>0, <2>3, <2>5, KeptShell
<1>2. CASE Goes(i, "rm") /\ Archive(n) = {} /\ UNCHANGED files
  <2>1. /\ shell'[i].name = n /\ shell'[i].lines = shell[i].lines /\ shell'[i].step = "rm"
    BY <1>0, <1>2 DEF Goes, ShellType
  <2>2. n \notin reused => InStep(i)
    BY DEF KeptInv, InSteps
  <2>3. n \notin reused => InStep(i)'
    BY <1>0, <1>2, <2>1, <2>2 DEF InStep, Archive, Archives, Source
  <2> QED  BY <1>0, <1>2, <2>3, KeptShell
<1>3. CASE Goes(i, "done") /\ UNCHANGED files
  <2>1. shell'[i].step = "done"
    BY <1>0, <1>3 DEF Goes, ShellType
  <2>2. InStep(i)'
    BY <2>1 DEF InStep
  <2> QED  BY <1>0, <1>3, <2>2, KeptShell
<1> QED  BY <1>1, <1>2, <1>3 DEF ShellFills, RmAfter, AfterTar

LEMMA KeptRm ==
  ASSUME KeptInv, TypeInv', NEW i \in Lives, ShellRm(i) PROVE KeptInv'
<1>1. /\ shell \in [Lives -> ShellType] /\ ShellStep(i) /\ Goes(i, "done")
  BY DEF KeptInv, TypeInv, TypeOK, ShellStep, ShellRm
<1>2. shell'[i].step = "done"
  BY <1>1 DEF Goes, ShellType
<1>3. \A f : f.name # shell[i].name => (f \in files' <=> f \in files)
  BY DEF ShellRm, Source
<1>4. InStep(i)'
  BY <1>2 DEF InStep
<1> QED  BY <1>1, <1>3, <1>4, KeptShell

(* A rename to a name that is not in use leaves what the shells work on. *)
LEMMA KeptRename ==
  ASSUME KeptInv, TypeInv', Rename PROVE KeptInv'
<1> DEFINE new == File(now, FALSE, current, now)
<1>1. CASE Fails /\ pc' = "open" /\ UNCHANGED <<disk, reused>>
  <2>1. UNCHANGED <<shell, files, reused>>
    BY <1>1 DEF Rename, disk
  <2> QED  BY <1>1, <2>1, KeptStays
<1>2. CASE /\ Put(new) /\ pc' = "compress"
           /\ reused' = IF NameTaken(now) THEN reused \cup {now} ELSE reused
  <2>1. target' = now /\ now' = now /\ UNCHANGED <<shell, restarts>>
    BY DEF Rename
  <2>2. new.name = now /\ new.zip = FALSE
    BY DEF File
  <2> HIDE DEF new
  <2>3. reused \subseteq reused' /\ (now \notin reused' => ~NameTaken(now))
    BY <1>2
  <2>4. \A i \in Lives : Running(i) /\ shell[i].name \notin reused' => shell[i].name # now
    BY <2>3 DEF NameTaken
  <2>5. /\ \A g : g.name # now => (g \in files' <=> g \in files)
        /\ \A g \in files' : g.zip => g \in files
    BY <1>2, <2>2, PutOthers
  <2>6. OneShell'
    BY <2>1, <2>3 DEF KeptInv, OneShell, Running
  <2>7. BeforeShell'
    BY <2>1, <2>3, <2>5 DEF BeforeShell, NameTaken, Archive, Archives, Running
  <2>8. ASSUME NEW i \in Lives, Running(i), shell[i].name \notin reused'
        PROVE  InStep(i)'
    <3>1. InStep(i) /\ shell[i].name # now
      BY <2>3, <2>4, <2>8 DEF KeptInv, InSteps
    <3>2. /\ {f \in Archives' : f.name = shell[i].name} = Archive(shell[i].name)
          /\ {f \in files' : f.name = shell[i].name /\ ~f.zip} = Source(shell[i].name)
      BY <2>5, <3>1 DEF Archive, Archives, Source
    <3> QED  BY <2>1, <3>1, <3>2 DEF InStep, Archive, Source
  <2>9. InSteps'
    BY <2>1, <2>8 DEF InSteps, InStep, Running
  <2> QED  BY <2>6, <2>7, <2>9 DEF KeptInv
<1> QED  BY <1>1, <1>2 DEF Rename

LEMMA KeptCompress ==
  ASSUME KeptInv, TypeInv', Compress PROVE KeptInv'
<1> DEFINE new == [NoShell EXCEPT !.name = target, !.step = "tar"]
<1>0. /\ shell \in [Lives -> ShellType] /\ restarts \in Lives /\ target \in 0 .. MaxSeconds
      /\ pc = "compress" /\ UNCHANGED <<files, reused, restarts>>
  BY DEF KeptInv, TypeInv, TypeOK, Compress, Lives, disk
<1>1. CASE pc' = "cleanup" /\ UNCHANGED shell
  BY <1>0, <1>1, KeptStays
<1>2. CASE pc' = "wait" /\ shell' = [shell EXCEPT ![restarts] = new]
  <2>1. new \in ShellType /\ new.step = "tar" /\ new.name = target
    BY <1>0, NoShellTyped DEF ShellType
  <2> HIDE DEF new
  <2>2. shell'[restarts] = new /\ \A j \in Lives \ {restarts} : shell'[j] = shell[j]
    BY <1>0, <1>2, <2>1, ShellSet
  <2>3. target \notin reused =>
          Archive(target) = {} /\ \A i \in Lives : Running(i) => shell[i].name # target
    BY <1>0 DEF KeptInv, BeforeShell
  <2>4. OneShell'
    <3> SUFFICES ASSUME NEW i \in Lives, NEW j \in Lives, Running(i)', Running(j)',
                        shell'[i].name = shell'[j].name, shell'[i].name \notin reused, i # j
                 PROVE  FALSE
      BY <1>0 DEF OneShell
    <3>1. CASE i = restarts
      BY <2>1, <2>2, <2>3, <3>1 DEF Running
    <3>2. CASE j = restarts
      BY <2>1, <2>2, <2>3, <3>2 DEF Running
    <3>3. CASE i # restarts /\ j # restarts
      BY <2>2, <3>3 DEF Running, KeptInv, OneShell
    <3> QED  BY <3>1, <3>2, <3>3
  <2>5. ASSUME NEW i \in Lives, shell'[i].name \notin reused PROVE InStep(i)'
    <3>1. CASE i = restarts
      BY <1>0, <2>1, <2>2, <2>3, <2>5, <3>1 DEF InStep, Archive, Archives
    <3>2. CASE i # restarts
      <4>1. shell'[i] = shell[i] /\ InStep(i)
        BY <2>2, <2>5, <3>2 DEF KeptInv, InSteps
      <4> QED  BY <1>0, <4>1 DEF InStep, Archive, Archives, Source
    <3> QED  BY <3>1, <3>2
  <2> QED  BY <1>0, <1>2, <2>4, <2>5 DEF KeptInv, InSteps, BeforeShell
<1> QED  BY <1>1, <1>2 DEF Compress

LEMMA NextKept == KeptInv /\ [Next]_vars => KeptInv'
<1> SUFFICES ASSUME KeptInv, [Next]_vars PROVE KeptInv'
  OBVIOUS
<1>0. TypeInv /\ TypeInv' /\ shell \in [Lives -> ShellType] /\ restarts \in Lives
  BY NextType, NextCounted DEF KeptInv, TypeInv, TypeOK, Lives
<1>1. CASE Start \/ Log \/ Reopen \/ Write
  <2>1. UNCHANGED <<shell, reused, files, restarts>>
    BY <1>1 DEF Start, Log, Reopen, Write, disk, commands
  <2>2. pc' # "compress" /\ pc' # "wait"
    BY <1>1 DEF Start, Log, Reopen, Write
  <2> QED  BY <1>0, <2>1, <2>2, KeptStays
<1>2. CASE Cleanup
  <2>1. UNCHANGED <<shell, reused>> /\ files' \subseteq files
    BY <1>2 DEF Cleanup, commands
  <2>2. pc' # "compress" /\ pc' # "wait"
    BY <1>2 DEF Cleanup
  <2> QED  BY <1>0, <2>1, <2>2, KeptStays
<1>3. CASE Wait
  <2>1. shell' = [shell EXCEPT ![restarts] = NoShell] /\ pc' = "cleanup"
        /\ UNCHANGED <<files, reused>>
    BY <1>3 DEF Wait, disk
  <2>2. \A i \in Lives : shell'[i] = shell[i] \/ shell'[i].step = "none"
    BY <1>0, <2>1, NoShellTyped
  <2> QED  BY <1>0, <2>1, <2>2, KeptStays
<1>4. CASE Crash
  <2>1. pc' = "down" /\ UNCHANGED <<files, reused>>
    BY <1>4 DEF Crash, disk
  <2>2. \A i \in Lives : shell'[i] = shell[i] \/ shell'[i].step = "none"
    BY <1>0, <1>4, NoShellTyped DEF Crash
  <2> QED  BY <1>0, <2>1, <2>2, KeptStays
<1>5. CASE Tick \/ StepBack \/ UNCHANGED vars
  <2>1. UNCHANGED <<shell, reused, files, restarts, pc, target>>
    BY <1>5 DEF Tick, StepBack, vars, disk, commands, bounds
  <2> QED  BY <1>0, <2>1, KeptStays DEF Archives
<1> QED  BY <1>0, <1>1, <1>2, <1>3, <1>4, <1>5, KeptRename, KeptCompress, KeptOpens,
            KeptFills, KeptRm DEF Next

(* Put loses at most what the file of the same name and kind held. *)
LEMMA PutLoses ==
  ASSUME NEW f, Put(f), NEW l \in UNION {g.lines : g \in files},
         l \notin UNION {g.lines : g \in files'}
  PROVE  \E g \in files : g.name = f.name /\ g.zip = f.zip /\ l \in g.lines
  BY DEF Put

TakenEarly(l) == \E i \in Outlived : /\ shell[i].step = "rm" /\ l \in shell[i].lines
                                     /\ Archive(shell[i].name) = {}
NameReused(l) == \E f \in files : l \in f.lines /\ f.name \in reused'

(* The steps of a shell lose a line only when the clean-up had taken what   *)
(* it wrote, or its name is used twice.                                     *)
LEMMA ShellLoses ==
  ASSUME KeptInv, NEW i \in Lives, ShellStep(i), NEW l \in OnDisk, l \notin OnDisk'
  PROVE  NameReused(l) \/ TakenEarly(l)
<1> DEFINE n == shell[i].name
<1>0. /\ current' = current /\ reused' = reused /\ i <= restarts
      /\ (n \notin reused => InStep(i)) /\ TypeOK
  BY ShellMoves DEF KeptInv, TypeInv, ShellKeeps, InSteps
<1>1. l \notin UNION {g.lines : g \in files'} /\ l \notin current
  BY <1>0 DEF OnDisk
<1>2. l \in UNION {g.lines : g \in files}
  BY <1>1 DEF OnDisk
<1>3. ASSUME NEW lines, Put(File(n, TRUE, lines, now))
      PROVE  \E g \in Archive(n) : l \in g.lines
  <2>1. \E g \in files : g.name = n /\ g.zip = TRUE /\ l \in g.lines
    BY <1>1, <1>2, <1>3, PutLoses DEF File
  <2> QED  BY <2>1 DEF Archive, Archives
<1>4. ASSUME NEW g \in files, g.name = n, l \in g.lines, n \in reused
      PROVE  NameReused(l)
  BY <1>0, <1>4 DEF NameReused
<1>5. files' # files
  BY <1>1, <1>2
<1>6. CASE ShellOpens(i)
  <2>1. PICK g \in Archive(n) : l \in g.lines
    BY <1>3, <1>5, <1>6 DEF ShellOpens
  <2>2. n \in reused
    BY <1>0, <1>6, <2>1 DEF ShellOpens, InStep
  <2> QED  BY <1>4, <2>1, <2>2 DEF Archive, Archives
<1>7. CASE ShellFills(i)
  <2>1. PICK g \in Archive(n) : l \in g.lines
    BY <1>3, <1>5, <1>7 DEF ShellFills
  <2>2. n \in reused
    BY <1>0, <1>7, <2>1 DEF ShellFills, InStep
  <2> QED  BY <1>4, <2>1, <2>2 DEF Archive, Archives
<1>8. CASE ShellRm(i)
  <2>1. files' = files \ Source(n) /\ shell[i].step = "rm"
    BY <1>5, <1>8 DEF ShellRm
  <2>2. PICK g \in files : l \in g.lines
    BY <1>2
  <2>3. g \in Source(n) /\ g.name = n
    BY <1>1, <2>1, <2>2 DEF Source
  <2>4. CASE n \in reused
    BY <1>4, <2>2, <2>3, <2>4
  <2>5. CASE n \notin reused
    <3>1. l \in shell[i].lines
      BY <1>0, <2>1, <2>2, <2>3, <2>5 DEF InStep
    <3>2. Archive(n) = {}
      <4> SUFFICES ASSUME NEW a \in Archive(n) PROVE FALSE
        OBVIOUS
      <4>1. l \in a.lines /\ a \in files /\ a.zip
        BY <1>0, <2>1, <2>5, <3>1 DEF InStep, Archive, Archives
      <4>2. a \in files'
        BY <2>1, <4>1 DEF Source
      <4> QED  BY <1>1, <4>1, <4>2
    <3>3. i # restarts
      BY <1>0, <2>1, <2>5, <3>2 DEF InStep
    <3>4. i \in Outlived
      <4>1. i \in Nat /\ restarts \in Nat
        BY <1>0, LogNumbers DEF TypeOK
      <4> QED  BY <1>0, <2>1, <3>3, <4>1 DEF Outlived
    <3> QED  BY <2>1, <3>1, <3>2, <3>4 DEF TakenEarly
  <2> QED  BY <2>4, <2>5
<1> QED  BY <1>6, <1>7, <1>8 DEF ShellStep

LEMMA Loses ==
  ASSUME KeptInv, Next, NEW l \in OnDisk, l \notin OnDisk'
  PROVE  (pc = "cleanup" /\ pc' # pc) \/ NameReused(l) \/ TakenEarly(l)
<1>1. CASE Rename
  <2>1. CASE /\ Put(File(now, FALSE, current, now))
             /\ reused' = IF NameTaken(now) THEN reused \cup {now} ELSE reused
    <3>1. File(now, FALSE, current, now) \in files'
      BY <2>1 DEF Put
    <3>2. File(now, FALSE, current, now).lines = current
      BY DEF File
    <3>3. l \notin UNION {g.lines : g \in files'}
      BY DEF OnDisk
    <3>4. l \notin current
      BY <3>1, <3>2, <3>3
    <3>5. l \in UNION {g.lines : g \in files}
      BY <3>4 DEF OnDisk
    <3>6. PICK g \in files : g.name = now /\ l \in g.lines
      BY <2>1, <3>3, <3>5, PutLoses DEF File
    <3>7. now \in reused'
      BY <2>1, <3>6 DEF NameTaken
    <3> QED  BY <3>6, <3>7 DEF NameReused
  <2>2. CASE UNCHANGED disk
    BY <2>2 DEF disk, OnDisk
  <2> QED  BY <1>1, <2>1, <2>2 DEF Rename
<1>2. CASE Cleanup
  BY <1>2 DEF Cleanup
<1>3. CASE Write
  <2>1. files' = files /\ current \subseteq current'
    BY <1>3 DEF Write
  <2> QED  BY <2>1 DEF OnDisk
<1>4. Start \/ Log \/ Compress \/ Wait \/ Reopen \/ Tick \/ StepBack \/ Crash
        => UNCHANGED disk
  BY DEF Start, Log, Compress, Wait, Reopen, Tick, StepBack, Crash
<1>5. CASE UNCHANGED disk
  BY <1>5 DEF disk, OnDisk
<1> QED  BY <1>1, <1>2, <1>3, <1>4, <1>5, ShellLoses DEF Next, ShellStep

(* No failed rename, failed or killed tar, rm or restart loses a line that  *)
(* has reached the disk: only a clean-up does, which may take the archive   *)
(* of a shell that outlived its process before that shell's rm, and a       *)
(* rotation that uses a name again.                                         *)
THEOREM NoLineLost == Spec => LostOnlyByCleanup
<1>1. KeptInv /\ [Next]_vars =>
        [\A l \in OnDisk \ OnDisk' :
           \/ pc = "cleanup" /\ pc' # pc
           \/ \E f \in files : l \in f.lines /\ f.name \in reused'
           \/ \E i \in Outlived : /\ shell[i].step = "rm" /\ l \in shell[i].lines
                                  /\ Archive(shell[i].name) = {}]_vars
  BY Loses DEF NameReused, TakenEarly
<1> QED  BY <1>1, InitKept, NextKept, PTL DEF Spec, LostOnlyByCleanup
-----------------------------------------------------------------------------
(***************************************************************************)
(* The archives.  A shell adds at most one, and a clean-up takes the        *)
(* surplus away unless it fails.  The archive of a shell that outlived its  *)
(* process may come after the clean-up of the next start: the balance       *)
(* counts the archives there are, those that shells have yet to make, and   *)
(* against them the shells that outlived their process.                     *)
(***************************************************************************)
Kept == Cardinality(Archives)
Tarring == {i \in Lives : shell[i].step = "tar"}
Balance == Kept + Cardinality(Tarring) - Cardinality(Outlived)

AfterCleanup == {"idle", "rename", "compress", "open", "write"}

ArchiveInv ==
  /\ TypeInv /\ IsFiniteSet(files)
  /\ Balance <= MaxLogFiles + faults + 1
  /\ pc \in AfterCleanup => Balance <= MaxLogFiles + faults

LEMMA LifeSets ==
  ASSUME NEW S \in SUBSET Lives
  PROVE  IsFiniteSet(S) /\ Cardinality(S) \in Nat
<1>1. IsFiniteSet(Lives)
  BY LogNumbers, FS_Interval DEF Lives
<1>2. IsFiniteSet(S)
  BY <1>1, FS_Subset
<1> QED  BY <1>2, FS_CardinalityType

LEMMA KeptTyped ==
  ASSUME IsFiniteSet(files) PROVE IsFiniteSet(Archives) /\ Kept \in Nat
<1>1. Archives \in SUBSET files
  BY DEF Archives
<1>2. IsFiniteSet(Archives)
  BY <1>1, FS_Subset
<1> QED  BY <1>2, FS_CardinalityType DEF Kept

LEMMA FewerKept ==
  ASSUME IsFiniteSet(files), files' \subseteq files
  PROVE  IsFiniteSet(files') /\ Kept' \in Nat /\ Kept' <= Kept
<1>1. IsFiniteSet(files')
  BY FS_Subset
<1>2. Archives' \in SUBSET Archives
  BY DEF Archives
<1>3. IsFiniteSet(Archives) /\ Kept \in Nat
  BY KeptTyped
<1>4. IsFiniteSet(Archives') /\ Cardinality(Archives') <= Cardinality(Archives)
  BY <1>2, <1>3, FS_Subset
<1>5. Cardinality(Archives') \in Nat
  BY <1>4, FS_CardinalityType
<1> QED  BY <1>1, <1>4, <1>5 DEF Kept

LEMMA PutKept ==
  ASSUME TypeOK, IsFiniteSet(files), NEW f, Put(f)
  PROVE  /\ IsFiniteSet(files') /\ Kept' \in Nat /\ Kept' <= Kept + 1
         /\ f.zip = FALSE => Kept' <= Kept
         /\ f.zip = TRUE /\ Archive(f.name) # {} => Kept' <= Kept
<1>1. IsFiniteSet(Archives) /\ Kept \in Nat
  BY KeptTyped
<1>2. files' \subseteq files \cup {f}
  BY DEF Put
<1>3. IsFiniteSet(files \cup {f})
  BY FS_AddElement
<1>4. IsFiniteSet(files')
  BY <1>2, <1>3, FS_Subset
<1>5. Archives' \in SUBSET (Archives \cup {f})
  BY <1>2 DEF Archives
<1>6. IsFiniteSet(Archives \cup {f})
  BY <1>1, FS_AddElement
<1>7. Cardinality(Archives \cup {f}) = IF f \in Archives THEN Kept ELSE Kept + 1
  BY <1>1, FS_AddElement DEF Kept
<1>8. IsFiniteSet(Archives') /\ Kept' <= Cardinality(Archives \cup {f})
  BY <1>5, <1>6, FS_Subset DEF Kept
<1>9. Kept' \in Nat
  BY <1>8, FS_CardinalityType DEF Kept
<1>10. ASSUME f.zip = FALSE PROVE Kept' <= Kept
  <2>1. Archives' \in SUBSET Archives
    BY <1>2, <1>10 DEF Archives
  <2> QED  BY <1>1, <2>1, FS_Subset DEF Kept
<1>11. Kept' <= Kept + 1
  BY <1>1, <1>7, <1>8, <1>9
<1>12. ASSUME f.zip = TRUE, NEW g \in Archive(f.name) PROVE Kept' <= Kept
  <2>1. g \in Archives /\ IsFiniteSet(Archives \ {g})
        /\ Cardinality(Archives \ {g}) = Kept - 1
    BY <1>1, <1>12, FS_RemoveElement DEF Archive, Kept
  <2>2. Cardinality((Archives \ {g}) \cup {f}) <= Kept /\ IsFiniteSet((Archives \ {g}) \cup {f})
    <3>1. IsFiniteSet((Archives \ {g}) \cup {f})
          /\ Cardinality((Archives \ {g}) \cup {f}) \in {Kept - 1, Kept - 1 + 1}
      BY <2>1, FS_AddElement
    <3> QED  BY <1>1, <3>1
  <2>3. Archives' \in SUBSET ((Archives \ {g}) \cup {f})
    <3>1. g.name = f.name /\ g.zip = TRUE
      BY <1>12, <2>1 DEF Archive, Archives, TypeOK, FileType
    <3> QED  BY <1>12, <3>1 DEF Put, Archives
  <2>4. Kept' <= Cardinality((Archives \ {g}) \cup {f})
    BY <2>2, <2>3, FS_Subset DEF Kept
  <2>5. Cardinality((Archives \ {g}) \cup {f}) \in Nat
    BY <2>2, FS_CardinalityType
  <2> QED  BY <1>1, <1>9, <2>2, <2>4, <2>5
<1> QED  BY <1>4, <1>9, <1>10, <1>11, <1>12

(* The balance when nothing is added, when a shell that was to make an      *)
(* archive has made it, and when one is started.                            *)
LEMMA BalanceKept ==
  ASSUME IsFiniteSet(files), Kept' \in Nat, Kept' <= Kept,
         Tarring' \subseteq Tarring, Outlived \subseteq Outlived'
  PROVE  Balance \in Int /\ Balance' \in Int /\ Balance' <= Balance
<1>1. Tarring \in SUBSET Lives /\ Outlived' \in SUBSET Lives
      /\ Outlived \in SUBSET Lives /\ Tarring' \in SUBSET Lives
  BY DEF Tarring, Outlived
<1>2. /\ Cardinality(Tarring) \in Nat /\ Cardinality(Tarring') \in Nat
      /\ Cardinality(Outlived) \in Nat /\ Cardinality(Outlived') \in Nat
      /\ Kept \in Nat
  BY <1>1, LifeSets, KeptTyped
<1>3. Cardinality(Tarring') <= Cardinality(Tarring)
      /\ Cardinality(Outlived) <= Cardinality(Outlived')
  BY <1>1, LifeSets, FS_Subset
<1> QED  BY <1>2, <1>3 DEF Balance

LEMMA BalanceTarred ==
  ASSUME IsFiniteSet(files), Kept' \in Nat, Kept' <= Kept + 1,
         NEW i \in Tarring, Tarring' \subseteq Tarring \ {i}, Outlived \subseteq Outlived'
  PROVE  Balance \in Int /\ Balance' \in Int /\ Balance' <= Balance
<1>1. Tarring \in SUBSET Lives /\ Outlived' \in SUBSET Lives
      /\ Outlived \in SUBSET Lives /\ Tarring' \in SUBSET Lives
      /\ Tarring \ {i} \in SUBSET Lives
  BY DEF Tarring, Outlived
<1>2. /\ Cardinality(Tarring) \in Nat /\ Cardinality(Tarring') \in Nat
      /\ Cardinality(Outlived) \in Nat /\ Cardinality(Outlived') \in Nat
      /\ Kept \in Nat
  BY <1>1, LifeSets, KeptTyped
<1>3. Cardinality(Outlived) <= Cardinality(Outlived')
  BY <1>1, LifeSets, FS_Subset
<1>4. Cardinality(Tarring') <= Cardinality(Tarring) - 1
  <2>1. Cardinality(Tarring \ {i}) = Cardinality(Tarring) - 1
    BY <1>1, LifeSets, FS_RemoveElement
  <2>2. Cardinality(Tarring') <= Cardinality(Tarring \ {i})
    BY <1>1, LifeSets, FS_Subset
  <2> QED  BY <2>1, <2>2
<1> QED  BY <1>2, <1>3, <1>4 DEF Balance

LEMMA BalanceStarted ==
  ASSUME IsFiniteSet(files), Kept' \in Nat, Kept' <= Kept,
         NEW i \in Lives, Tarring' \subseteq Tarring \cup {i}, Outlived \subseteq Outlived'
  PROVE  Balance \in Int /\ Balance' \in Int /\ Balance' <= Balance + 1
<1>1. Tarring \in SUBSET Lives /\ Outlived' \in SUBSET Lives
      /\ Outlived \in SUBSET Lives /\ Tarring' \in SUBSET Lives
      /\ Tarring \cup {i} \in SUBSET Lives
  BY DEF Tarring, Outlived
<1>2. /\ Cardinality(Tarring) \in Nat /\ Cardinality(Tarring') \in Nat
      /\ Cardinality(Outlived) \in Nat /\ Cardinality(Outlived') \in Nat
      /\ Kept \in Nat
  BY <1>1, LifeSets, KeptTyped
<1>3. Cardinality(Outlived) <= Cardinality(Outlived')
  BY <1>1, LifeSets, FS_Subset
<1>4. Cardinality(Tarring') <= Cardinality(Tarring) + 1
  <2>1. Cardinality(Tarring \cup {i}) \in
          {Cardinality(Tarring), Cardinality(Tarring) + 1}
    BY <1>1, LifeSets, FS_AddElement
  <2>2. Cardinality(Tarring') <= Cardinality(Tarring \cup {i})
    BY <1>1, LifeSets, FS_Subset
  <2> QED  BY <1>2, <2>1, <2>2
<1> QED  BY <1>2, <1>3, <1>4 DEF Balance

(* A step that keeps the balance and ends where it may, keeps the bound. *)
LEMMA ArchivesStay ==
  ASSUME ArchiveInv, TypeInv', IsFiniteSet(files'), Balance \in Int, Balance' \in Int,
         Balance' <= Balance, faults' = faults \/ faults' = faults + 1,
         pc \in AfterCleanup \/ pc' \notin AfterCleanup
  PROVE  ArchiveInv'
<1>1. faults \in Nat /\ MaxLogFiles \in Nat
  BY HeldTyped, LogNumbers DEF ArchiveInv
<1>2. Balance' <= MaxLogFiles + faults' + 1
  <2>1. Balance <= MaxLogFiles + faults + 1
    BY DEF ArchiveInv
  <2>2. Balance' <= MaxLogFiles + faults + 1
    BY <1>1, <2>1
  <2>3. CASE faults' = faults
    BY <2>2, <2>3
  <2>4. CASE faults' = faults + 1
    BY <1>1, <2>2, <2>4
  <2> QED  BY <2>3, <2>4
<1>3. CASE pc \in AfterCleanup
  <2>1. Balance' <= MaxLogFiles + faults'
    <3>1. Balance <= MaxLogFiles + faults
      BY <1>3 DEF ArchiveInv
    <3>2. Balance' <= MaxLogFiles + faults
      BY <1>1, <3>1
    <3>3. CASE faults' = faults
      BY <3>2, <3>3
    <3>4. CASE faults' = faults + 1
      BY <1>1, <3>2, <3>4
    <3> QED  BY <3>3, <3>4
  <2> QED  BY <1>2, <2>1 DEF ArchiveInv
<1>4. CASE pc' \notin AfterCleanup
  BY <1>2, <1>4 DEF ArchiveInv, AfterCleanup
<1> QED  BY <1>3, <1>4

(* popen() starts at most one shell, and a clean-up follows. *)
LEMMA ArchiveAdded ==
  ASSUME ArchiveInv, TypeInv', pc \in AfterCleanup, IsFiniteSet(files'),
         Balance \in Int, Balance' \in Int, Balance' <= Balance + 1,
         faults' = faults \/ faults' = faults + 1, pc' \notin AfterCleanup
  PROVE  ArchiveInv'
<1>1. faults \in Nat /\ MaxLogFiles \in Nat /\ Balance <= MaxLogFiles + faults
  BY HeldTyped, LogNumbers DEF ArchiveInv
<1>2. Balance' <= MaxLogFiles + faults + 1
  BY <1>1
<1>3. Balance' <= MaxLogFiles + faults' + 1
  <2>1. CASE faults' = faults
    BY <1>2, <2>1
  <2>2. CASE faults' = faults + 1
    BY <1>1, <1>2, <2>2
  <2> QED  BY <2>1, <2>2
<1> QED  BY <1>3 DEF ArchiveInv, AfterCleanup

LEMMA InitArchives == Init => ArchiveInv
<1> SUFFICES ASSUME Init PROVE ArchiveInv
  OBVIOUS
<1>1. files = {} /\ Archives = {} /\ faults = 0
  BY DEF Init, Archives
<1>2. Tarring = {} /\ Outlived = {}
  BY NoShellTyped DEF Init, Tarring, Outlived
<1>3. IsFiniteSet(files) /\ Balance = 0
  BY <1>1, <1>2, FS_EmptySet DEF Balance, Kept
<1> QED  BY <1>1, <1>3, InitType, LogNumbers DEF ArchiveInv

LEMMA NextArchives == ArchiveInv /\ [Next]_vars => ArchiveInv'
<1> SUFFICES ASSUME ArchiveInv, [Next]_vars PROVE ArchiveInv'
  OBVIOUS
<1>0. TypeInv /\ TypeInv' /\ TypeOK /\ IsFiniteSet(files)
  BY NextType, NextCounted DEF ArchiveInv, TypeInv
<1>a. Kept \in Nat /\ faults \in Nat /\ MaxLogFiles \in Nat /\ restarts \in Lives
      /\ restarts \in Nat /\ Lives \subseteq Nat
      /\ shell \in [Lives -> ShellType]
  BY <1>0, KeptTyped, HeldTyped, LogNumbers DEF TypeOK, Lives
<1>b. UNCHANGED files => IsFiniteSet(files') /\ Kept' \in Nat /\ Kept' <= Kept
  BY <1>0, FewerKept
<1>c. UNCHANGED <<shell, restarts>> => Tarring' = Tarring /\ Outlived' = Outlived
  BY DEF Tarring, Outlived
<1>1. CASE Start
  <2>1. UNCHANGED <<files, shell, restarts>> /\ pc' \notin AfterCleanup /\ (Works \/ Fails)
    BY <1>1 DEF Start, disk, commands, OpenWorks, AfterCleanup
  <2>2. Balance \in Int /\ Balance' \in Int /\ Balance' <= Balance
    BY <1>0, <1>b, <1>c, <2>1, BalanceKept
  <2> QED  BY <1>0, <1>b, <2>1, <2>2, FaultsGrow, ArchivesStay
<1>2. CASE Log \/ Reopen \/ Write
  <2>1. UNCHANGED <<files, shell, restarts>> /\ pc \in AfterCleanup
        /\ (faults' = faults \/ faults' = faults + 1)
    BY <1>2 DEF Log, Reopen, Write, disk, commands, OpenWorks, AfterCleanup, Works, Fails
  <2>2. Balance \in Int /\ Balance' \in Int /\ Balance' <= Balance
    BY <1>0, <1>b, <1>c, <2>1, BalanceKept
  <2> QED  BY <1>0, <1>b, <2>1, <2>2, ArchivesStay
<1>3. CASE Rename
  <2>1. pc \in AfterCleanup /\ (Works \/ Fails) /\ UNCHANGED <<shell, restarts>>
    BY <1>3 DEF Rename, AfterCleanup
  <2>2. IsFiniteSet(files') /\ Kept' \in Nat /\ Kept' <= Kept
    <3>1. CASE Put(File(now, FALSE, current, now))
      <4>1. File(now, FALSE, current, now).zip = FALSE
        BY DEF File
      <4> QED  BY <1>0, <3>1, <4>1, PutKept
    <3>2. CASE UNCHANGED disk
      BY <1>b, <3>2 DEF disk
    <3> QED  BY <1>3, <3>1, <3>2 DEF Rename
  <2>3. Balance \in Int /\ Balance' \in Int /\ Balance' <= Balance
    BY <1>0, <1>c, <2>1, <2>2, BalanceKept
  <2> QED  BY <1>0, <2>1, <2>2, <2>3, FaultsGrow, ArchivesStay
<1>4. CASE Compress
  <2>1. UNCHANGED <<files, restarts>> /\ pc \in AfterCleanup /\ pc' \notin AfterCleanup
        /\ (Works \/ Fails)
    BY <1>4 DEF Compress, disk, AfterCleanup
  <2>2. \A j \in Lives \ {restarts} : shell'[j] = shell[j]
    BY <1>a, <1>4 DEF Compress
  <2>3. Tarring' \subseteq Tarring \cup {restarts} /\ Outlived \subseteq Outlived'
    <3>1. Tarring' \subseteq Tarring \cup {restarts}
      BY <2>2 DEF Tarring
    <3>2. \A i \in Lives : i < restarts => i # restarts
      BY <1>a
    <3> QED  BY <2>1, <2>2, <3>1, <3>2 DEF Outlived
  <2>4. Balance \in Int /\ Balance' \in Int /\ Balance' <= Balance + 1
    BY <1>0, <1>a, <1>b, <2>1, <2>3, BalanceStarted
  <2> QED  BY <1>0, <1>b, <2>1, <2>4, FaultsGrow, ArchiveAdded
<1>5. CASE Wait \/ Crash
  <2>1. UNCHANGED <<files, faults>> /\ pc' \notin AfterCleanup
        /\ restarts' \in {restarts, restarts + 1}
    BY <1>5 DEF Wait, Crash, disk, bounds, AfterCleanup
  <2>2. /\ \A j \in Lives \ {restarts} : shell'[j] = shell[j]
        /\ shell'[restarts] \in {shell[restarts], NoShell}
    BY <1>a, <1>5, NoShellTyped DEF Wait, Crash
  <2>3. Tarring' \subseteq Tarring
    BY <2>2, NoShellTyped DEF Tarring
  <2>4. Outlived \subseteq Outlived'
    <3>1. \A i \in Lives : i < restarts => i # restarts /\ i < restarts + 1
      BY <1>a
    <3> QED  BY <2>1, <2>2, <3>1 DEF Outlived
  <2>5. Balance \in Int /\ Balance' \in Int /\ Balance' <= Balance
    BY <1>0, <1>b, <2>1, <2>3, <2>4, BalanceKept
  <2> QED  BY <1>0, <1>b, <2>1, <2>5, ArchivesStay
<1>6. CASE Cleanup
  <2>1. PICK surplus \in SUBSET Archives :
          /\ Cardinality(surplus) = IF Excess > 0 THEN Excess ELSE 0
          /\ \/ Works /\ files' = files \ surplus
             \/ Fails /\ \E gone \in SUBSET surplus : files' = files \ gone
    BY <1>6 DEF Cleanup
  <2>2. IsFiniteSet(files') /\ Kept' \in Nat /\ Kept' <= Kept
    BY <1>0, <2>1, FewerKept
  <2>3. faults' \in Nat /\ (faults' = faults \/ faults' = faults + 1)
    BY <1>0, <2>1, FaultsGrow
  <2>4. pc # "wait" /\ UNCHANGED <<shell, restarts>>
    BY <1>6 DEF Cleanup, commands
  <2>5. Balance \in Int /\ Balance' \in Int /\ Balance' <= Balance
    BY <1>0, <1>c, <2>2, <2>4, BalanceKept
  <2>6. Balance' <= MaxLogFiles + faults'
    <3>1. CASE Works /\ files' = files \ surplus
      <4>1. Archives' = Archives \ surplus /\ Archives \cap surplus = surplus
        BY <3>1 DEF Archives
      <4>2. IsFiniteSet(Archives)
        BY <1>0, KeptTyped
      <4>3. Kept' = Kept - Cardinality(surplus)
        BY <4>1, <4>2, FS_Difference DEF Kept
      <4>4. Excess = Kept - MaxLogFiles
        BY DEF Excess, Kept
      <4>5. Kept' <= MaxLogFiles
        BY <1>a, <2>1, <4>3, <4>4
      <4>6. Tarring \subseteq Outlived
        <5> SUFFICES ASSUME NEW i \in Lives, shell[i].step = "tar" PROVE i < restarts
          BY DEF Tarring, Outlived
        <5>1. OwnShell
          BY <1>0 DEF TypeOK
        <5>2. ~(i > restarts) /\ i # restarts
          BY <2>4, <5>1 DEF OwnShell
        <5>3. i \in Nat
          BY <1>a
        <5> QED  BY <1>a, <5>2, <5>3
      <4>7. /\ Cardinality(Tarring') \in Nat /\ Cardinality(Outlived') \in Nat
            /\ Cardinality(Tarring') <= Cardinality(Outlived')
        <5>1. Tarring' \in SUBSET Lives /\ Outlived' \in SUBSET Lives
              /\ Tarring' \subseteq Outlived'
          BY <1>c, <2>4, <4>6 DEF Tarring, Outlived
        <5> QED  BY <5>1, LifeSets, FS_Subset
      <4>8. faults' = faults
        BY <3>1 DEF Works
      <4>9. Balance' <= MaxLogFiles
        BY <1>a, <2>2, <4>5, <4>7 DEF Balance
      <4> QED  BY <1>a, <2>5, <4>8, <4>9
    <3>2. CASE Fails
      <4>1. faults' = faults + 1 /\ Balance <= MaxLogFiles + faults + 1
        BY <3>2 DEF Fails, ArchiveInv
      <4> QED  BY <1>a, <2>5, <4>1
    <3> QED  BY <2>1, <3>1, <3>2
  <2>7. Balance' <= MaxLogFiles + faults' + 1
    <3>1. CASE faults' = faults
      BY <1>a, <2>5, <2>6, <3>1
    <3>2. CASE faults' = faults + 1
      BY <1>a, <2>5, <2>6, <3>2
    <3> QED  BY <2>3, <3>1, <3>2
  <2> QED  BY <1>0, <2>2, <2>6, <2>7 DEF ArchiveInv
<1>7. CASE Tick \/ StepBack \/ UNCHANGED vars
  <2>1. UNCHANGED <<files, faults, pc, shell, restarts>>
    BY <1>7 DEF Tick, StepBack, vars, disk, commands, bounds
  <2>2. Balance \in Int /\ Balance' \in Int /\ Balance' <= Balance
    BY <1>0, <1>b, <1>c, <2>1, BalanceKept
  <2> QED  BY <1>0, <1>b, <2>1, <2>2, ArchivesStay
<1>8. ASSUME NEW i \in Lives, ShellStep(i) PROVE ArchiveInv'
  <2>1. /\ shell[i].step \in {"tar", "fill", "rm"} /\ UNCHANGED <<pc, restarts>>
        /\ shell'[i].step \in {"fill", "rm", "done"} /\ (Works \/ Fails)
        /\ \A j \in Lives \ {i} : shell'[j] = shell[j]
    BY <1>0, <1>8, ShellMoves DEF ShellKeeps
  <2>2. Outlived \subseteq Outlived' /\ Tarring' \subseteq Tarring \ {i}
    BY <2>1 DEF Outlived, Tarring
  <2>3. IsFiniteSet(files') /\ Balance \in Int /\ Balance' \in Int /\ Balance' <= Balance
    <3>1. CASE ShellOpens(i)
      <4>1. UNCHANGED files \/ \E f : Put(f)
        BY <3>1 DEF ShellOpens
      <4>2. IsFiniteSet(files') /\ Kept' \in Nat /\ Kept' <= Kept + 1
        <5>1. CASE UNCHANGED files
          BY <1>a, <1>b, <5>1
        <5>2. CASE \E f : Put(f)
          BY <1>0, <5>2, PutKept
        <5> QED  BY <4>1, <5>1, <5>2
      <4>3. i \in Tarring
        BY <3>1 DEF ShellOpens, Tarring
      <4> QED  BY <1>0, <2>2, <4>2, <4>3, BalanceTarred
    <3>2. ASSUME IsFiniteSet(files'), Kept' \in Nat, Kept' <= Kept
          PROVE  IsFiniteSet(files') /\ Balance \in Int /\ Balance' \in Int /\ Balance' <= Balance
      <4>1. Tarring' \subseteq Tarring
        BY <2>2
      <4> QED  BY <1>0, <2>2, <3>2, <4>1, BalanceKept
    <3>3. CASE ShellFills(i)
      <4>1. CASE UNCHANGED files
        BY <1>b, <3>2, <4>1
      <4> DEFINE new == File(shell[i].name, TRUE, shell[i].lines, now)
      <4>2. CASE Archive(shell[i].name) # {} /\ Put(new)
        <5>1. new.name = shell[i].name /\ new.zip = TRUE
          BY DEF File
        <5> HIDE DEF new
        <5> QED  BY <1>0, <3>2, <4>2, <5>1, PutKept
      <4> QED  BY <3>3, <4>1, <4>2 DEF ShellFills
    <3>4. CASE ShellRm(i)
      <4>1. files' \subseteq files
        BY <3>4 DEF ShellRm
      <4> QED  BY <1>0, <3>2, <4>1, FewerKept
    <3> QED  BY <1>8, <3>1, <3>3, <3>4 DEF ShellStep
  <2> QED  BY <1>0, <2>1, <2>3, FaultsGrow, ArchivesStay
<1> QED  BY <1>1, <1>2, <1>3, <1>4, <1>5, <1>6, <1>7, <1>8 DEF Next, ShellStep

(* Outside a rotation there are at most max_log_files archives, one for     *)
(* each fault, and one for each shell that outlived its process; rotations  *)
(* cut short by the end of the process add up no further.                   *)
THEOREM ArchivesAreBounded == Spec => []ArchivesBounded
<1>1. ArchiveInv => ArchivesBounded
  <2> SUFFICES ASSUME ArchiveInv, pc \in AfterCleanup
               PROVE  Kept <= MaxLogFiles + faults + Cardinality(Outlived)
    BY DEF ArchivesBounded, AfterCleanup, Kept
  <2>1. Cardinality(Tarring) \in Nat /\ Cardinality(Outlived) \in Nat /\ Kept \in Nat
    <3>1. Tarring \in SUBSET Lives /\ Outlived \in SUBSET Lives
      BY DEF Tarring, Outlived
    <3> QED  BY <3>1, LifeSets, KeptTyped DEF ArchiveInv
  <2>2. Kept + Cardinality(Tarring) - Cardinality(Outlived) <= MaxLogFiles + faults
    BY DEF ArchiveInv, Balance
  <2>3. MaxLogFiles \in Nat /\ faults \in Nat
    BY HeldTyped, LogNumbers DEF ArchiveInv
  <2> QED  BY <2>1, <2>2, <2>3
<1> QED  BY <1>1, InitArchives, NextArchives, PTL DEF Spec
-----------------------------------------------------------------------------
(***************************************************************************)
(* The order of the archives.  While the clock runs forward a later name   *)
(* goes with a later or equal mtime, so sorting by mtime finds the archives *)
(* of the earliest rotations; only a shell that outlived its process writes *)
(* an archive after the rotations that followed its own.                    *)
(***************************************************************************)
Late(f) == \E i \in Outlived : shell[i].name = f.name

InThePast ==
  /\ target <= now
  /\ \A f \in Archives : f.name <= now /\ f.mtime <= now
  /\ \A i \in Lives : shell[i].name <= now
TargetIsNewest ==
  pc \in {"compress", "wait"} =>
    (\A f \in Archives : f.name <= target) /\ (\A i \in Lives : shell[i].name <= target)
InOrder == \A f, g \in Archives : f.name < g.name => f.mtime <= g.mtime \/ Late(f)

Ordered == InThePast /\ TargetIsNewest /\ InOrder
OrderInv == ArchiveInv /\ (setbacks = 0 => Ordered)

LEMMA ArchiveTyped ==
  ASSUME TypeOK, NEW f \in Archives
  PROVE  f \in files /\ f.zip /\ f.name \in Int /\ f.mtime \in Int
<1>1. f \in files /\ f.zip /\ f \in FileType
  BY DEF Archives, TypeOK
<1> QED  BY <1>1, LogNumbers DEF FileType

LEMMA ShellNamed ==
  ASSUME TypeOK, NEW i \in Lives PROVE shell[i].name \in Nat
<1>1. shell[i] \in ShellType
  BY DEF TypeOK
<1> QED  BY <1>1, LogNumbers DEF ShellType

(* A step that adds no archive and leaves the clock forward. *)
LEMMA OrderStays ==
  ASSUME TypeOK, TypeOK', Ordered, Archives' \subseteq Archives, now <= now',
         target' = target \/ target' = now,
         pc' \in {"compress", "wait"} =>
           target' = now \/ (pc \in {"compress", "wait"} /\ target' = target),
         \A i \in Lives : shell'[i].name \in {shell[i].name, 0, target},
         \A i \in Outlived : i \in Outlived' /\ shell'[i] = shell[i]
  PROVE  Ordered'
<1>1. now \in Nat /\ now' \in Nat /\ target \in Nat
  BY LogNumbers DEF TypeOK
<1>2. \A f \in Archives' : f \in Archives /\ f.name \in Int /\ f.mtime \in Int
  BY ArchiveTyped
<1>3. target' <= now'
  BY <1>1 DEF Ordered, InThePast
<1>4. \A f \in Archives' : f.name <= now' /\ f.mtime <= now'
  <2> TAKE f \in Archives'
  <2>1. f.name <= now /\ f.mtime <= now
    BY <1>2 DEF Ordered, InThePast
  <2> QED  BY <1>1, <1>2, <2>1
<1>5. ASSUME NEW i \in Lives PROVE shell'[i].name <= now /\ shell'[i].name \in Nat
  <2>1. shell[i].name <= now /\ shell[i].name \in Nat /\ target <= now
    BY ShellNamed DEF Ordered, InThePast
  <2>2. shell'[i].name \in {shell[i].name, 0, target}
    OBVIOUS
  <2> QED  BY <1>1, <2>1, <2>2
<1>6. \A i \in Lives : shell'[i].name <= now'
  BY <1>1, <1>5
<1>7. TargetIsNewest'
  <2>1. CASE target' = now
    BY <1>2, <1>5, <2>1 DEF Ordered, InThePast, TargetIsNewest
  <2>2. CASE pc \in {"compress", "wait"} /\ target' = target
    <3>1. \A i \in Lives : shell'[i].name <= target
      <4> TAKE i \in Lives
      <4>1. shell[i].name <= target /\ shell[i].name \in Nat
        BY <2>2, ShellNamed DEF Ordered, TargetIsNewest
      <4>2. shell'[i].name \in {shell[i].name, 0, target}
        OBVIOUS
      <4> QED  BY <1>1, <4>1, <4>2
    <3> QED  BY <1>2, <2>2, <3>1 DEF Ordered, TargetIsNewest
  <2> QED  BY <2>1, <2>2 DEF TargetIsNewest
<1>8. InOrder'
  <2> SUFFICES ASSUME NEW f \in Archives', NEW g \in Archives', f.name < g.name
               PROVE  f.mtime <= g.mtime \/ Late(f)'
    BY DEF InOrder
  <2>1. f.mtime <= g.mtime \/ Late(f)
    BY <1>2 DEF Ordered, InOrder
  <2> QED  BY <2>1 DEF Late
<1> QED  BY <1>3, <1>4, <1>6, <1>7, <1>8 DEF Ordered, InThePast

(* The archive of the process' own shell is the newest one; any other shell *)
(* outlived its process.                                                    *)
LEMMA OrderAdded ==
  ASSUME TypeOK, TypeOK', Ordered, NEW i \in Lives, ShellStep(i),
         NEW lines, Put(File(shell[i].name, TRUE, lines, now))
  PROVE  Ordered'
<1> DEFINE n == shell[i].name
           new == File(n, TRUE, lines, now)
<1>0. /\ UNCHANGED <<pc, target, now, restarts>> /\ i <= restarts
      /\ shell[i].step # "none" /\ shell'[i].step # "none" /\ shell'[i].name = n
      /\ \A j \in Lives \ {i} : shell'[j] = shell[j]
  <2>1. ShellKeeps => now' = now
    BY DEF ShellKeeps
  <2> QED  BY <2>1, ShellMoves DEF ShellKeeps
<1>1. now \in Nat /\ target \in Nat /\ n \in Nat /\ i \in Nat /\ restarts \in Nat
  BY LogNumbers, ShellNamed DEF TypeOK
<1>2. new.name = n /\ new.mtime = now
  BY DEF File
<1>3. \A f \in Archives' : f = new \/ f \in Archives
  BY DEF Put, Archives
<1>4. \A f \in Archives : f.name \in Int /\ f.mtime \in Int
                          /\ f.name <= now /\ f.mtime <= now
  BY ArchiveTyped DEF Ordered, InThePast
<1>5. target <= now /\ n <= now
  BY DEF Ordered, InThePast
<1>6. /\ \A j \in Lives : shell'[j].name = shell[j].name
      /\ Outlived' = Outlived
  <2>1. \A j \in Lives : shell'[j].name = shell[j].name
    BY <1>0
  <2>2. \A j \in Lives : shell'[j].step # "none" <=> shell[j].step # "none"
    BY <1>0
  <2> QED  BY <1>0, <2>1, <2>2 DEF Outlived
<1>7. \A f : Late(f)' <=> Late(f)
  BY <1>6 DEF Late, Outlived
<1> HIDE DEF new
<1>8. \A f \in Archives' : f.name <= now' /\ f.mtime <= now'
  BY <1>0, <1>1, <1>2, <1>3, <1>4, <1>5
<1>9. InThePast'
  BY <1>0, <1>5, <1>6, <1>8 DEF Ordered, InThePast
<1>10. TargetIsNewest'
  <2> SUFFICES ASSUME pc \in {"compress", "wait"}
               PROVE  /\ \A f \in Archives' : f.name <= target
                      /\ \A j \in Lives : shell[j].name <= target
    BY <1>0, <1>6 DEF TargetIsNewest
  <2>1. (\A f \in Archives : f.name <= target) /\ \A j \in Lives : shell[j].name <= target
    BY DEF Ordered, TargetIsNewest
  <2>2. n <= target
    BY <2>1
  <2>3. \A f \in Archives' : f.name <= target
    BY <1>2, <1>3, <2>1, <2>2
  <2> QED  BY <2>1, <2>3
<1>11. ASSUME NEW f \in Archives', NEW g \in Archives', f.name < g.name
       PROVE  f.mtime <= g.mtime \/ Late(f)
  <2>1. CASE g = new
    <3>1. f \in Archives
      BY <1>1, <1>2, <1>3, <1>11, <2>1
    <3> QED  BY <1>1, <1>2, <1>4, <2>1, <3>1
  <2>2. CASE g \in Archives /\ f \in Archives
    BY <1>11, <2>2 DEF Ordered, InOrder
  <2>3. CASE g \in Archives /\ f = new
    <3>1. CASE i = restarts
      <4>1. pc = "wait" /\ n = target
        BY <1>0, <3>1 DEF TypeOK, OwnShell
      <4>2. g.name <= target /\ g.name \in Int
        BY <1>4, <2>3, <4>1 DEF Ordered, TargetIsNewest
      <4> QED  BY <1>1, <1>2, <1>11, <2>3, <4>1, <4>2
    <3>2. CASE i # restarts
      <4>1. i < restarts
        BY <1>0, <1>1, <3>2
      <4> QED  BY <1>0, <1>2, <2>3, <4>1 DEF Late, Outlived
    <3> QED  BY <3>1, <3>2
  <2> QED  BY <1>3, <2>1, <2>2, <2>3
<1>12. InOrder'
  BY <1>7, <1>11 DEF InOrder
<1> QED  BY <1>9, <1>10, <1>12 DEF Ordered

LEMMA NextOrder == OrderInv /\ [Next]_vars => OrderInv'
<1> SUFFICES ASSUME OrderInv, [Next]_vars PROVE OrderInv'
  OBVIOUS
<1>0. /\ ArchiveInv /\ ArchiveInv' /\ TypeOK /\ TypeOK'
      /\ shell \in [Lives -> ShellType] /\ restarts \in Lives /\ restarts \in Nat
  BY NextArchives, LogNumbers DEF OrderInv, ArchiveInv, TypeInv, TypeOK, Lives
<1> SUFFICES ASSUME setbacks' = 0 PROVE Ordered'
  BY <1>0 DEF OrderInv
<1>n. now \in Int /\ now' \in Int /\ now <= now
  BY <1>0, LogNumbers DEF TypeOK
<1>1. setbacks = 0 /\ ~StepBack
  <2>1. setbacks \in Nat
    BY <1>0, LogNumbers DEF TypeOK
  <2>2. ~StepBack
    BY <2>1 DEF StepBack
  <2>3. (\E i \in Lives : ShellStep(i)) => setbacks' = setbacks
    BY <1>0, ShellMoves DEF ShellKeeps
  <2> QED  BY <2>2, <2>3
           DEF Next, Start, Log, Rename, Compress, Wait, Cleanup, Reopen, Write, Tick,
               Crash, vars, bounds, ShellStep
<1>2. Ordered
  BY <1>1 DEF OrderInv
<1>3. ASSUME UNCHANGED <<shell, restarts>>
      PROVE  /\ \A i \in Lives : shell'[i].name \in {shell[i].name, 0, target}
             /\ \A i \in Outlived : i \in Outlived' /\ shell'[i] = shell[i]
  BY <1>3 DEF Outlived
<1>4. CASE Start \/ Log \/ Cleanup \/ Reopen \/ Write
  <2>1. UNCHANGED <<target, now, shell, restarts>>
    BY <1>4 DEF Start, Log, Cleanup, Reopen, Write, commands
  <2>2. pc' \notin {"compress", "wait"}
    BY <1>4, <1>0 DEF Start, Log, Cleanup, Reopen, Write, TypeOK
  <2>3. files' \subseteq files
    BY <1>4 DEF Start, Log, Cleanup, Reopen, Write, disk
  <2>4. Archives' \subseteq Archives
    BY <2>3 DEF Archives
  <2> QED  BY <1>0, <1>2, <1>3, <1>n, <2>1, <2>2, <2>4, OrderStays
<1>5. CASE Rename
  <2>1. target' = now /\ now' = now /\ UNCHANGED <<shell, restarts>>
    BY <1>5 DEF Rename
  <2>2. Archives' \subseteq Archives
    <3>1. CASE Put(File(now, FALSE, current, now))
      <4>1. File(now, FALSE, current, now).zip = FALSE
        BY DEF File
      <4>2. \A f \in files' : f \in files \/ f = File(now, FALSE, current, now)
        BY <3>1 DEF Put
      <4> QED  BY <4>1, <4>2 DEF Archives
    <3>2. CASE UNCHANGED disk
      BY <3>2 DEF disk, Archives
    <3> QED  BY <1>5, <3>1, <3>2 DEF Rename
  <2> QED  BY <1>0, <1>2, <1>3, <1>n, <2>1, <2>2, OrderStays
<1>6. ASSUME \A j \in Lives \ {restarts} : shell'[j] = shell[j],
             shell'[restarts].name \in {shell[restarts].name, 0, target},
             restarts' \in {restarts, restarts + 1}, UNCHANGED <<files, target, now>>,
             pc' \in {"compress", "wait"} => pc \in {"compress", "wait"}
      PROVE  Ordered'
  <2>1. \A i \in Lives : shell'[i].name \in {shell[i].name, 0, target}
    BY <1>6
  <2>2. \A i \in Outlived : i \in Outlived' /\ shell'[i] = shell[i]
    <3>1. \A i \in Lives : i < restarts => i # restarts /\ i < restarts + 1
      <4>1. Lives \subseteq Nat
        BY LogNumbers
      <4> QED  BY <1>0, <4>1
    <3> QED  BY <1>6, <3>1 DEF Outlived
  <2> QED  BY <1>0, <1>2, <1>n, <1>6, <2>1, <2>2, OrderStays DEF Archives
<1>7. CASE Compress
  <2> DEFINE new == [NoShell EXCEPT !.name = target, !.step = "tar"]
  <2>1. new.name = target
    BY DEF NoShell
  <2>2. shell'[restarts].name \in {shell[restarts].name, target}
        /\ \A j \in Lives \ {restarts} : shell'[j] = shell[j]
    BY <1>0, <1>7, <2>1 DEF Compress
  <2>3. UNCHANGED <<files, target, now, restarts>> /\ pc = "compress"
    BY <1>7 DEF Compress, disk
  <2> QED  BY <1>6, <2>2, <2>3
<1>8. CASE Wait \/ Crash
  <2>1. shell'[restarts].name \in {shell[restarts].name, 0}
        /\ \A j \in Lives \ {restarts} : shell'[j] = shell[j]
    BY <1>0, <1>8 DEF Wait, Crash, NoShell
  <2>2. UNCHANGED <<files, target, now>> /\ restarts' \in {restarts, restarts + 1}
        /\ pc' \notin {"compress", "wait"}
    BY <1>8 DEF Wait, Crash, disk, bounds
  <2> QED  BY <1>6, <2>1, <2>2
<1>9. CASE Tick \/ UNCHANGED vars
  <2>1. UNCHANGED <<files, target, pc, shell, restarts>> /\ now <= now'
    BY <1>9, <1>n DEF Tick, disk, commands, vars, bounds
  <2> QED  BY <1>0, <1>2, <1>3, <2>1, OrderStays DEF Archives
<1>10. ASSUME NEW i \in Lives, ShellStep(i) PROVE Ordered'
  <2>1. CASE \E lines : Put(File(shell[i].name, TRUE, lines, now))
    BY <1>0, <1>2, <1>10, <2>1, OrderAdded
  <2>2. CASE files' \subseteq files
    <3>1. /\ UNCHANGED <<pc, target, now, restarts>>
          /\ shell'[i].step # "none" /\ shell'[i].name = shell[i].name
          /\ \A j \in Lives \ {i} : shell'[j] = shell[j]
      <4>1. ShellKeeps => now' = now
        BY DEF ShellKeeps
      <4> QED  BY <1>0, <1>10, <4>1, ShellMoves DEF ShellKeeps
    <3>2. Archives' \subseteq Archives
      BY <2>2 DEF Archives
    <3>3. InOrder'
      <4>1. \A f : Late(f) => Late(f)'
        BY <3>1 DEF Late, Outlived
      <4> QED  BY <1>2, <3>2, <4>1 DEF Ordered, InOrder
    <3>4. \A j \in Lives : shell'[j].name = shell[j].name
      BY <3>1
    <3>5. InThePast' /\ TargetIsNewest'
      BY <1>2, <3>1, <3>2, <3>4 DEF Ordered, InThePast, TargetIsNewest
    <3> QED  BY <3>3, <3>5 DEF Ordered
  <2> QED  BY <1>0, <1>10, <2>1, <2>2, ShellFiles
<1> QED  BY <1>1, <1>4, <1>5, <1>7, <1>8, <1>9, <1>10 DEF Next, ShellStep

(* What a clean-up deletes is in the surplus, and max_log_files archives   *)
(* outside it are of no smaller mtime.                                     *)
LEMMA OldestGo ==
  ASSUME OrderInv, Next, pc = "cleanup", pc' # pc, setbacks = 0,
         NEW f \in Archives \ Archives'
  PROVE  Cardinality({g \in Archives \ {f} :
                        \/ f.name < g.name \/ f.mtime = g.mtime
                        \/ \E i \in Outlived : shell[i].name = g.name})
           >= MaxLogFiles
<1> DEFINE Later == {g \in Archives \ {f} :
                       \/ f.name < g.name \/ f.mtime = g.mtime
                       \/ \E i \in Outlived : shell[i].name = g.name}
<1>0. TypeOK /\ Ordered /\ IsFiniteSet(files) /\ MaxLogFiles \in Nat
  BY LogNumbers DEF OrderInv, ArchiveInv, TypeInv
<1>1. IsFiniteSet(Archives) /\ Kept \in Nat
  BY <1>0, KeptTyped
<1>2. Cleanup
  <2>1. UNCHANGED files => Archives' = Archives
    BY DEF Archives
  <2>2. files' # files
    BY <2>1
  <2>3. (\E i \in Lives : ShellStep(i)) => pc' = pc
    BY <1>0, ShellMoves DEF ShellKeeps
  <2> QED  BY <2>2, <2>3
           DEF Next, Start, Log, Rename, Compress, Wait, Reopen, Write, Tick, StepBack,
               Crash, disk, ShellStep
<1>3. PICK surplus \in SUBSET Archives :
        /\ Cardinality(surplus) = IF Excess > 0 THEN Excess ELSE 0
        /\ \A h \in surplus, g \in Archives \ surplus : OldestFirst(h, g)
        /\ \E gone \in SUBSET surplus : files' = files \ gone
  BY <1>2 DEF Cleanup
<1>4. f \in surplus
  BY <1>3 DEF Archives
<1>5. IsFiniteSet(surplus)
  BY <1>1, <1>3, FS_Subset
<1>6. Cardinality(surplus) # 0
  BY <1>4, <1>5, FS_EmptySet
<1>7. Cardinality(surplus) = Kept - MaxLogFiles
  BY <1>3, <1>6 DEF Excess, Kept
<1>8. Cardinality(Archives \ surplus) = MaxLogFiles
  <2>1. Cardinality(Archives \ surplus) = Kept - Cardinality(Archives \cap surplus)
    BY <1>1, FS_Difference DEF Kept
  <2>2. Cardinality(Archives \cap surplus) = Kept - MaxLogFiles
    <3>1. Archives \cap surplus = surplus
      BY <1>3
    <3> QED  BY <1>7, <3>1
  <2>3. Kept - (Kept - MaxLogFiles) = MaxLogFiles
    BY <1>0, <1>1
  <2> QED  BY <2>1, <2>2, <2>3
<1>9. ASSUME NEW g \in Archives \ surplus PROVE g \in Later
  <2>1. f.mtime <= g.mtime
    BY <1>3, <1>4, <1>9 DEF OldestFirst
  <2>2. /\ f \in files /\ f.zip /\ f.name \in Int /\ f.mtime \in Int
        /\ g \in files /\ g.zip /\ g.name \in Int /\ g.mtime \in Int
    BY <1>0, <1>9, ArchiveTyped
  <2>3. g # f
    BY <1>4, <1>9
  <2>4. f.name # g.name
    BY <1>0, <2>2, <2>3, Zenon DEF TypeOK
  <2>5. g.name < f.name => g.mtime <= f.mtime \/ \E i \in Outlived : shell[i].name = g.name
    BY <1>0, <1>9 DEF Ordered, InOrder, Late
  <2>6. f.name < g.name \/ f.mtime = g.mtime \/ \E i \in Outlived : shell[i].name = g.name
    <3>1. f.name < g.name \/ g.name < f.name
      BY <2>2, <2>4
    <3>2. g.mtime <= f.mtime => f.mtime = g.mtime
      BY <2>1, <2>2
    <3> QED  BY <2>5, <3>1, <3>2
  <2> QED  BY <1>9, <2>3, <2>6
<1>10. Archives \ surplus \in SUBSET Later /\ Later \in SUBSET Archives
  BY <1>9
<1> HIDE DEF Later
<1>11. IsFiniteSet(Later) /\ Cardinality(Later) \in Nat
  BY <1>1, <1>10, FS_Subset, FS_CardinalityType
<1>12. Cardinality(Archives \ surplus) <= Cardinality(Later)
  BY <1>10, <1>11, FS_Subset
<1>13. MaxLogFiles <= Cardinality(Later)
  BY <1>8, <1>12
<1> QED  BY <1>0, <1>11, <1>13 DEF Later

(* While the clock is not set back, the clean-up deletes only archives that *)
(* max_log_files others of later rotations (or of the same mtime, or of a   *)
(* shell that outlived its process) outlast, whatever fails and however     *)
(* often the process is killed.                                             *)
THEOREM OldestGoFirst == Spec => OldestDeleted
<1>1. Init => OrderInv
  <2> SUFFICES ASSUME Init PROVE OrderInv
    OBVIOUS
  <2>1. Archives = {} /\ target = 0 /\ now = 0 /\ pc = "down"
    BY DEF Init, Archives
  <2>2. \A i \in Lives : shell[i].name = 0
    BY DEF Init, NoShell
  <2> QED  BY <2>1, <2>2, InitArchives
           DEF OrderInv, Ordered, InThePast, TargetIsNewest, InOrder
<1>2. OrderInv /\ [Next]_vars =>
        [pc = "cleanup" /\ pc' # pc /\ setbacks = 0 =>
           \A f \in Archives \ Archives' :
              Cardinality({g \in Archives \ {f} :
                             \/ f.name < g.name \/ f.mtime = g.mtime
                             \/ \E i \in Outlived : shell[i].name = g.name})
                >= MaxLogFiles]_vars
  BY OldestGo
<1> QED  BY <1>1, <1>2, NextOrder, PTL DEF Spec, OldestDeleted
=============================================================================
