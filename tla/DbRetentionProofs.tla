------------------------- MODULE DbRetentionProofs -------------------------
(***************************************************************************)
(* What cleanOldTables() keeps and what a select finds: the limit on the   *)
(* tables of a database, that only tables with enough newer ones go, that  *)
(* a stored message stays until then, and that a search which overlaps     *)
(* writes, clean-ups and drops finds it, whole.                            *)
(***************************************************************************)
EXTENDS DbManagerProofs, FiniteSetTheorems

(* A finite set of numbers has a least one: of the sets of those up to d,   *)
(* one is minimal.                                                          *)
LEMMA LeastOf ==
  ASSUME NEW S \in SUBSET Nat, IsFiniteSet(S), S # {}
  PROVE  \E m \in S : \A e \in S : m <= e
<1> DEFINE UpTo(d) == {e \in S : e <= d}
           T == {UpTo(d) : d \in S}
           R == StrictSubsetOrdering(S)
<1>1. IsWellFoundedOn(R, SUBSET S)
  BY FS_StrictSubsetOrderingWellFounded, FS_FiniteSubsetsOfFinite
<1>2. T \subseteq SUBSET S /\ T # {}
  OBVIOUS
<1> HIDE DEF R
<1> HIDE DEF T
<1>3. \E x \in T : \A y \in T : ~ (<<y, x>> \in R)
  BY <1>1, <1>2, WFMin
<1> USE DEF T
<1>4. PICK m \in S : \A d \in S : ~ (<<UpTo(d), UpTo(m)>> \in R)
  BY <1>3
<1>5. ASSUME NEW e \in S, e < m PROVE FALSE
  <2>1. UpTo(e) \subseteq UpTo(m) /\ m \in UpTo(m) /\ m \notin UpTo(e)
    <3>1. \A x \in Nat : x <= e => x <= m
      BY <1>5
    <3>2. m <= m /\ ~ (m <= e)
      BY <1>5
    <3> QED  BY <3>1, <3>2
  <2>2. <<UpTo(e), UpTo(m)>> \in R
    BY <2>1 DEF R, StrictSubsetOrdering
  <2> QED  BY <1>4, <2>2
<1>6. \A e \in S : m <= e
  BY <1>5
<1> QED  BY <1>6

LEMMA SubsetSize ==
  ASSUME NEW S, IsFiniteSet(S), NEW T, T \subseteq S
  PROVE  /\ IsFiniteSet(T) /\ Cardinality(T) \in Nat /\ Cardinality(S) \in Nat
         /\ Cardinality(T) <= Cardinality(S)
  BY FS_Subset, FS_CardinalityType

(* One element more is at most one in size. *)
LEMMA OneMore ==
  ASSUME NEW S, IsFiniteSet(S), NEW e
  PROVE  /\ IsFiniteSet(S \cup {e}) /\ Cardinality(S \cup {e}) \in Nat
         /\ Cardinality(S \cup {e}) <= Cardinality(S) + 1
<1> DEFINE size == Cardinality(S)
<1>1. size \in Nat /\ size <= size + 1 /\ size + 1 \in Nat /\ size + 1 <= size + 1
  <2>1. size \in Nat
    BY FS_CardinalityType
  <2> HIDE DEF size
  <2> QED  BY <2>1
<1>2. IsFiniteSet(S \cup {e})
  BY FS_AddElement
<1>3. CASE e \in S
  <2>1. Cardinality(S \cup {e}) = size
    BY <1>3, FS_AddElement
  <2> QED  BY <1>1, <1>2, <2>1
<1>4. CASE e \notin S
  <2>1. Cardinality(S \cup {e}) = size + 1
    BY <1>4, FS_AddElement
  <2> QED  BY <1>1, <1>2, <2>1
<1> QED  BY <1>3, <1>4

(* What OldestBeyond(n, S) leaves of S is at most n dates. *)
LEMMA NewestFew ==
  ASSUME NEW S \in SUBSET Nat, IsFiniteSet(S), NEW n \in Nat \ {0}
  PROVE  Cardinality(S \ OldestBeyond(n, S)) <= n
<1> DEFINE K == S \ OldestBeyond(n, S)
<1>1. IsFiniteSet(K) /\ K \in SUBSET Nat
  BY SubsetSize
<1>2. CASE K = {}
  BY <1>2, FS_EmptySet
<1>3. CASE K # {}
  <2>1. PICK m \in K : \A e \in K : m <= e
    <3> HIDE DEF K
    <3> QED  BY <1>1, <1>3, LeastOf
  <2> DEFINE above == {e \in S : e > m}
  <2>2. IsFiniteSet(above) /\ Cardinality(above) \in Nat
    BY SubsetSize
  <2>3. ~ (Cardinality(above) >= n)
    BY <2>1 DEF OldestBeyond
  <2>4. K \subseteq above \cup {m}
    <3> SUFFICES ASSUME NEW e \in K, e # m PROVE e \in above
      OBVIOUS
    <3>1. e \in S /\ e \in Nat /\ m \in Nat /\ m <= e
      BY <1>1, <2>1
    <3> QED  BY <3>1
  <2>5. IsFiniteSet(above \cup {m}) /\ Cardinality(above \cup {m}) <= Cardinality(above) + 1
    <3> HIDE DEF above
    <3> QED  BY <2>2, OneMore
  <2>6. Cardinality(K) <= Cardinality(above \cup {m}) /\ Cardinality(K) \in Nat
         /\ Cardinality(above \cup {m}) \in Nat
    BY <2>4, <2>5, SubsetSize
  <2> QED  BY <2>2, <2>3, <2>5, <2>6
<1> QED  BY <1>2, <1>3

LEMMA ListedTyped ==
  ASSUME TypeInv, NEW c \in Channel
  PROVE  /\ IsFiniteSet(Listed(c)) /\ Cardinality(Listed(c)) \in Nat
         /\ Listed(c) \in SUBSET Nat /\ Listed(c) \subseteq ListedDates
         /\ faults \in Nat /\ MaxTables \in Nat
<1>1. dates[c] \subseteq Dates /\ faults \in 0 .. MaxFaults
  BY DEF TypeInv, TypeOK
<1>2. IsFiniteSet(Dates) /\ Dates \subseteq Nat
  BY DbAssumption
<1>3. Listed(c) \subseteq Dates /\ Listed(c) \subseteq ListedDates
  BY <1>1 DEF Listed
<1>4. faults \in Nat /\ MaxTables \in Nat
  BY <1>1, DbNumbers
<1>5. Listed(c) \in SUBSET Nat
  BY <1>2, <1>3
<1> QED  BY <1>2, <1>3, <1>4, <1>5, SubsetSize
-----------------------------------------------------------------------------
(***************************************************************************)
(* The limit.  While a table is being added there may be one more, and the *)
(* tables that are not to be dropped any more are within the limit.        *)
(***************************************************************************)
Held(c) == Cardinality(Listed(c))
Room == MaxTables + faults
Adding(c) == writer \in {"list", "drop"} /\ msg.channel = c
Within(c) ==
  /\ Held(c) <= Room + 1
  /\ ~Adding(c) => Held(c) <= Room
  /\ Adding(c) /\ writer = "drop" => Cardinality(Listed(c) \ doomed) <= Room

LimitInv == TypeInv /\ \A c \in Channel : Within(c)

(* The numbers that Within is about. *)
LEMMA WithinTyped ==
  ASSUME TypeInv, NEW c \in Channel
  PROVE  /\ Held(c) \in Nat /\ Room \in Nat
         /\ Cardinality(Listed(c) \ doomed) \in Nat
         /\ Cardinality(Listed(c) \ doomed) <= Held(c)
<1>1. /\ IsFiniteSet(Listed(c)) /\ faults \in Nat /\ MaxTables \in Nat
  BY ListedTyped
<1>2. Listed(c) \ doomed \subseteq Listed(c)
  OBVIOUS
<1> QED  BY <1>1, <1>2, SubsetSize DEF Held, Room

LEMMA RoomGrows ==
  ASSUME TypeInv, Works \/ Fails
  PROVE  /\ Room' \in Nat /\ Room <= Room'
         /\ Fails => Room' = Room + 1
<1>1. faults \in Nat /\ MaxTables \in Nat
  BY DbNumbers DEF TypeInv, TypeOK
<1>2. faults' = faults \/ faults' = faults + 1
  BY DEF Works, Fails
<1>3. Fails => faults' = faults + 1
  BY DEF Fails
<1> QED  BY <1>1, <1>2, <1>3 DEF Room

(* Fewer tables, or the same; the writer where it was or elsewhere. *)
LEMMA WithinShrinks ==
  ASSUME TypeInv, TypeInv', NEW c \in Channel, Within(c), Works \/ Fails,
         Listed(c)' \subseteq Listed(c),
         \/ ~Adding(c) /\ ~Adding(c)'
         \/ Fails /\ ~Adding(c)'
         \/ Adding(c)' = Adding(c) /\ UNCHANGED <<writer, doomed>>
  PROVE  Within(c)'
<1>1. /\ Held(c) \in Nat /\ Room \in Nat /\ Room' \in Nat
      /\ Room <= Room' /\ (Fails => Room' = Room + 1)
  BY WithinTyped, RoomGrows
<1>2. Held(c)' \in Nat /\ Held(c)' <= Held(c)
  BY ListedTyped, SubsetSize DEF Held
<1>3. CASE ~Adding(c) /\ ~Adding(c)'
  BY <1>1, <1>2, <1>3 DEF Within
<1>4. CASE Fails /\ ~Adding(c)'
  BY <1>1, <1>2, <1>4 DEF Within
<1>5. CASE Adding(c)' = Adding(c) /\ UNCHANGED <<writer, doomed>>
  <2>1. /\ Cardinality(Listed(c)' \ doomed) <= Cardinality(Listed(c) \ doomed)
        /\ Cardinality(Listed(c)' \ doomed) \in Nat /\ Cardinality(Listed(c) \ doomed) \in Nat
    <3>1. Listed(c)' \ doomed \subseteq Listed(c) \ doomed
      OBVIOUS
    <3>2. IsFiniteSet(Listed(c) \ doomed)
      BY ListedTyped, SubsetSize
    <3> QED  BY <3>1, <3>2, SubsetSize
  <2> QED  BY <1>1, <1>2, <1>5, <2>1 DEF Within
<1> QED  BY <1>3, <1>4, <1>5

LEMMA ListedSame == ASSUME NEW c, dates'[c] = dates[c] PROVE Listed(c)' = Listed(c)
  BY DEF Listed

LEMMA ListedRemoved ==
  ASSUME TypeInv, NEW c \in Channel, NEW d \in Dates, RemoveTable(c, d)
  PROVE  \A e \in Channel : Listed(e)' = IF e = c THEN Listed(c) \ {d} ELSE Listed(e)
  BY DEF TypeInv, TypeOK, RemoveTable, Listed

LEMMA CreateWithin ==
  ASSUME TypeInv, TypeInv', NEW c \in Channel, Within(c), CreateTable
  PROVE  Within(c)'
<1>1. writer = "create" /\ msg' = msg /\ ~Adding(c) /\ (Works \/ Fails)
      /\ dates \in [Channel -> SUBSET Dates]
  BY DEF CreateTable, TypeInv, TypeOK, msg, Adding
<1>2. CASE dates' = dates /\ Return(FALSE)
  BY <1>1, <1>2, ListedSame, WithinShrinks DEF Return, Adding
<1>3. CASE dates' = [dates EXCEPT ![msg.channel] = @ \cup {msg.date}] /\ writer' = "list"
  <2>1. CASE c # msg.channel
    <3>1. dates'[c] = dates[c] /\ ~Adding(c)'
      BY <1>1, <1>3, <2>1 DEF Adding
    <3> QED  BY <1>1, <3>1, ListedSame, WithinShrinks
  <2>2. CASE c = msg.channel
    <3>1. Listed(c)' \subseteq Listed(c) \cup {msg.date}
      BY <1>1, <1>3, <2>2 DEF Listed
    <3>2. IsFiniteSet(Listed(c)) /\ Cardinality(Listed(c)) \in Nat
      BY ListedTyped
    <3>3. /\ IsFiniteSet(Listed(c) \cup {msg.date})
          /\ Cardinality(Listed(c) \cup {msg.date}) <= Cardinality(Listed(c)) + 1
      BY <3>2, OneMore
    <3>4. Held(c)' \in Nat /\ Held(c)' <= Held(c) + 1
      BY <3>1, <3>2, <3>3, SubsetSize DEF Held
    <3>5. /\ Held(c) \in Nat /\ Room \in Nat /\ Room' \in Nat
          /\ Room <= Room'
      BY <1>1, WithinTyped, RoomGrows
    <3>6. Adding(c)' /\ writer' # "drop"
      BY <1>1, <1>3, <2>2 DEF Adding
    <3> QED  BY <1>1, <3>4, <3>5, <3>6 DEF Within
  <2> QED  BY <2>1, <2>2
<1> QED  BY <1>2, <1>3 DEF CreateTable

(* A list that is whole leaves MaxTables tables; a shorter one is a fault. *)
LEMMA ListWithin ==
  ASSUME TypeInv, TypeInv', NEW c \in Channel, Within(c), ListTables
  PROVE  Within(c)'
<1>1. /\ writer = "list" /\ writer' = IF doomed' = {} THEN "insert" ELSE "drop"
      /\ msg' = msg /\ dates' = dates
  BY DEF ListTables, database, msg
<1>2. PICK names \in SUBSET Listed(msg.channel) :
        TableNames(msg.channel, names) /\ doomed' = OldestBeyond(MaxTables, names)
  BY DEF ListTables
<1>3. (Works \/ Fails) /\ Listed(c)' = Listed(c)
  BY <1>1, <1>2, ListedSame DEF TableNames
<1>4. CASE c # msg.channel
  <2>1. ~Adding(c) /\ ~Adding(c)'
    BY <1>1, <1>4 DEF Adding
  <2> QED  BY <1>3, <2>1, WithinShrinks
<1>5. CASE c = msg.channel
  <2>1. /\ Held(c) \in Nat /\ Room \in Nat /\ Room' \in Nat /\ Room <= Room'
        /\ (Fails => Room' = Room + 1) /\ Held(c)' = Held(c) /\ Held(c) <= Room + 1
    BY <1>3, WithinTyped, RoomGrows DEF Held, Within
  <2>2. /\ Cardinality(Listed(c) \ doomed') \in Nat
        /\ Cardinality(Listed(c) \ doomed') <= Held(c)
    <3>1. Listed(c) \ doomed' \subseteq Listed(c)
      OBVIOUS
    <3> QED  BY <3>1, ListedTyped, SubsetSize DEF Held
  <2>3. Cardinality(Listed(c) \ doomed') <= Room'
    <3>1. CASE Fails
      BY <2>1, <2>2, <3>1
    <3>2. CASE Works /\ names = Listed(c)
      <4>1. Cardinality(Listed(c) \ OldestBeyond(MaxTables, Listed(c))) <= MaxTables
        BY ListedTyped, NewestFew, DbNumbers
      <4>2. MaxTables \in Nat /\ faults \in Nat
        BY ListedTyped
      <4> QED  BY <1>2, <2>1, <2>2, <3>2, <4>1, <4>2 DEF Room
    <3> QED  BY <1>2, <1>5, <3>1, <3>2 DEF TableNames
  <2>4. doomed' = {} => Listed(c) \ doomed' = Listed(c)
    OBVIOUS
  <2>5. doomed' = {} => Held(c) <= Room'
    BY <2>3, <2>4 DEF Held
  <2> QED  BY <1>1, <1>3, <2>1, <2>3, <2>5 DEF Within, Adding
<1> QED  BY <1>4, <1>5

(* A drop takes a doomed table off both counts; one that fails is a fault.  *)
LEMMA DropWithin ==
  ASSUME TypeInv, TypeInv', NEW c \in Channel, Within(c), DropOldest
  PROVE  Within(c)'
<1>1. /\ writer = "drop" /\ writer' = IF doomed' = {} THEN "insert" ELSE "drop"
      /\ msg' = msg /\ msg.channel \in Channel
  BY DEF DropOldest, msg, TypeInv, TypeOK
<1>2. PICK d \in doomed :
        /\ \/ RemoveTable(msg.channel, d) /\ Works
           \/ Fails /\ UNCHANGED <<database, owed>>
        /\ doomed' = doomed \ {d}
  BY DEF DropOldest
<1>3. d \in Dates
  BY DbNumbers DEF TypeInv, TypeOK
<1>4. \/ Works /\ Listed(c)' = IF c = msg.channel THEN Listed(c) \ {d} ELSE Listed(c)
      \/ Fails /\ Listed(c)' = Listed(c)
  BY <1>1, <1>2, <1>3, ListedRemoved DEF database, Listed
<1>5. CASE c # msg.channel
  <2>1. ~Adding(c) /\ ~Adding(c)'
    BY <1>1, <1>5 DEF Adding
  <2> QED  BY <1>4, <1>5, <2>1, WithinShrinks
<1>6. CASE c = msg.channel
  <2> DEFINE kept == Listed(c) \ doomed
  <2>1. /\ Held(c) \in Nat /\ Room \in Nat /\ Room' \in Nat /\ Room <= Room'
        /\ (Fails => Room' = Room + 1) /\ Held(c) <= Room + 1
        /\ Cardinality(kept) <= Room
    BY <1>1, <1>4, <1>6, WithinTyped, RoomGrows DEF Within, Adding
  <2>2. IsFiniteSet(Listed(c)) /\ IsFiniteSet(kept) /\ Cardinality(kept) \in Nat
    BY ListedTyped, SubsetSize
  <2>3. Held(c)' \in Nat /\ Held(c)' <= Held(c)
    BY <1>4, <2>2, SubsetSize DEF Held
  <2>4. /\ Cardinality(Listed(c)' \ doomed') \in Nat
        /\ Cardinality(Listed(c)' \ doomed') <= Room'
    <3>1. CASE Works /\ Listed(c)' = Listed(c) \ {d}
      <4>1. Listed(c)' \ doomed' = kept
        BY <1>2, <3>1
      <4>2. Cardinality(kept) \in Nat /\ Cardinality(kept) <= Room'
        BY <2>1, <2>2
      <4> HIDE DEF kept
      <4> QED  BY <4>1, <4>2
    <3>2. CASE Fails /\ Listed(c)' = Listed(c)
      <4>1. Listed(c)' \ doomed' \subseteq kept \cup {d}
        BY <1>2, <3>2
      <4>2. IsFiniteSet(kept \cup {d}) /\ Cardinality(kept \cup {d}) <= Cardinality(kept) + 1
        <5> HIDE DEF kept
        <5> QED  BY <2>2, OneMore
      <4>3. /\ Cardinality(kept \cup {d}) \in Nat
            /\ Cardinality(Listed(c)' \ doomed') \in Nat
            /\ Cardinality(Listed(c)' \ doomed') <= Cardinality(kept \cup {d})
        BY <4>1, <4>2, SubsetSize
      <4>4. /\ Cardinality(kept) \in Nat /\ Cardinality(kept) <= Room
            /\ Room \in Nat /\ Room' = Room + 1
        BY <2>1, <2>2, <3>2
      <4> DEFINE sizeAfter == Cardinality(Listed(c)' \ doomed')
                 sizeWith == Cardinality(kept \cup {d})
                 size == Cardinality(kept)
      <4>5. /\ sizeAfter \in Nat /\ sizeWith \in Nat /\ size \in Nat
            /\ sizeAfter <= sizeWith /\ sizeWith <= size + 1 /\ size <= Room
        BY <4>2, <4>3, <4>4
      <4> HIDE DEF sizeAfter, sizeWith, size
      <4>6. sizeAfter \in Nat /\ sizeAfter <= Room'
        BY <4>4, <4>5
      <4> QED  BY <4>6 DEF sizeAfter
    <3> QED  BY <1>4, <1>6, <3>1, <3>2
  <2>5. doomed' = {} => Held(c)' <= Room'
    <3>1. doomed' = {} => Listed(c)' \ doomed' = Listed(c)'
      OBVIOUS
    <3> QED  BY <2>4, <3>1 DEF Held
  <2> QED  BY <1>1, <2>1, <2>3, <2>4, <2>5 DEF Within, Adding
<1> QED  BY <1>5, <1>6

LEMMA NextWithin == LimitInv /\ [Next]_vars => LimitInv'
<1> SUFFICES ASSUME LimitInv, [Next]_vars PROVE LimitInv'
  OBVIOUS
<1>0. TypeInv /\ TypeInv'
  BY NextType DEF LimitInv
<1> SUFFICES ASSUME NEW c \in Channel PROVE Within(c)'
  BY <1>0 DEF LimitInv
<1>1. Within(c)
  BY DEF LimitInv
(* Everything but the clean-up: no table comes, and the writer stays or is  *)
(* outside of it.                                                           *)
<1>2. ASSUME Works \/ Fails, UNCHANGED <<dates, log>>,
             writer \notin {"list", "drop"}, writer' \notin {"list", "drop"}
      PROVE  Within(c)'
  <2>1. Listed(c)' = Listed(c) /\ ~Adding(c) /\ ~Adding(c)'
    BY <1>2 DEF Listed, Adding
  <2> QED  BY <1>0, <1>1, <1>2, <2>1, WithinShrinks
<1>3. ASSUME Works \/ Fails, UNCHANGED <<writer, log, doomed>>, Listed(c)' \subseteq Listed(c)
      PROVE  Within(c)'
  <2>1. Adding(c)' = Adding(c)
    BY <1>3 DEF Adding, msg
  <2> QED  BY <1>0, <1>1, <1>3, <2>1, WithinShrinks
<1>4. CASE \E m \in Messages : BeginWrite(m)
  <2>1. PICK m \in Messages : BeginWrite(m)
    BY <1>4
  <2>2. /\ writer = "idle" /\ writer' \in {"return", "check"} /\ dates' = dates
        /\ Works \/ Fails
    BY <2>1 DEF BeginWrite, NoHandle, GetHandle, Return, database
  <2>3. Listed(c)' = Listed(c) /\ ~Adding(c) /\ ~Adding(c)'
    BY <2>2 DEF Listed, Adding
  <2> QED  BY <1>0, <1>1, <2>2, <2>3, WithinShrinks
<1>5. CASE WriterStep
  <2>1. CASE CheckTable
    BY <1>2, <2>1 DEF CheckTable, Return, database
  <2>2. CASE CreateTable
    BY <1>0, <1>1, <2>2, CreateWithin
  <2>3. CASE ListTables
    BY <1>0, <1>1, <2>3, ListWithin
  <2>4. CASE DropOldest
    BY <1>0, <1>1, <2>4, DropWithin
  <2>5. CASE InsertRow
    BY <1>2, <2>5 DEF InsertRow
  <2>6. CASE InsertDone
    BY <1>2, <2>6 DEF InsertDone, Return, database, Works
  <2>7. CASE EndWrite
    BY <1>2, <2>7 DEF EndWrite, database, Works
  <2> QED  BY <1>5, <2>1, <2>2, <2>3, <2>4, <2>5, <2>6, <2>7 DEF WriterStep
<1>6. CASE ClientStep
  <2>1. CASE \E e \in 0 .. MaxChannels, d \in Dates : DropTable(e, d)
    <3>1. PICK e \in 0 .. MaxChannels, d \in Dates : DropTable(e, d)
      BY <2>1
    <3>2. /\ Works \/ Fails
          /\ UNCHANGED <<writer, log, doomed>>
          /\ (e \in Channel /\ RemoveTable(e, d)) \/ dates' = dates
      BY <3>1 DEF DropTable, GetHandle, NoHandle, writing, database
    <3>3. Listed(c)' \subseteq Listed(c)
      BY <1>0, <3>2, ListedRemoved, ListedSame
    <3> QED  BY <1>3, <3>2, <3>3
  <2>2. CASE \E e \in 0 .. MaxChannels, m \in Messages : BeginSelect(e, m.id)
    <3>1. PICK e \in 0 .. MaxChannels, m \in Messages : BeginSelect(e, m.id)
      BY <2>2
    <3>2. (Works \/ Fails) /\ UNCHANGED <<dates, writer, log, doomed>>
      BY <3>1 DEF BeginSelect, NoHandle, TableNames, writing, database
    <3> QED  BY <1>3, <3>2, ListedSame
  <2>3. CASE ScanTable
    BY <1>3, <2>3, ListedSame DEF ScanTable, writing, database
  <2>4. CASE EndSelect
    BY <1>3, <2>4, ListedSame DEF EndSelect, writing, database, Works
  <2> QED  BY <1>6, <2>1, <2>2, <2>3, <2>4 DEF ClientStep
<1>7. CASE Restart
  <2>1. Fails /\ writer' = "idle" /\ dates' = dates
    BY <1>7 DEF Restart, database
  <2>2. ~Adding(c)' /\ Listed(c)' = Listed(c)
    BY <2>1 DEF Adding, Listed
  <2> QED  BY <1>0, <1>1, <2>1, <2>2, WithinShrinks
<1>8. CASE UNCHANGED vars
  BY <1>3, <1>8, ListedSame DEF vars, writing, database, Works
<1> QED  BY <1>4, <1>5, <1>6, <1>7, <1>8 DEF Next

(* However many statements fail and however often the process dies, a       *)
(* database has at most one listed table over the limit for each of these,  *)
(* and the one being added: what a failed clean-up leaves is caught up on.  *)
THEOREM TablesAreLimited == Spec => []TableLimitUpToFaults
<1>1. Init => LimitInv
  <2> SUFFICES ASSUME Init, NEW c \in Channel PROVE Within(c)
    BY InitType DEF LimitInv
  <2>1. TypeInv /\ Listed(c) = Inherited /\ ~Adding(c) /\ faults = 0
    BY InitType, DbNumbers DEF Init, Listed, Adding
  <2>2. Held(c) \in Nat /\ Room \in Nat
    BY <2>1, WithinTyped
  <2>3. Held(c) <= Room
    BY <2>1, <2>2, DbAssumption DEF Held, Room
  <2> QED  BY <2>1, <2>2, <2>3 DEF Within
<1>2. LimitInv => TableLimitUpToFaults
  <2> SUFFICES ASSUME LimitInv, NEW c \in Channel
      PROVE  Cardinality(Listed(c)) <= MaxTables + faults
                + (IF writer \in {"list", "drop"} /\ msg.channel = c THEN 1 ELSE 0)
    BY DEF TableLimitUpToFaults
  <2>1. Held(c) \in Nat /\ Room \in Nat /\ Within(c)
    BY WithinTyped DEF LimitInv
  <2>2. Held(c) <= Room + (IF Adding(c) THEN 1 ELSE 0)
    BY <2>1 DEF Within
  <2> QED  BY <2>2 DEF Held, Room, Adding
<1> QED  BY <1>1, <1>2, NextWithin, PTL DEF Spec
-----------------------------------------------------------------------------
(***************************************************************************)
(* What is dropped.  A doomed table has MaxTables newer ones until its     *)
(* turn: the tables dropped before it are older, except for those that     *)
(* dropTable() takes, and these are remembered.                            *)
(***************************************************************************)
Above(d) == Newer(msg.channel, d) \cup {e \in taken \cap ListedDates : e > d}
Spare(d) == Cardinality(Above(d)) >= MaxTables
CleanupInv == TypeInv /\ (writer = "drop" => \A d \in doomed : Spare(d))

LEMMA ListedFinite ==
  ASSUME NEW S, S \subseteq ListedDates
  PROVE  IsFiniteSet(S) /\ Cardinality(S) \in Nat
  BY DbAssumption, SubsetSize

LEMMA AboveListed == \A d : Above(d) \subseteq ListedDates /\ Above(d)' \subseteq ListedDates
  BY DEF Above, Newer, Listed

LEMMA SpareKept ==
  ASSUME NEW d, Spare(d), Above(d) \subseteq Above(d)'
  PROVE  Spare(d)'
<1> DEFINE S == Above(d)
           T == Above(d)'
<1>1. IsFiniteSet(T) /\ S \subseteq T /\ Cardinality(S) >= MaxTables
  BY AboveListed, ListedFinite DEF Spare
<1> HIDE DEF S, T
<1>2. Cardinality(S) <= Cardinality(T) /\ Cardinality(S) \in Nat /\ Cardinality(T) \in Nat
  BY <1>1, SubsetSize
<1>3. Cardinality(T) >= MaxTables
  BY <1>1, <1>2, DbNumbers
<1> QED  BY <1>3 DEF Spare, T

LEMMA ListSpares ==
  ASSUME TypeInv, ListTables, NEW d \in doomed'
  PROVE  Spare(d)'
<1>1. PICK names \in SUBSET Listed(msg.channel) : doomed' = OldestBeyond(MaxTables, names)
  BY DEF ListTables
<1>2. Cardinality({e \in names : e > d}) >= MaxTables
  BY <1>1 DEF OldestBeyond
<1>3. {e \in names : e > d} \subseteq Above(d)
  BY DEF Above, Newer
<1>4. /\ Cardinality({e \in names : e > d}) \in Nat /\ Cardinality(Above(d)) \in Nat
      /\ Cardinality({e \in names : e > d}) <= Cardinality(Above(d))
  BY <1>3, AboveListed, ListedFinite, SubsetSize
<1>5. Spare(d)
  BY <1>2, <1>4, DbNumbers DEF Spare
<1>6. Above(d)' = Above(d)
  BY DEF ListTables, database, Above, Newer, Listed, msg
<1> QED  BY <1>5, <1>6, SpareKept

(* The oldest goes first: it is not among the newer ones of the others. *)
LEMMA DropSpares ==
  ASSUME CleanupInv, DropOldest, NEW d \in doomed'
  PROVE  Spare(d)'
<1>1. /\ TypeInv /\ writer = "drop" /\ msg.channel \in Channel /\ msg' = msg
      /\ taken' = taken
  BY DEF CleanupInv, DropOldest, TypeInv, TypeOK, msg
<1>2. PICK o \in doomed :
        /\ IsOldest(o, doomed) /\ doomed' = doomed \ {o}
        /\ RemoveTable(msg.channel, o) \/ dates' = dates
  BY DEF DropOldest, database
<1>3. d \in doomed /\ d # o /\ o <= d /\ o \in Nat /\ d \in Nat /\ o \in Dates
  BY <1>1, <1>2, DbNumbers DEF IsOldest, TypeInv, TypeOK
<1>4. ~ (o > d)
  BY <1>3
<1>5. dates[msg.channel] \ {o} \subseteq dates'[msg.channel]
  BY <1>1, <1>2 DEF RemoveTable, TypeInv, TypeOK
<1>6. Above(d) \subseteq Above(d)'
  BY <1>1, <1>4, <1>5 DEF Above, Newer, Listed
<1> QED  BY <1>1, <1>3, <1>6, SpareKept DEF CleanupInv

(* What dropTable() takes from the channel is remembered. *)
LEMMA DropTableSpares ==
  ASSUME CleanupInv, writer = "drop", NEW c \in 0 .. MaxChannels, NEW e \in Dates,
         DropTable(c, e), NEW d \in doomed
  PROVE  Spare(d)'
<1>1. TypeInv /\ msg.channel \in Channel /\ UNCHANGED <<writer, log, doomed>> /\ msg' = msg
  BY DEF CleanupInv, DropTable, writing, TypeInv, TypeOK, msg
<1>2. \/ /\ c \in Channel /\ RemoveTable(c, e)
         /\ taken' = IF msg.channel = c THEN taken \cup ({e} \cap dates[c]) ELSE taken
      \/ dates' = dates /\ taken' = taken
  BY DEF DropTable, GetHandle, database
<1>3. Spare(d)
  BY DEF CleanupInv
<1>4. dates[msg.channel] \cup taken \subseteq dates'[msg.channel] \cup taken'
  BY <1>1, <1>2 DEF RemoveTable, TypeInv, TypeOK
<1>5. taken \subseteq taken'
  BY <1>2
<1>6. Above(d) \subseteq Above(d)'
  BY <1>1, <1>4, <1>5 DEF Above, Newer, Listed
<1> QED  BY <1>3, <1>6, SpareKept

LEMMA NextCleanup == CleanupInv /\ [Next]_vars => CleanupInv'
<1> SUFFICES ASSUME CleanupInv, [Next]_vars PROVE CleanupInv'
  OBVIOUS
<1>0. TypeInv /\ TypeInv'
  BY NextType DEF CleanupInv
<1> SUFFICES ASSUME writer' = "drop", NEW d \in doomed' PROVE Spare(d)'
  BY <1>0 DEF CleanupInv
<1>1. ASSUME UNCHANGED <<writer, log, doomed, taken, dates>> PROVE Spare(d)'
  <2>1. Spare(d)
    BY <1>1 DEF CleanupInv
  <2>2. Above(d)' = Above(d)
    BY <1>1 DEF Above, Newer, Listed, msg
  <2> QED  BY <2>1, <2>2, SpareKept
<1>2. CASE \E m \in Messages : BeginWrite(m)
  BY <1>2 DEF BeginWrite, Return
<1>3. CASE WriterStep
  <2>1. CASE ListTables
    BY <1>0, <2>1, ListSpares
  <2>2. CASE DropOldest
    BY <2>2, DropSpares
  <2>3. ~ (CheckTable \/ CreateTable \/ InsertRow \/ InsertDone \/ EndWrite)
    BY DEF CheckTable, CreateTable, InsertRow, InsertDone, EndWrite, Return
  <2> QED  BY <1>3, <2>1, <2>2, <2>3 DEF WriterStep
<1>4. CASE ClientStep
  <2>1. CASE \E c \in 0 .. MaxChannels, e \in Dates : DropTable(c, e)
    <3>1. PICK c \in 0 .. MaxChannels, e \in Dates : DropTable(c, e)
      BY <2>1
    <3>2. writer = "drop" /\ d \in doomed
      BY <3>1 DEF DropTable, writing
    <3> QED  BY <3>1, <3>2, DropTableSpares
  <2>2. CASE UNCHANGED <<writing, database, taken>>
    BY <1>1, <2>2 DEF writing, database
  <2> QED  BY <1>4, <2>1, <2>2 DEF ClientStep, BeginSelect, ScanTable, EndSelect
<1>5. CASE Restart
  BY <1>5 DEF Restart
<1>6. CASE UNCHANGED vars
  BY <1>1, <1>6 DEF vars, writing, database
<1> QED  BY <1>2, <1>3, <1>4, <1>5, <1>6 DEF Next

(* A table goes without being asked for only in a clean-up, which works on  *)
(* a list that dropTable() may have outdated: it has MaxTables newer ones,  *)
(* in its database or taken from it by dropTable() during this very write.  *)
THEOREM CleanupSparesNewest == Spec => CleanupKeepsNewest
<1>1. Init => CleanupInv
  BY InitType DEF Init, CleanupInv
<1>2. CleanupInv /\ [Next]_vars =>
        (drops' = drops =>
           \A c \in Channel : \A d \in dates[c] \ dates'[c] :
              Cardinality(Newer(c, d) \cup {e \in taken \cap ListedDates : e > d}) >= MaxTables)
  <2> SUFFICES ASSUME CleanupInv, [Next]_vars, drops' = drops,
                      NEW c \in Channel, NEW d \in dates[c] \ dates'[c]
               PROVE  Cardinality(Newer(c, d) \cup {e \in taken \cap ListedDates : e > d})
                         >= MaxTables
    OBVIOUS
  <2>1. TypeInv /\ dates \in [Channel -> SUBSET Dates] /\ drops \in Nat
    BY DEF CleanupInv, TypeInv, TypeOK
  <2>2. CASE DropOldest
    <3>1. writer = "drop" /\ msg.channel \in Channel
      BY <2>1, <2>2 DEF DropOldest, TypeInv, TypeOK
    <3>2. PICK o \in doomed : RemoveTable(msg.channel, o) \/ dates' = dates
      BY <2>2 DEF DropOldest, database
    <3>3. c = msg.channel /\ d = o
      BY <2>1, <3>1, <3>2 DEF RemoveTable
    <3> QED  BY <3>1, <3>3 DEF CleanupInv, Spare, Above
  <2>3. CASE CreateTable
    BY <2>1, <2>3 DEF CreateTable
  <2>4. ASSUME NEW e \in 0 .. MaxChannels, NEW f \in Dates PROVE ~DropTable(e, f)
    BY <2>1 DEF DropTable
  <2>5. dates' # dates
    OBVIOUS
  <2>6. \/ WriterStep
        \/ \E e \in 0 .. MaxChannels, f \in Dates : DropTable(e, f)
    BY <2>5 DEF Next, ClientStep, BeginWrite, BeginSelect, ScanTable, EndSelect, Restart,
                vars, database
  <2> QED  BY <2>2, <2>3, <2>4, <2>5, <2>6
           DEF WriterStep, CheckTable, ListTables, InsertRow, InsertDone, EndWrite, database
<1> QED  BY <1>1, <1>2, NextCleanup, PTL DEF Spec, CleanupKeepsNewest
-----------------------------------------------------------------------------
(***************************************************************************)
(* What stays.  A step adds to the tables and to the log, or it removes    *)
(* one table: a clean-up a doomed one, dropTable() any.                    *)
(***************************************************************************)
Grows ==
  /\ \A w \in 1 .. Len(log) : log'[w] = log[w]
  /\ \A c \in Channel : dates[c] \subseteq dates'[c]
  /\ \A c \in Channel, d \in Dates : InTable(c, d) \subseteq InTable(c, d)'

Cleans(d) ==
  DropOldest /\ d \in doomed /\ RemoveTable(msg.channel, d) /\ log' = log
Drops(c, d) ==
  DropTable(c, d) /\ c \in Channel /\ RemoveTable(c, d) /\ log' = log

LEMMA SameGrows ==
  ASSUME UNCHANGED database, \A w \in 1 .. Len(log) : log'[w] = log[w]
  PROVE  Grows
  BY DEF database, Grows, InTable

(* A sequence that gets one more element keeps those it has. *)
LEMMA AppendKeeps ==
  ASSUME NEW S, NEW t \in Seq(S), NEW e \in S
  PROVE  /\ DOMAIN Append(t, e) = 1 .. (Len(t) + 1) /\ Len(t) \in Nat
         /\ \A i \in DOMAIN t : i \in DOMAIN Append(t, e) /\ Append(t, e)[i] = t[i]
<1>1. /\ Append(t, e) \in Seq(S) /\ Len(Append(t, e)) = Len(t) + 1 /\ Len(t) \in Nat
      /\ \A i \in 1 .. Len(t) : Append(t, e)[i] = t[i]
      /\ DOMAIN t = 1 .. Len(t)
  BY AppendProperties, LenProperties
<1>2. DOMAIN Append(t, e) = 1 .. (Len(t) + 1)
  BY <1>1, LenProperties
<1>3. 1 .. Len(t) \subseteq 1 .. (Len(t) + 1)
  BY <1>1
<1> QED  BY <1>1, <1>2, <1>3

LEMMA InsertGrows == TypeInv /\ InsertRow => Grows
<1> SUFFICES ASSUME TypeInv, InsertRow PROVE Grows
  OBVIOUS
<1>1. /\ writer = "insert" /\ UNCHANGED <<dates, log>>
      /\ Inserted \/ rows' = rows
  BY DEF InsertRow, Inserted
<1>2. CASE rows' = rows
  BY <1>1, <1>2 DEF Grows, InTable
<1>3. CASE Inserted
  <2> DEFINE w == Row(Len(log), reg + 1)
  <2>1. w \in RowType
    <3>1. Len(log) \in 1 .. Len(log) /\ reg \in Nat
      BY <1>1, MsgTyped DEF TypeInv, TypeOK
    <3> QED  BY <3>1 DEF Row, RowType
  <2>2. ASSUME NEW c \in Channel, NEW d \in Dates
        PROVE  InTable(c, d) \subseteq InTable(c, d)'
    <3>1. rows'[c][d] = rows[c][d] \/ rows'[c][d] = Append(rows[c][d], w)
      BY <1>1, <1>3, InsertedRows
    <3>2. \A i \in DOMAIN rows[c][d] : i \in DOMAIN rows'[c][d] /\ rows'[c][d][i] = rows[c][d][i]
      <4>1. rows[c][d] \in Seq(RowType)
        BY RowAt
      <4> HIDE DEF w
      <4>2. \A i \in DOMAIN rows[c][d] :
               i \in DOMAIN Append(rows[c][d], w) /\ Append(rows[c][d], w)[i] = rows[c][d][i]
        BY <2>1, <4>1, AppendKeeps
      <4> QED  BY <3>1, <4>2
    <3> QED  BY <3>2 DEF InTable
  <2> QED  BY <1>1, <2>2 DEF Grows
<1> QED  BY <1>1, <1>2, <1>3

LEMMA StepGrows ==
  ASSUME TypeInv, [Next]_vars
  PROVE  Grows \/ (\E d \in Dates : Cleans(d)) \/ (\E c \in Channel, d \in Dates : Drops(c, d))
<1>1. ASSUME UNCHANGED <<database, log>> PROVE Grows
  BY <1>1, SameGrows
<1>2. CASE \E m \in Messages : BeginWrite(m)
  <2>1. PICK m \in Messages : BeginWrite(m)
    BY <1>2
  <2>2. UNCHANGED database /\ \A w \in 1 .. Len(log) : log'[w] = log[w]
    BY <2>1, Logged DEF BeginWrite
  <2> QED  BY <2>2, SameGrows
<1>3. CASE CreateTable
  <2>1. /\ UNCHANGED <<rows, log>>
        /\ dates' = dates \/ dates' = [dates EXCEPT ![msg.channel] = @ \cup {msg.date}]
    BY <1>3 DEF CreateTable
  <2>2. \A c \in Channel : dates[c] \subseteq dates'[c]
    BY <2>1 DEF TypeInv, TypeOK
  <2> QED  BY <2>1, <2>2 DEF Grows, InTable
<1>4. CASE InsertRow
  BY <1>4, InsertGrows
<1>5. CASE DropOldest
  <2>1. /\ log' = log /\ doomed \subseteq Dates
        /\ \E d \in doomed : RemoveTable(msg.channel, d) \/ UNCHANGED database
    BY <1>5, DbNumbers DEF DropOldest, TypeInv, TypeOK
  <2> QED  BY <1>1, <1>5, <2>1 DEF Cleans
<1>6. CASE \E c \in 0 .. MaxChannels, d \in Dates : DropTable(c, d)
  <2>1. PICK c \in 0 .. MaxChannels, d \in Dates : DropTable(c, d)
    BY <1>6
  <2>2. log' = log /\ ((c \in Channel /\ RemoveTable(c, d)) \/ UNCHANGED database)
    BY <2>1 DEF DropTable, GetHandle, writing
  <2> QED  BY <1>1, <2>1, <2>2 DEF Drops
<1>7. CASE UNCHANGED <<database, log>>
  BY <1>1, <1>7
<1> QED
  <2>1. \/ UNCHANGED <<database, log>>
        \/ \E m \in Messages : BeginWrite(m)
        \/ CreateTable \/ InsertRow \/ DropOldest
        \/ \E c \in 0 .. MaxChannels, d \in Dates : DropTable(c, d)
    BY DEF Next, WriterStep, ClientStep, CheckTable, ListTables, InsertDone, EndWrite,
           BeginSelect, ScanTable, EndSelect, Restart, vars, writing
  <2> QED  BY <1>2, <1>3, <1>4, <1>5, <1>6, <1>7, <2>1

LEMMA StoredStays ==
  ASSUME Grows, NEW w \in 1 .. Len(log), StoredAll(w)
  PROVE  StoredAll(w)'
<1>1. log'[w] = log[w] /\ log[w].channel \in Channel /\ log[w].date \in Dates
  BY DEF Grows, StoredAll
<1>2. \A c \in Channel, d \in Dates : InTable(c, d) \subseteq InTable(c, d)'
  BY DEF Grows
<1>3. \A c \in Channel, d \in Dates : \A x \in InTable(c, d) :
         x \in {rows'[c][d][i] : i \in DOMAIN rows'[c][d]}
  BY <1>2 DEF InTable
<1>4. \A r \in 1 .. log[w].regs :
         Row(w, r) \in {rows'[log[w].channel][log[w].date][i] :
                          i \in DOMAIN rows'[log[w].channel][log[w].date]}
  BY <1>1, <1>3 DEF StoredAll
<1> QED  BY <1>1, <1>4 DEF StoredAll, InTable, Row

(* The other tables when one goes. *)
LEMMA StoredElsewhere ==
  ASSUME TypeInv, NEW c \in Channel, NEW d \in Dates, RemoveTable(c, d), log' = log,
         NEW w \in 1 .. Len(log), StoredAll(w), <<log[w].channel, log[w].date>> # <<c, d>>
  PROVE  StoredAll(w)'
<1>1. /\ log[w].channel \in Channel /\ log[w].date \in Dates
      /\ rows'[log[w].channel][log[w].date] = rows[log[w].channel][log[w].date]
  BY DEF StoredAll, RemoveTable, TypeInv, RowsTyped
<1> QED  BY <1>1 DEF StoredAll, InTable, Row
-----------------------------------------------------------------------------
(***************************************************************************)
(* What a true answer is worth.  A table that a clean-up drops has enough  *)
(* newer ones, and the clean-ups after that drop none of the newest.       *)
(***************************************************************************)
Kept(w) == /\ log[w].channel \in Channel /\ log[w].date \in Dates
           /\ StoredAll(w) \/ Superseded(w)
Named == writer = "return" /\ allSuccess = TRUE => msg.channel \in Channel /\ msg.date \in Dates
KeptInv ==
  /\ AnswerInv /\ CleanupInv /\ Named
  /\ drops = 0 => taken = {} /\ \A w \in answered : Kept(w)

LEMMA NextNamed == TypeInv /\ Named /\ [Next]_vars => Named'
<1> SUFFICES ASSUME TypeInv, Named, [Next]_vars, writer' = "return", allSuccess' = TRUE
             PROVE  (msg.channel)' \in Channel /\ (msg.date)' \in Dates
  BY DEF Named
<1>1. CASE InsertDone
  <2>1. writer = "insert" /\ msg' = msg
    BY <1>1 DEF InsertDone, msg
  <2> QED  BY <2>1 DEF TypeInv, TypeOK
<1>2. CASE UNCHANGED <<writer, log, allSuccess>>
  BY <1>2 DEF Named, msg
<1> QED
  BY <1>1, <1>2 DEF Next, BeginWrite, WriterStep, CheckTable, CreateTable, ListTables,
     DropOldest, InsertRow, EndWrite, Return, ClientStep, DropTable, BeginSelect, ScanTable,
     EndSelect, Restart, vars, writing

LEMMA KeptGrows ==
  ASSUME TypeInv, Grows, NEW w \in 1 .. Len(log), Kept(w), TypeInv'
  PROVE  Kept(w)'
<1>1. log'[w] = log[w] /\ log[w].channel \in Channel /\ log[w].date \in Dates
  BY DEF Grows, Kept
<1>2. CASE StoredAll(w)
  BY <1>1, <1>2, StoredStays DEF Kept
<1>3. CASE Superseded(w)
  <2> DEFINE c == log[w].channel
             d == log[w].date
  <2>1. Newer(c, d) \subseteq {e \in dates'[c] \cap ListedDates : e > d}
    BY <1>1 DEF Newer, Listed, Grows
  <2>2. IsFiniteSet({e \in dates'[c] \cap ListedDates : e > d})
    <3>1. dates'[c] \subseteq Dates
      BY <1>1 DEF TypeInv, TypeOK
    <3>2. IsFiniteSet(Dates) /\ {e \in dates'[c] \cap ListedDates : e > d} \subseteq Dates
      BY <3>1, DbAssumption
    <3> QED  BY <3>2, SubsetSize
  <2>3. /\ Cardinality(Newer(c, d)) >= MaxTables /\ d \in ListedDates
        /\ Cardinality(Newer(c, d)) \in Nat /\ MaxTables \in Nat
    BY <1>3, ListedFinite, DbNumbers DEF Superseded, Newer, Listed
  <2>4. Cardinality({e \in dates'[c] \cap ListedDates : e > d}) >= MaxTables
    BY <2>1, <2>2, <2>3, SubsetSize
  <2> QED  BY <1>1, <2>3, <2>4 DEF Kept, Superseded, Newer, Listed
<1> QED  BY <1>2, <1>3 DEF Kept

LEMMA KeptCleaned ==
  ASSUME CleanupInv, taken = {}, NEW d \in Dates, Cleans(d), NEW w \in 1 .. Len(log), Kept(w)
  PROVE  Kept(w)'
<1> DEFINE c == log[w].channel
           e == log[w].date
<1>1. /\ TypeInv /\ msg.channel \in Channel /\ log' = log /\ RemoveTable(msg.channel, d)
      /\ d \in doomed /\ d \in ListedDates
  BY DEF CleanupInv, Cleans, DropOldest, TypeInv, TypeOK
<1>2. c \in Channel /\ e \in Dates
  BY DEF Kept
(* The table that goes has MaxTables newer ones, and keeps them. *)
<1>3. /\ Cardinality(Newer(msg.channel, d)) >= MaxTables
      /\ IsFiniteSet(Newer(msg.channel, d)) /\ Cardinality(Newer(msg.channel, d)) \in Nat
  <2>1. Above(d) = Newer(msg.channel, d)
    BY DEF Above
  <2>2. Spare(d)
    BY <1>1 DEF CleanupInv, Cleans, DropOldest
  <2>3. IsFiniteSet(Above(d)) /\ Cardinality(Above(d)) \in Nat
    BY AboveListed, ListedFinite
  <2> QED  BY <2>1, <2>2, <2>3 DEF Spare
<1>4. dates'[c] = IF c = msg.channel THEN dates[c] \ {d} ELSE dates[c]
  BY <1>1, <1>2 DEF RemoveTable, TypeInv, TypeOK
<1>5. d \in Nat /\ e \in Nat /\ Dates \subseteq Nat
  BY <1>2, DbNumbers
<1>6. CASE StoredAll(w) /\ <<c, e>> # <<msg.channel, d>>
  BY <1>1, <1>2, <1>6, StoredElsewhere DEF Kept
<1>7. CASE Superseded(w) /\ (c # msg.channel \/ ~ (d > e))
  <2>1. Newer(c, e)' = Newer(c, e)
    BY <1>1, <1>2, <1>4, <1>7 DEF Newer, Listed
  <2> QED  BY <1>1, <1>2, <1>7, <2>1 DEF Kept, Superseded
<1>8. CASE c = msg.channel /\ (e = d \/ (Superseded(w) /\ d > e))
  <2>1. Newer(c, d) \subseteq {f \in dates'[c] \cap ListedDates : f > e}
    <3> SUFFICES ASSUME NEW f \in Newer(c, d)
                 PROVE  f \in dates'[c] \cap ListedDates /\ f > e
      OBVIOUS
    <3>1. f \in dates[c] /\ f \in ListedDates /\ f > d
      BY DEF Newer, Listed
    <3>2. f \in Nat
      BY <3>1, DbNumbers
    <3>3. f # d /\ f > e
      BY <1>5, <1>8, <3>1, <3>2
    <3> QED  BY <1>4, <1>8, <3>1, <3>3
  <2>2. IsFiniteSet({f \in dates'[c] \cap ListedDates : f > e})
    <3>1. {f \in dates'[c] \cap ListedDates : f > e} \subseteq Listed(c)
      BY <1>4 DEF Listed
    <3> QED  BY <1>1, <1>2, <3>1, ListedTyped, SubsetSize
  <2>3. Cardinality({f \in dates'[c] \cap ListedDates : f > e}) >= MaxTables
    BY <1>3, <1>8, <2>1, <2>2, SubsetSize, DbNumbers
  <2>4. e \in ListedDates
    BY <1>1, <1>8 DEF Superseded
  <2> QED  BY <1>1, <1>2, <2>3, <2>4 DEF Kept, Superseded, Newer, Listed
<1> QED  BY <1>6, <1>7, <1>8 DEF Kept

LEMMA NextKept == KeptInv /\ [Next]_vars => KeptInv'
<1> SUFFICES ASSUME KeptInv, [Next]_vars PROVE KeptInv'
  OBVIOUS
<1>0. /\ AnswerInv' /\ CleanupInv' /\ Named'
      /\ TypeInv /\ TypeInv' /\ AnswerInv /\ CleanupInv /\ Named
  BY NextAnswers, NextCleanup, NextNamed, NextType DEF KeptInv, CleanupInv
<1>u. drops' = 0 => drops = 0 /\ taken' = {}
  <2>1. \/ drops' = drops /\ taken' \in {taken, {}}
        \/ drops' = drops + 1
    BY DEF Next, BeginWrite, WriterStep, CheckTable, CreateTable, ListTables, DropOldest,
       InsertRow, InsertDone, EndWrite, ClientStep, DropTable, BeginSelect, ScanTable,
       EndSelect, Restart, vars
  <2>2. drops \in Nat
    BY <1>0 DEF TypeInv, TypeOK
  <2> QED  BY <2>1, <2>2 DEF KeptInv
<1> SUFFICES ASSUME drops' = 0, NEW w \in answered' PROVE Kept(w)'
  BY <1>0, <1>u DEF KeptInv
<1>1. drops = 0 /\ taken = {} /\ ~ \E c \in 0 .. MaxChannels, d \in Dates : DropTable(c, d)
  BY <1>u DEF KeptInv, DropTable
<1>2. answered \subseteq 1 .. Len(log)
  BY <1>0 DEF TypeInv, TypeOK
<1>3. CASE w \in answered
  <2>1. Kept(w) /\ w \in 1 .. Len(log)
    BY <1>1, <1>2, <1>3 DEF KeptInv
  <2>2. Grows \/ \E d \in Dates : Cleans(d)
    <3>1. Channel \subseteq 0 .. MaxChannels
      BY DbNumbers DEF Channel
    <3> QED  BY <1>0, <1>1, <3>1, StepGrows DEF Drops
  <2> QED  BY <1>0, <1>1, <2>1, <2>2, KeptGrows, KeptCleaned
(* The message that is answered for in this step is there. *)
<1>4. CASE w \notin answered
  <2>1. /\ writer = "return" /\ allSuccess = TRUE /\ w = Len(log)
        /\ UNCHANGED <<database, log>>
    <3>1. answered' # answered
      BY <1>4
    <3>2. EndWrite
      BY <3>1 DEF Next, BeginWrite, WriterStep, CheckTable, CreateTable, ListTables, DropOldest,
         InsertRow, InsertDone, ClientStep, DropTable, BeginSelect, ScanTable,
         EndSelect, Restart, vars, writing
    <3>3. allSuccess \in BOOLEAN
      BY <1>0 DEF TypeInv, TypeOK
    <3>4. allSuccess /\ w = Len(log) /\ writer = "return" /\ UNCHANGED <<database, log>>
      BY <1>4, <3>2 DEF EndWrite
    <3> QED  BY <3>3, <3>4
  <2>2. msg.channel \in Channel /\ msg.date \in Dates /\ msg.regs \in Nat
        /\ Len(log) \in 1 .. Len(log)
    BY <1>0, <2>1, MsgTyped DEF Named
  <2>3. StoredAll(w)
    <3>1. CASE msg.regs > 0
      <4>1. msg.date \notin taken
        BY <1>1
      <4> QED  BY <1>0, <2>1, <3>1, <4>1 DEF AnswerInv, Answers, AnswerIsTrue
    <3>2. CASE ~ (msg.regs > 0)
      <4>1. 1 .. msg.regs = {}
        BY <2>2, <3>2
      <4> QED  BY <2>1, <2>2, <4>1 DEF StoredAll, msg
    <3> QED  BY <3>1, <3>2
  <2>4. Kept(w)
    BY <2>1, <2>2, <2>3 DEF Kept, msg
  <2> QED  BY <1>0, <2>1, <2>2, <2>4, SameGrows, KeptGrows
<1> QED  BY <1>3, <1>4

LEMMA InitKept == Init => KeptInv
<1>1. Init => AnswerInv
  BY InitPlace DEF Init, AnswerInv, Answers, BeforeInsert, Inserting, AnswerIsTrue
<1> QED  BY <1>1, InitType DEF Init, KeptInv, CleanupInv, Named

(* A message answered true stays whole in its table through every later     *)
(* write, clean-up, failure and restart, until MaxTables newer tables have  *)
(* replaced it or a client drops a table.                                   *)
THEOREM AnswersAreKept == Spec => []AnsweredIsKept
<1>1. KeptInv => AnsweredIsKept
  BY DEF KeptInv, Kept, AnsweredIsKept
<1> QED  BY <1>1, InitKept, NextKept, PTL DEF Spec
-----------------------------------------------------------------------------
(***************************************************************************)
(* The search.  What it owes is still stored, in a table it has yet to     *)
(* look at as long as it has found nothing.                                *)
(***************************************************************************)
Searched(w) == log[w].date \in ListedDates /\ log[w].regs > 0
Owed(w) ==
  /\ client # "idle" /\ StoredAll(w)
  /\ log[w].channel = ask.channel /\ log[w].id = ask.id
  /\ Searched(w) =>
        (client = "scan" /\ log[w].date \in toScan) \/ (client = "done" /\ found # {})
SelectInv == PlaceInv /\ (\A w \in owed : Owed(w)) /\ SelectIsWhole

(* A row that was found with those of its message is found whole. *)
LEMMA WholeTable ==
  ASSUME PlaceInv, NEW c \in Channel, NEW d \in Dates, NEW w, StoredAll(w),
         NEW row \in InTable(c, d), row.write = w, NEW r \in 1 .. log[w].regs
  PROVE  Row(w, r) \in InTable(c, d)
<1>1. PICK i \in DOMAIN rows[c][d] : row = rows[c][d][i]
  BY DEF InTable
<1>2. log[w].channel = c /\ log[w].date = d
  BY <1>1 DEF PlaceInv, InPlace, Belongs
<1> QED  BY <1>2 DEF StoredAll

(* While the client stays, what others do to what it owes. *)
LEMMA OwedKept ==
  ASSUME SelectInv, [Next]_vars, UNCHANGED <<client, ask, toScan, found>>
  PROVE  \A w \in owed : StoredAll(w)' \/ w \notin owed'
<1> SUFFICES ASSUME NEW w \in owed PROVE StoredAll(w)' \/ w \notin owed'
  OBVIOUS
<1>1. TypeInv /\ StoredAll(w) /\ w \in 1 .. Len(log)
  BY DEF SelectInv, PlaceInv, Owed, TypeInv, TypeOK
<1>2. CASE Grows
  BY <1>1, <1>2, StoredStays
<1>3. ASSUME NEW c \in Channel, NEW d \in Dates, RemoveTable(c, d), log' = log
      PROVE  StoredAll(w)' \/ w \notin owed'
  <2>1. CASE <<log[w].channel, log[w].date>> = <<c, d>>
    BY <1>3, <2>1 DEF RemoveTable
  <2>2. CASE <<log[w].channel, log[w].date>> # <<c, d>>
    BY <1>1, <1>3, <2>2, StoredElsewhere
  <2> QED  BY <2>1, <2>2
<1>4. CASE \E d \in Dates : Cleans(d)
  <2>1. PICK d \in Dates : Cleans(d)
    BY <1>4
  <2>2. RemoveTable(msg.channel, d) /\ log' = log /\ msg.channel \in Channel
    BY <1>1, <2>1 DEF Cleans, DropOldest, TypeInv, TypeOK
  <2> QED  BY <1>3, <2>2
<1>5. CASE \E c \in Channel, d \in Dates : Drops(c, d)
  BY <1>3, <1>5 DEF Drops
<1> QED  BY <1>1, <1>2, <1>4, <1>5, StepGrows

(* The steps of the writer and dropTable() leave the client and what it     *)
(* found alone.                                                             *)
LEMMA OthersSelect ==
  ASSUME SelectInv, [Next]_vars, UNCHANGED <<client, ask, toScan, found>>, owed' \subseteq owed,
         PlaceInv'
  PROVE  SelectInv'
<1>1. TypeInv /\ owed \subseteq 1 .. Len(log)
  BY DEF SelectInv, PlaceInv, TypeInv, TypeOK
<1>2. \A w \in owed' : StoredAll(w)'
  BY OwedKept
<1>3. \A w \in 1 .. Len(log) : log'[w] = log[w]
  BY <1>1, StepGrows DEF Grows, Cleans, Drops
<1>4. ASSUME NEW w \in owed' PROVE Owed(w)'
  <2>1. Owed(w) /\ log'[w] = log[w] /\ StoredAll(w)'
    BY <1>1, <1>2, <1>3 DEF SelectInv
  <2> QED  BY <2>1 DEF Owed, Searched
<1>5. SelectIsWhole'
  <2> SUFFICES ASSUME client = "done", NEW row \in found, row.write \in owed',
                      NEW r \in 1 .. log'[row.write].regs
               PROVE  Row(row.write, r) \in found
    BY DEF SelectIsWhole, Row
  <2>1. row.write \in owed /\ log'[row.write] = log[row.write]
    BY <1>1, <1>3
  <2> QED  BY <2>1 DEF SelectInv, SelectIsWhole
<1> QED  BY <1>4, <1>5 DEF SelectInv

LEMMA BeginSelects ==
  ASSUME SelectInv, PlaceInv', NEW c \in 0 .. MaxChannels, NEW m \in Messages,
         BeginSelect(c, m.id)
  PROVE  SelectInv'
<1>1. /\ UNCHANGED <<database, log>> /\ found' = {}
      /\ ask' = [channel |-> c, id |-> m.id]
      /\ client' = IF toScan' = {} THEN "done" ELSE "scan"
  BY DEF BeginSelect, writing
<1>2. ASSUME NEW w \in owed'
      PROVE  /\ log[w].channel = c /\ log[w].id = m.id /\ StoredAll(w)
             /\ log[w].date \in dates[c] /\ toScan' = Listed(c)
  <2>1. /\ c \in Channel /\ \E names \in SUBSET Listed(c) : TableNames(c, names) /\ toScan' = names
        /\ owed' = IF faults' # faults THEN {}
                   ELSE {v \in answered : /\ log[v].channel = c /\ log[v].id = m.id
                                          /\ log[v].date \in dates[c] /\ StoredAll(v)}
    BY <1>2 DEF BeginSelect
  <2>2. faults' = faults /\ log[w].channel = c /\ log[w].id = m.id /\ StoredAll(w)
        /\ log[w].date \in dates[c]
    BY <2>1
  <2>3. ~Fails
    <3>1. faults \in Nat
      BY DEF SelectInv, PlaceInv, TypeInv, TypeOK
    <3> QED  BY <2>2, <3>1 DEF Fails
  <2> QED  BY <2>1, <2>2, <2>3 DEF TableNames
<1>3. ASSUME NEW w \in owed' PROVE Owed(w)'
  <2>1. StoredAll(w)'
    BY <1>1, <1>2 DEF StoredAll, InTable, Row, database
  <2>2. Searched(w) => log[w].date \in toScan'
    BY <1>2 DEF Searched, Listed
  <2> QED  BY <1>1, <1>2, <2>1, <2>2 DEF Owed, Searched
<1> QED  BY <1>1, <1>3 DEF SelectInv, SelectIsWhole

(* One table: all of it is read, or the statement fails and nothing is owed. *)
LEMMA ScanSelects ==
  ASSUME SelectInv, PlaceInv', ScanTable
  PROVE  SelectInv'
<1>0. TypeInv /\ PlaceInv
  BY DEF SelectInv, PlaceInv
<1>1. /\ client = "scan" /\ UNCHANGED <<database, log, ask>>
      /\ client' = IF toScan' = {} THEN "done" ELSE "scan"
  BY DEF ScanTable, writing
<1> DEFINE c == ask.channel
<1>2. PICK d \in toScan :
        /\ \/ /\ UNCHANGED owed
              /\ found' = {rows[c][d][i] : i \in {j \in 1 .. Len(rows[c][d]) :
                                                   log[rows[c][d][j].write].id = ask.id}}
           \/ owed' = {}
        /\ toScan' = IF found' = {} THEN toScan \ {d} ELSE {}
  BY DEF ScanTable
<1>3. c \in Channel /\ d \in Dates
  BY <1>0, <1>1, DbNumbers DEF TypeInv, TypeOK
<1>4. CASE owed' = {}
  BY <1>4 DEF SelectInv, SelectIsWhole
<1>5. CASE /\ UNCHANGED owed
           /\ found' = {rows[c][d][i] : i \in {j \in 1 .. Len(rows[c][d]) :
                                                log[rows[c][d][j].write].id = ask.id}}
  <2>1. \A x : x \in found' <=> x \in InTable(c, d) /\ log[x.write].id = ask.id
    <3>1. DOMAIN rows[c][d] = 1 .. Len(rows[c][d])
      BY <1>0, <1>3, RowAt
    <3> QED  BY <1>5, <3>1 DEF InTable
  <2>2. ASSUME NEW w \in owed
        PROVE  /\ StoredAll(w)' /\ StoredAll(w) /\ log[w].channel = c /\ log[w].id = ask.id
               /\ Searched(w) => log[w].date \in toScan
    <3>1. Owed(w)
      BY DEF SelectInv
    <3>2. StoredAll(w)'
      BY <1>1, <3>1 DEF Owed, StoredAll, InTable, Row, database
    <3> QED  BY <1>1, <3>1, <3>2 DEF Owed
  <2>3. ASSUME NEW w \in owed, Searched(w), log[w].date = d PROVE found' # {}
    <3>1. log[w].regs \in Nat
      <4>1. w \in 1 .. Len(log)
        BY <1>0 DEF TypeInv, TypeOK
      <4>2. log[w] \in Messages
        BY <1>0, <4>1, ElementOfSeq DEF TypeInv, TypeOK
      <4> QED  BY <4>2, DbNumbers
    <3>2. 1 \in 1 .. log[w].regs
      BY <2>3, <3>1 DEF Searched
    <3>3. Row(w, 1) \in InTable(c, d)
      BY <2>2, <2>3, <3>2 DEF StoredAll
    <3>4. Row(w, 1).write = w
      BY DEF Row
    <3> QED  BY <2>1, <2>2, <3>3, <3>4
  <2>4. ASSUME NEW w \in owed' PROVE Owed(w)'
    <3>1. w \in owed
      BY <1>5
    <3>2. Searched(w) =>
            (client' = "scan" /\ log[w].date \in toScan') \/ (client' = "done" /\ found' # {})
      BY <1>1, <1>2, <2>2, <2>3, <3>1
    <3> QED  BY <1>1, <2>2, <3>1, <3>2 DEF Owed, Searched
  <2>5. SelectIsWhole'
    <3> SUFFICES ASSUME NEW row \in found', row.write \in owed',
                        NEW r \in 1 .. log[row.write].regs
                 PROVE  Row(row.write, r) \in found'
      BY <1>1 DEF SelectIsWhole, Row
    <3>1. row \in InTable(c, d) /\ row.write \in owed
      BY <1>5, <2>1
    <3>2. Row(row.write, r) \in InTable(c, d)
      BY <1>0, <1>3, <2>2, <3>1, WholeTable
    <3>3. Row(row.write, r).write = row.write
      BY DEF Row
    <3> QED  BY <2>1, <2>2, <3>1, <3>2, <3>3
  <2> QED  BY <2>4, <2>5 DEF SelectInv
<1> QED  BY <1>2, <1>4, <1>5

LEMMA NextSelect == SelectInv /\ [Next]_vars => SelectInv'
<1> SUFFICES ASSUME SelectInv, [Next]_vars PROVE SelectInv'
  OBVIOUS
<1>0. PlaceInv' /\ PlaceInv /\ TypeInv
  BY NextPlace DEF SelectInv, PlaceInv
<1>1. ASSUME owed' = {}, client' # "done" PROVE SelectInv'
  BY <1>0, <1>1 DEF SelectInv, SelectIsWhole
<1>2. CASE \E m \in Messages : BeginWrite(m)
  <2>1. UNCHANGED <<client, ask, toScan, found, owed>>
    BY <1>2 DEF BeginWrite, asking
  <2> QED  BY <1>0, <2>1, OthersSelect
<1>3. CASE WriterStep
  <2>1. UNCHANGED <<client, ask, toScan, found>> /\ owed' \subseteq owed
    BY <1>3 DEF WriterStep, CheckTable, CreateTable, ListTables, DropOldest, RemoveTable,
       InsertRow, InsertDone, EndWrite, asking
  <2> QED  BY <1>0, <2>1, OthersSelect
<1>4. CASE ClientStep
  <2>1. CASE \E c \in 0 .. MaxChannels, d \in Dates : DropTable(c, d)
    <3>1. UNCHANGED <<client, ask, toScan, found>> /\ owed' \subseteq owed
      BY <2>1 DEF DropTable, RemoveTable, asking
    <3> QED  BY <1>0, <3>1, OthersSelect
  <2>2. CASE \E c \in 0 .. MaxChannels, m \in Messages : BeginSelect(c, m.id)
    BY <1>0, <2>2, BeginSelects
  <2>3. CASE ScanTable
    BY <1>0, <2>3, ScanSelects
  <2>4. CASE EndSelect
    BY <1>1, <2>4 DEF EndSelect
  <2> QED  BY <1>4, <2>1, <2>2, <2>3, <2>4 DEF ClientStep
<1>5. CASE Restart
  BY <1>1, <1>5 DEF Restart
<1>6. CASE UNCHANGED vars
  <2>1. UNCHANGED <<client, ask, toScan, found, owed>>
    BY <1>6 DEF vars, asking
  <2> QED  BY <1>0, <2>1, OthersSelect
<1> QED  BY <1>2, <1>3, <1>4, <1>5, <1>6 DEF Next

LEMMA SelectInvariant == Spec => []SelectInv
<1>1. Init => SelectInv
  BY InitPlace DEF Init, SelectInv, SelectIsWhole
<1> QED  BY <1>1, NextSelect, PTL DEF Spec

(* A message that was stored before the select began, and is not dropped    *)
(* meanwhile, is found, whatever is written and cleaned up during the scan. *)
THEOREM SelectsFind == Spec => []SelectFindsStored
<1>1. SelectInv => SelectFindsStored
  BY DEF SelectInv, Owed, Searched, SelectFindsStored
<1> QED  BY <1>1, SelectInvariant, PTL

(* And it is found with all of its registers, or not at all. *)
THEOREM SelectsAreWhole == Spec => []SelectIsWhole
<1>1. SelectInv => SelectIsWhole
  BY DEF SelectInv
<1> QED  BY <1>1, SelectInvariant, PTL
=============================================================================
