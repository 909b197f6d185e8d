---------------------------- MODULE AuditLog_proofs ----------------------------
(***************************************************************************)
(* Proofs about AuditLog, for any number of copies, any MaxBytes, lines of *)
(* any sizes, and calls that fail or are cut off by a crash wherever they  *)
(* can: what is left on disk when one process has the path to itself.      *)
(***************************************************************************)
EXTENDS AuditLog, TLAPS

USE OptionsAssumption, SizesAssumption, MayFailAssumption, MaxLinesAssumption

\* Opening audit.jsonl creates it if there is none; other files stay as they are.
LEMMA Opened ==
  ASSUME TypeOK, NEW p \in Procs, OpenActive(p), UNCHANGED keepFiles
  PROVE  /\ data' \in Seq(Content) /\ Len(data') >= Len(data)
         /\ dir' \in [Slots' -> {NoFile} \cup Inodes']
         /\ file' = [file EXCEPT ![p] = dir'[0]] /\ dir'[0] \in Inodes'
         /\ file' \in [Procs -> {NoFile} \cup Inodes']
<1> USE DEF TypeOK, Slots, Inodes, NoFile
<1>1. CASE dir[0] # NoFile
  <2>1. UNCHANGED <<dir, data>> /\ file' = [file EXCEPT ![p] = dir[0]]
    BY <1>1 DEF OpenActive
  <2>2. dir[0] \in 1..Len(data)
    BY <1>1
  <2> QED BY <2>1, <2>2
<1>2. CASE dir[0] = NoFile
  <2>1. EmptyFile \in Content BY DEF EmptyFile, Content
  <2>2. /\ data' = Append(data, EmptyFile)
        /\ dir' = [dir EXCEPT ![0] = Len(data) + 1]
        /\ file' = [file EXCEPT ![p] = Len(data) + 1]
    BY <1>2 DEF OpenActive
  <2>3. data' \in Seq(Content) /\ Len(data') = Len(data) + 1
    BY <2>1, <2>2
  <2>4. 0 \in Slots /\ Len(data) \in Nat
    OBVIOUS
  <2> QED BY <2>2, <2>3, <2>4
<1> QED BY <1>1, <1>2

\* What the types say of the inodes behind the names and the handles.
LEMMA Behind ==
  ASSUME TypeOK
  PROVE  /\ keepFiles \in Nat /\ 0 \in Slots /\ keepFiles \in Slots
         /\ \A i \in Inodes : data[i] \in Content /\ data[i].bytes \in Nat
                             /\ data[i].lines \in Seq(Nat)
         /\ \A k \in Slots : dir[k] # NoFile => dir[k] \in Inodes
         /\ \A p \in Procs : file[p] # NoFile => file[p] \in Inodes
         /\ \A p \in Procs : incoming[p] \in Nat
<1>1. keepFiles \in Nat /\ 0 \in Slots /\ keepFiles \in Slots
  BY DEF TypeOK, Slots
<1>2. \A i \in Inodes : data[i] \in Content
  BY DEF TypeOK, Inodes
<1>3. \A c \in Content : c.bytes \in Nat /\ c.lines \in Seq(Nat)
  BY DEF Content
<1>4. \A p \in Procs : incoming[p] \in Nat
  <2>1. {0} \cup Sizes \subseteq Nat
    BY SizesAssumption
  <2> QED BY <2>1 DEF TypeOK
<1> QED BY <1>1, <1>2, <1>3, <1>4 DEF TypeOK, NoFile

\* The line that is written goes to the end of the file that is open.
LEMMA Appended ==
  ASSUME TypeOK, NEW p \in Procs, AppendLine(p), file[p] # NoFile
  PROVE  /\ data' \in Seq(Content) /\ Len(data') = Len(data)
         /\ data'[file[p]] = [lines |-> Append(data[file[p]].lines, lines + 1),
                              bytes |-> data[file[p]].bytes + incoming[p]]
         /\ \A i \in Inodes \ {file[p]} : data'[i] = data[i]
<1> DEFINE new == [lines |-> Append(data[file[p]].lines, lines + 1),
                   bytes |-> data[file[p]].bytes + incoming[p]]
<1>1. file[p] \in Inodes /\ lines \in Nat
  BY Behind DEF TypeOK
<1>2. new \in Content
  BY <1>1, Behind DEF Content
<1>3. data' = [data EXCEPT ![file[p]] = new]
  BY DEF AppendLine
<1> HIDE DEF new
<1>4. /\ data' \in Seq(Content) /\ Len(data') = Len(data) /\ data'[file[p]] = new
      /\ \A i \in Inodes \ {file[p]} : data'[i] = data[i]
  BY <1>1, <1>2, <1>3 DEF TypeOK, Inodes
<1> QED BY <1>4 DEF new

\* Every system call of every process keeps the types.
LEMMA TypeStep == TypeOK /\ RotationInv /\ [Next]_vars => TypeOK'
<1> SUFFICES ASSUME TypeOK, RotationInv, [Next]_vars PROVE TypeOK'
  OBVIOUS
<1> USE DEF TypeOK, Slots, Inodes, NoFile, GoTo
<1>1. ASSUME NEW p \in Procs, ProcStep(p) PROVE TypeOK'
  <2>1. CASE Open(p)
    <3>1. UNCHANGED keepFiles /\ OpenActive(p) BY <2>1 DEF Open
    <3>2. SizeFromStat \in Nat BY Behind DEF SizeFromStat
    <3>3. dir' \in [Slots' -> {NoFile} \cup Inodes'] /\ data' \in Seq(Content)
          /\ file' \in [Procs -> {NoFile} \cup Inodes']
      BY <3>1, Opened
    <3> QED BY <2>1, <3>2, <3>3 DEF Open, Places
  <2>2. CASE Stop(p)         BY <2>2 DEF Stop, Places
  <2>3. CASE WriteFits(p)    BY <2>3 DEF WriteFits, Places
  <2>4. CASE WriteRotates(p) BY <2>4 DEF WriteRotates, Places, Rotating
  <2>5. CASE AppendLine(p)
    <3>1. CASE file[p] = NoFile
      BY <2>5, <3>1 DEF AppendLine, Places
    <3>2. CASE file[p] # NoFile
      <4>1. data' \in Seq(Content) /\ Len(data') = Len(data)
        BY <2>5, <3>2, Appended
      <4>2. size' = [size EXCEPT ![p] = size[p] + incoming[p]] /\ incoming[p] \in Nat
        BY <2>5, <3>2, Behind DEF AppendLine
      <4>3. size' \in [Procs -> Nat]
        BY <4>2
      <4> QED BY <2>5, <3>2, <4>1, <4>3 DEF AppendLine, Places
    <3> QED BY <3>1, <3>2
  <2>6. CASE RemoveOldest(p)
    <3>1. LastShifted \in Nat BY <2>6 DEF RemoveOldest, LastShifted, RotationInv
    <3>2. dir' \in [Slots -> {NoFile} \cup Inodes] BY <2>6 DEF RemoveOldest
    <3> QED BY <2>6, <3>1, <3>2 DEF RemoveOldest, Places, Rotating
  <2>7. CASE Shift(p)
    <3>1. slot[p] \in Nat /\ slot[p] < keepFiles
      BY <2>7 DEF Shift, RotationInv
    <3>2. dir[slot[p]] \in {NoFile} \cup Inodes
      BY <3>1
    <3>3. dir' \in [Slots -> {NoFile} \cup Inodes]
      BY <2>7, <3>2 DEF Shift, MoveTo
    <3>4. slot' \in [Procs -> Nat] BY <2>7 DEF Shift
    <3> QED BY <2>7, <3>3, <3>4 DEF Shift, AfterShift, Places, Rotating
  <2>8. CASE RotateFails(p)
    <3>1. slot' \in [Procs -> Nat] BY <2>8 DEF RotateFails
    <3> QED BY <2>8, <3>1 DEF RotateFails, GiveUp, Places
  <2>9. CASE RenameActive(p)
    <3>1. dir' \in [Slots -> {NoFile} \cup Inodes]
      BY <2>9 DEF RenameActive, MoveTo, RotationInv
    <3> QED BY <2>9, <3>1 DEF RenameActive, Places, Rotating
  <2>10. CASE UnlinkActive(p)
    <3>1. dir' \in [Slots -> {NoFile} \cup Inodes] BY <2>10 DEF UnlinkActive
    <3> QED BY <2>10, <3>1 DEF UnlinkActive, Places, Rotating
  <2>11. CASE Reopen(p)
    <3>1. UNCHANGED keepFiles /\ OpenActive(p) BY <2>11 DEF Reopen
    <3>2. dir' \in [Slots' -> {NoFile} \cup Inodes'] /\ data' \in Seq(Content)
          /\ file' \in [Procs -> {NoFile} \cup Inodes']
      BY <3>1, Opened
    <3> QED BY <2>11, <3>2 DEF Reopen, Places
  <2> QED
    BY <1>1, <2>1, <2>2, <2>3, <2>4, <2>5, <2>6, <2>7, <2>8, <2>9, <2>10, <2>11
       DEF ProcStep
<1>2. CASE UNCHANGED vars BY <1>2 DEF vars
<1> QED BY <1>1, <1>2 DEF Next

-------------------------------------------------------------------------------
(* What happens to the log when the lines under one name change.           *)

\* A line is on disk if and only if it is in a file that has a name.
LEMMA OnDiskMember == \A n : n \in OnDisk <=> \E k \in Slots : n \in LinesOf(k)
  BY DEF OnDisk

\* The same in the next state.
LEMMA OnDiskMemberNext ==
  \A n : n \in OnDisk' <=> \E k \in Slots' : n \in LinesOf(k)'
  BY DEF OnDisk

\* A name that keeps its inode, which keeps its content, keeps its lines.
LEMMA SameLines ==
  ASSUME NEW k, dir'[k] = dir[k], dir[k] # NoFile => data'[dir'[k]] = data[dir[k]]
  PROVE  LinesOf(k)' = LinesOf(k)
<1>1. CASE dir[k] = NoFile
  <2>1. LinesOf(k)' = {} BY <1>1 DEF LinesOf
  <2>2. LinesOf(k) = {} BY <1>1 DEF LinesOf
  <2> QED BY <2>1, <2>2
<1>2. CASE dir[k] # NoFile
  <2>1. data'[dir'[k]].lines = data[dir[k]].lines /\ dir'[k] # NoFile BY <1>2
  <2> DEFINE now == data[dir[k]].lines
             next == data'[dir'[k]].lines
  <2>2. LinesOf(k) = {now[i] : i \in 1..Len(now)} BY <1>2 DEF LinesOf
  <2>3. LinesOf(k)' = {next[i] : i \in 1..Len(next)} BY <2>1 DEF LinesOf
  <2>4. next = now BY <2>1
  <2> HIDE DEF now, next
  <2> QED BY <2>2, <2>3, <2>4
<1> QED BY <1>1, <1>2

\* Lines are numbers.
LEMMA LinesAreNumbers ==
  ASSUME TypeOK
  PROVE  \A k \in Slots : LinesOf(k) \subseteq Nat
<1> SUFFICES ASSUME NEW k \in Slots, dir[k] # NoFile PROVE LinesOf(k) \subseteq Nat
  BY DEF LinesOf
<1>1. data[dir[k]].lines \in Seq(Nat)
  BY Behind
<1> QED BY <1>1 DEF LinesOf

\* A history whose files keep their lines keeps its order and has no gap.
LEMMA SameHistory ==
  ASSUME HistoryIsSuffix, UNCHANGED <<keepFiles, lines>>,
         \A k \in Slots : LinesOf(k)' = LinesOf(k)
  PROVE  HistoryIsSuffix' /\ OnDisk' = OnDisk
<1>1. Slots' = Slots BY DEF Slots
<1>2. \A n : n \in OnDisk' <=> n \in OnDisk
  BY <1>1, OnDiskMember, OnDiskMemberNext
<1>3. OnDisk' = OnDisk
  BY <1>2
<1> QED BY <1>1, <1>3 DEF HistoryIsSuffix

\* Dropping the oldest file drops the first lines.
LEMMA OldestDropped ==
  ASSUME TypeOK, HistoryIsSuffix, UNCHANGED <<keepFiles, lines>>,
         LinesOf(keepFiles)' = {},
         \A k \in Slots \ {keepFiles} : LinesOf(k)' = LinesOf(k)
  PROVE  HistoryIsSuffix' /\ OnDisk' \subseteq OnDisk
<1>1. Slots' = Slots /\ keepFiles \in Nat /\ Slots = 0..keepFiles
  BY DEF Slots, TypeOK
<1>2. \A k \in Slots : LinesOf(k)' \subseteq LinesOf(k) /\ LinesOf(k) \subseteq Nat
  BY LinesAreNumbers
<1>3. OnDisk' \subseteq OnDisk
  BY <1>1, <1>2, OnDiskMember, OnDiskMemberNext
<1>4. ASSUME NEW j \in Slots, NEW k \in Slots, j > k,
             NEW m \in LinesOf(j)', NEW n \in LinesOf(k)'
      PROVE  m < n
  BY <1>2, <1>4 DEF HistoryIsSuffix
<1>5. ASSUME NEW m \in OnDisk', NEW n \in m..lines PROVE n \in OnDisk'
  <2>1. PICK j \in Slots \ {keepFiles} : m \in LinesOf(j)
    BY <1>1, OnDiskMemberNext
  <2>2. PICK k \in Slots : n \in LinesOf(k)
    BY <1>3, <1>5, OnDiskMember DEF HistoryIsSuffix
  <2>3. CASE k = keepFiles
    <3>1. keepFiles > j BY <1>1, <2>1
    <3>2. n < m BY <1>1, <2>1, <2>2, <2>3, <3>1 DEF HistoryIsSuffix
    <3> QED BY <1>2, <2>1, <2>2, <3>2
  <2>4. CASE k # keepFiles
    BY <1>1, <2>2, <2>4, OnDiskMemberNext
  <2> QED BY <2>3, <2>4
<1> QED BY <1>1, <1>3, <1>4, <1>5 DEF HistoryIsSuffix

\* A file that moves one place back, onto an empty name or onto the oldest file,
\* leaves the order as it is and drops the first lines at most.
LEMMA FileMoved ==
  ASSUME TypeOK, HistoryIsSuffix, UNCHANGED <<keepFiles, lines>>,
         NEW a \in 0..keepFiles - 1, LinesOf(a + 1) = {} \/ a + 1 = keepFiles,
         LinesOf(a)' = {}, LinesOf(a + 1)' = LinesOf(a),
         \A k \in Slots \ {a, a + 1} : LinesOf(k)' = LinesOf(k)
  PROVE  HistoryIsSuffix' /\ OnDisk' \subseteq OnDisk
<1>1. Slots' = Slots /\ keepFiles \in Nat /\ Slots = 0..keepFiles
      /\ a \in Slots /\ a + 1 \in Slots
  BY DEF Slots, TypeOK
<1> DEFINE From(k) == IF k = a + 1 THEN a ELSE k
<1>2. \A k \in Slots : \A m \in LinesOf(k)' :
        k # a /\ From(k) \in Slots /\ From(k) # a + 1 /\ m \in LinesOf(From(k))
  BY <1>1
<1>3. \A j, k \in Slots \ {a} : j > k => From(j) > From(k)
  BY <1>1
<1>4. \A k \in Slots : LinesOf(k) \subseteq Nat
  BY LinesAreNumbers
<1> HIDE DEF From
<1>5. OnDisk' \subseteq OnDisk
  BY <1>1, <1>2, OnDiskMember, OnDiskMemberNext
<1>6. ASSUME NEW j \in Slots, NEW k \in Slots, j > k,
             NEW m \in LinesOf(j)', NEW n \in LinesOf(k)'
      PROVE  m < n
  BY <1>2, <1>3, <1>6 DEF HistoryIsSuffix
<1>7. ASSUME NEW m \in OnDisk', NEW n \in m..lines PROVE n \in OnDisk'
  <2>1. PICK j \in Slots : j # a + 1 /\ m \in LinesOf(j)
    <3>1. PICK i \in Slots : m \in LinesOf(i)'
      BY <1>1, OnDiskMemberNext
    <3> QED BY <1>2, <3>1
  <2>2. PICK k \in Slots : n \in LinesOf(k)
    BY <1>5, <1>7, OnDiskMember DEF HistoryIsSuffix
  <2>3. CASE k = a + 1
    <3>1. a + 1 = keepFiles BY <2>2, <2>3
    <3>2. k > j BY <1>1, <2>1, <2>3, <3>1
    <3>3. n < m BY <2>1, <2>2, <3>2 DEF HistoryIsSuffix
    <3> QED BY <1>4, <2>1, <2>2, <3>3
  <2>4. CASE k = a
    BY <1>1, <2>2, <2>4, OnDiskMemberNext
  <2>5. CASE k \notin {a, a + 1}
    BY <1>1, <2>2, <2>5, OnDiskMemberNext
  <2> QED BY <2>3, <2>4, <2>5
<1> QED BY <1>1, <1>5, <1>6, <1>7 DEF HistoryIsSuffix

\* The next line goes to the end of the newest file.
LEMMA LineAdded ==
  ASSUME TypeOK, HistoryIsSuffix, \A n \in OnDisk : n <= lines,
         UNCHANGED keepFiles, lines' = lines + 1,
         LinesOf(0)' = LinesOf(0) \cup {lines + 1},
         \A k \in Slots \ {0} : LinesOf(k)' = LinesOf(k)
  PROVE  HistoryIsSuffix' /\ OnDisk' = OnDisk \cup {lines + 1}
<1>1. Slots' = Slots /\ keepFiles \in Nat /\ Slots = 0..keepFiles /\ lines \in Nat
  BY DEF Slots, TypeOK
<1>2. OnDisk' = OnDisk \cup {lines + 1}
  BY <1>1, OnDiskMember, OnDiskMemberNext
<1>3. \A k \in Slots : \A m \in LinesOf(k) : m \in Nat /\ m <= lines
  BY LinesAreNumbers, OnDiskMember
<1>4. ASSUME NEW j \in Slots, NEW k \in Slots, j > k,
             NEW m \in LinesOf(j)', NEW n \in LinesOf(k)'
      PROVE  m < n
  <2>1. m \in LinesOf(j) BY <1>1, <1>4
  <2>2. CASE n \in LinesOf(k) BY <1>4, <2>1, <2>2 DEF HistoryIsSuffix
  <2>3. CASE n = lines + 1 BY <1>1, <1>3, <2>1, <2>3
  <2> QED BY <1>1, <2>2, <2>3
<1>5. ASSUME NEW m \in OnDisk', NEW n \in m..(lines + 1) PROVE n \in OnDisk'
  <2>1. CASE n = lines + 1 BY <1>2, <2>1
  <2>2. CASE n # lines + 1
    <3>1. m \in OnDisk /\ m \in Nat
      BY <1>1, <1>2, <1>3, <2>2, OnDiskMember
    <3>2. n \in m..lines BY <1>1, <2>2, <3>1
    <3> QED BY <1>2, <3>1, <3>2 DEF HistoryIsSuffix
  <2> QED BY <2>1, <2>2
<1> QED BY <1>1, <1>2, <1>4, <1>5 DEF HistoryIsSuffix

-------------------------------------------------------------------------------
(* The invariant, step by step, for a process that has the path to itself. *)

\* Opening audit.jsonl, new or not, leaves the log on disk as it is, and gives
\* the process a handle on it.
LEMMA OpenedInv ==
  ASSUME AuditInv, \A q, r \in Procs : q = r, NEW p \in Procs, OpenActive(p),
         UNCHANGED <<keepFiles, lines>>
  PROVE  /\ HistoryIsSuffix' /\ NumbersInv' /\ OnDisk' = OnDisk
         /\ file'[p] = dir'[0] /\ dir'[0] \in Inodes'
         /\ dir[0] # NoFile => dir' = dir /\ data' = data
         /\ dir[0] = NoFile => data'[dir'[0]] = EmptyFile
         /\ \A j, k \in Slots : dir'[j] # NoFile /\ dir'[j] = dir'[k] => j = k
         /\ \A k \in Slots \ {0} : dir'[k] = dir[k]
         /\ \A i \in Inodes : i \in Inodes' /\ data'[i] = data[i]
<1> TypeOK /\ HistoryIsSuffix /\ NumbersInv BY DEF AuditInv
<1>1. /\ dir \in [Slots -> {NoFile} \cup Inodes] /\ file \in [Procs -> {NoFile} \cup Inodes]
      /\ data \in Seq(Content) /\ 0 \in Slots /\ Len(data) \in Nat
  BY Behind DEF TypeOK
<1>2. \A j, k \in Slots : dir[j] # NoFile /\ dir[j] = dir[k] => j = k
  BY DEF AuditInv, OwnHandle
<1>3. CASE dir[0] # NoFile
  <2>1. UNCHANGED <<dir, data>> /\ file' = [file EXCEPT ![p] = dir[0]]
    BY <1>3 DEF OpenActive
  <2>2. \A k \in Slots : LinesOf(k)' = LinesOf(k)
    BY <2>1 DEF LinesOf
  <2>3. HistoryIsSuffix' /\ OnDisk' = OnDisk
    BY <2>2, SameHistory
  <2>4. NumbersInv'
    BY <2>1, <2>3 DEF NumbersInv, Inodes
  <2> QED BY <1>1, <1>2, <1>3, <2>1, <2>3, <2>4 DEF Inodes
<1>4. CASE dir[0] = NoFile
  <2>1. /\ data' = Append(data, EmptyFile)
        /\ dir' = [dir EXCEPT ![0] = Len(data) + 1]
        /\ file' = [file EXCEPT ![p] = Len(data) + 1]
    BY <1>4 DEF OpenActive
  <2>2. /\ Inodes' = 1..Len(data) + 1 /\ Inodes = 1..Len(data)
        /\ data'[Len(data) + 1] = EmptyFile /\ \A i \in Inodes : data'[i] = data[i]
    BY <1>1, <2>1 DEF Inodes
  <2>3. dir'[0] = Len(data) + 1 /\ \A k \in Slots \ {0} : dir'[k] = dir[k]
    BY <1>1, <2>1
  <2>4. \A k \in Slots \ {0} : LinesOf(k)' = LinesOf(k)
    <3>1. \A k \in Slots \ {0} : dir[k] # NoFile => dir[k] \in Inodes
      BY <1>1
    <3>2. \A k \in Slots \ {0} : dir[k] # NoFile => data'[dir'[k]] = data[dir[k]]
      BY <2>2, <2>3, <3>1
    <3> QED BY <2>3, <3>2, SameLines
  <2>5. LinesOf(0)' = {} /\ LinesOf(0) = {}
    BY <1>4, <2>2, <2>3 DEF LinesOf, EmptyFile, NoFile
  <2>6. HistoryIsSuffix' /\ OnDisk' = OnDisk
    BY <2>4, <2>5, SameHistory
  <2>7. NumbersInv'
    BY <2>2, <2>6, <1>1 DEF NumbersInv, EmptyFile
  <2>8. \A k \in Slots \ {0} : dir'[k] # dir'[0]
    BY <1>1, <2>2, <2>3 DEF NoFile
  <2>9. \A j, k \in Slots : dir'[j] # NoFile /\ dir'[j] = dir'[k] => j = k
    BY <1>2, <2>3, <2>8
  <2>10. dir'[0] \in Inodes' /\ file'[p] = dir'[0] /\ \A i \in Inodes : i \in Inodes'
    BY <1>1, <2>1, <2>2, <2>3
  <2> QED BY <1>4, <2>2, <2>3, <2>6, <2>7, <2>9, <2>10
<1> QED BY <1>3, <1>4

\* A rename within a rotation keeps the invariant's part about what is on disk.
LEMMA MovedInv ==
  ASSUME AuditInv, NEW a \in 0..keepFiles - 1, FreeTarget(a + 1), MoveTo(a, a + 1),
         UNCHANGED <<keepFiles, data, lines>>
  PROVE  /\ HistoryIsSuffix' /\ NumbersInv' /\ dir'[a] = NoFile
         /\ \A j, k \in Slots : dir'[j] # NoFile /\ dir'[j] = dir'[k] => j = k
         /\ \A k \in Slots : dir'[k] # NoFile => \E j \in Slots : dir'[k] = dir[j]
<1> TypeOK /\ HistoryIsSuffix /\ NumbersInv BY DEF AuditInv
<1>1. /\ dir \in [Slots -> {NoFile} \cup Inodes] /\ keepFiles \in Nat
      /\ a \in Slots /\ a + 1 \in Slots
  BY DEF TypeOK, Slots
<1>2. dir'[a] = NoFile /\ dir'[a + 1] = dir[a]
      /\ \A k \in Slots \ {a, a + 1} : dir'[k] = dir[k]
  BY <1>1 DEF MoveTo
<1>3. LinesOf(a)' = {} /\ LinesOf(a + 1)' = LinesOf(a)
      /\ \A k \in Slots \ {a, a + 1} : LinesOf(k)' = LinesOf(k)
  BY <1>2 DEF LinesOf
<1>4. LinesOf(a + 1) = {} \/ a + 1 = keepFiles
  BY DEF FreeTarget, LinesOf
<1>5. HistoryIsSuffix' /\ OnDisk' \subseteq OnDisk
  BY <1>3, <1>4, FileMoved
<1>6. NumbersInv'
  BY <1>5 DEF NumbersInv, Inodes
<1>7. \A j, k \in Slots : dir[j] # NoFile /\ dir[j] = dir[k] => j = k
  BY DEF AuditInv, OwnHandle
<1>8. \A j, k \in Slots : dir'[j] # NoFile /\ dir'[j] = dir'[k] => j = k
  BY <1>1, <1>2, <1>7
<1> QED BY <1>1, <1>2, <1>5, <1>6, <1>8

\* Removing a file that no newer name stands before keeps that part as well.
LEMMA RemovedInv ==
  ASSUME AuditInv, dir' = [dir EXCEPT ![keepFiles] = NoFile],
         UNCHANGED <<keepFiles, data, lines>>
  PROVE  /\ HistoryIsSuffix' /\ NumbersInv' /\ dir'[keepFiles] = NoFile
         /\ \A j, k \in Slots : dir'[j] # NoFile /\ dir'[j] = dir'[k] => j = k
         /\ \A k \in Slots : dir'[k] # NoFile => dir'[k] = dir[k]
<1> TypeOK /\ HistoryIsSuffix /\ NumbersInv BY DEF AuditInv
<1>1. dir \in [Slots -> {NoFile} \cup Inodes] /\ keepFiles \in Slots
  BY Behind DEF TypeOK
<1>2. dir'[keepFiles] = NoFile /\ \A k \in Slots \ {keepFiles} : dir'[k] = dir[k]
  BY <1>1
<1>3. LinesOf(keepFiles)' = {}
      /\ \A k \in Slots \ {keepFiles} : LinesOf(k)' = LinesOf(k)
  BY <1>2 DEF LinesOf
<1>4. HistoryIsSuffix' /\ OnDisk' \subseteq OnDisk
  BY <1>3, OldestDropped
<1>5. NumbersInv'
  BY <1>4 DEF NumbersInv, Inodes
<1>6. \A j, k \in Slots : dir[j] # NoFile /\ dir[j] = dir[k] => j = k
  BY DEF AuditInv, OwnHandle
<1>7. \A j, k \in Slots : dir'[j] # NoFile /\ dir'[j] = dir'[k] => j = k
  BY <1>2, <1>6
<1> QED BY <1>2, <1>4, <1>5, <1>7

\* A line that is written is the newest one of the log.
LEMMA LineWritten ==
  ASSUME AuditInv, NEW p \in Procs, AppendLine(p), file[p] # NoFile
  PROVE  HistoryIsSuffix' /\ OnDisk' = OnDisk \cup {lines + 1}
<1> TypeOK /\ HistoryIsSuffix /\ NumbersInv BY DEF AuditInv
<1>1. UNCHANGED <<keepFiles, dir>> /\ lines' = lines + 1
  BY DEF AppendLine
<1>2. /\ data'[file[p]] = [lines |-> Append(data[file[p]].lines, lines + 1),
                           bytes |-> data[file[p]].bytes + incoming[p]]
      /\ \A i \in Inodes \ {file[p]} : data'[i] = data[i]
  BY Appended
<1>3. file[p] = dir[0] /\ file[p] \in Inodes /\ 0 \in Slots
      /\ \A j, k \in Slots : dir[j] # NoFile /\ dir[j] = dir[k] => j = k
  BY Behind DEF AuditInv, OwnHandle
<1>4. LinesOf(0)' = LinesOf(0) \cup {lines + 1}
  <2>1. data[file[p]].lines \in Seq(Nat) /\ lines \in Nat
    BY <1>3, Behind DEF TypeOK
  <2>2. data'[dir'[0]].lines = Append(data[dir[0]].lines, lines + 1) /\ dir'[0] # NoFile
    BY <1>1, <1>2, <1>3
  <2> DEFINE old == data[dir[0]].lines
             new == data'[dir'[0]].lines
  <2>3. old \in Seq(Nat) /\ new = Append(old, lines + 1) BY <1>3, <2>1, <2>2
  <2> HIDE DEF old, new
  <2>4. {new[i] : i \in 1..Len(new)} = {old[i] : i \in 1..Len(old)} \cup {lines + 1}
    BY <2>1, <2>3
  <2> QED BY <1>3, <2>2, <2>4 DEF LinesOf, old, new
<1>5. \A k \in Slots \ {0} : LinesOf(k)' = LinesOf(k)
  <2>1. \A k \in Slots \ {0} : dir[k] # NoFile => dir[k] \in Inodes \ {file[p]}
    BY <1>3, Behind
  <2>2. \A k \in Slots \ {0} : dir[k] # NoFile => data'[dir'[k]] = data[dir[k]]
    BY <1>1, <1>2, <2>1
  <2> QED BY <1>1, <2>2, SameLines
<1> QED BY <1>1, <1>4, <1>5, LineAdded DEF NumbersInv

\* The size the process keeps is that of the file it has open, a rotation goes
\* on with no file open and the next name free, and the log stays whole.
LEMMA AuditStep ==
  ASSUME \A q, r \in Procs : q = r, AuditInv, [Next]_vars
  PROVE  AuditInv'
<1> TypeOK' BY TypeStep DEF AuditInv
<1> /\ TypeOK /\ RotationInv /\ NumbersInv /\ HistoryIsSuffix
  BY DEF AuditInv
<1>1. /\ at \in [Procs -> Places] /\ file \in [Procs -> {NoFile} \cup Inodes]
      /\ size \in [Procs -> Nat] /\ slot \in [Procs -> Nat]
      /\ incoming \in [Procs -> {0} \cup Sizes] /\ dir \in [Slots -> {NoFile} \cup Inodes]
      /\ keepFiles \in Nat /\ keepFiles \in Slots /\ 0 \in Slots
  BY Behind DEF TypeOK
<1>2. \A j, k \in Slots : dir[j] # NoFile /\ dir[j] = dir[k] => j = k
  BY DEF AuditInv, OwnHandle
<1>3. \A p \in Procs : file[p] # NoFile =>
        file[p] = dir[0] /\ (size[p] = data[file[p]].bytes \/ Unremoved)
  BY DEF AuditInv, OwnHandle
<1>4. ASSUME UNCHANGED <<keepFiles, dir, data, lines>> PROVE HistoryIsSuffix' /\ NumbersInv'
  <2>1. \A k \in Slots : LinesOf(k)' = LinesOf(k) BY <1>4 DEF LinesOf
  <2>2. HistoryIsSuffix' /\ OnDisk' = OnDisk BY <1>4, <2>1, SameHistory
  <2> QED BY <1>4, <2>2 DEF NumbersInv, Inodes
<1>5. ASSUME NEW p \in Procs, ProcStep(p) PROVE AuditInv'
  <2> \A q \in Procs : q = p OBVIOUS
  <2> USE DEF GoTo
  <2>1. CASE Open(p)
    <3>1. OpenActive(p) /\ UNCHANGED <<keepFiles, lines, slot, incoming, disturbed>>
          /\ at'[p] = "idle" /\ size'[p] = SizeFromStat
      BY <1>1, <2>1 DEF Open
    <3>2. /\ HistoryIsSuffix' /\ NumbersInv' /\ file'[p] = dir'[0] /\ dir'[0] \in Inodes'
          /\ dir[0] # NoFile => dir' = dir /\ data' = data
          /\ dir[0] = NoFile => data'[dir'[0]] = EmptyFile
          /\ \A j, k \in Slots : dir'[j] # NoFile /\ dir'[j] = dir'[k] => j = k
      BY <3>1, OpenedInv
    <3>3. size'[p] = data'[file'[p]].bytes
      BY <3>1, <3>2 DEF SizeFromStat, EmptyFile
    <3>4. OwnHandle' BY <3>1, <3>2, <3>3 DEF OwnHandle, Slots
    <3>5. RotationInv' BY <3>1 DEF RotationInv, Rotating
    <3> QED BY <3>2, <3>4, <3>5 DEF AuditInv
  <2>2. CASE Stop(p)
    <3>1. /\ UNCHANGED <<keepFiles, dir, data, lines>>
          /\ at'[p] = "down" /\ file'[p] = NoFile
      BY <1>1, <2>2 DEF Stop
    <3>2. OwnHandle' BY <1>2, <3>1 DEF OwnHandle, Slots
    <3>3. RotationInv' BY <3>1 DEF RotationInv, Rotating
    <3> QED BY <1>4, <3>1, <3>2, <3>3 DEF AuditInv
  <2>3. CASE WriteFits(p)
    <3>1. PICK n \in Sizes : ~WouldExceed(p, n) /\ incoming' = [incoming EXCEPT ![p] = n]
      BY <2>3 DEF WriteFits
    <3>2. /\ UNCHANGED <<keepFiles, dir, data, lines, file, size, slot, disturbed>>
          /\ at'[p] = "append" /\ incoming'[p] = n
      BY <1>1, <2>3, <3>1 DEF WriteFits
    <3>3. OwnHandle' BY <1>2, <1>3, <3>2 DEF OwnHandle, Slots, Unremoved
    <3>4. RotationInv' BY <3>1, <3>2 DEF RotationInv, Rotating, WouldExceed
    <3> QED BY <1>4, <3>2, <3>3, <3>4 DEF AuditInv
  <2>4. CASE WriteRotates(p)
    <3>1. /\ UNCHANGED <<keepFiles, dir, data, lines, size, slot, disturbed>>
          /\ file'[p] = NoFile /\ incoming'[p] \in Sizes
          /\ at'[p] = IF keepFiles > 0 THEN "remove" ELSE "unlink"
      BY <1>1, <2>4 DEF WriteRotates
    <3>2. OwnHandle' BY <1>2, <3>1 DEF OwnHandle, Slots
    <3>3. RotationInv' BY <1>1, <3>1 DEF RotationInv, Rotating
    <3> QED BY <1>4, <3>1, <3>2, <3>3 DEF AuditInv
  <2>5. CASE AppendLine(p) /\ file[p] = NoFile
    <3>1. /\ UNCHANGED <<keepFiles, dir, data, lines, file, size, slot, incoming, disturbed>>
          /\ at'[p] = "idle"
      BY <1>1, <2>5 DEF AppendLine
    <3>2. OwnHandle' BY <1>2, <2>5, <3>1 DEF OwnHandle, Slots
    <3>3. RotationInv' BY <3>1 DEF RotationInv, Rotating
    <3> QED BY <1>4, <3>1, <3>2, <3>3 DEF AuditInv
  <2>6. CASE AppendLine(p) /\ file[p] # NoFile
    <3>1. /\ UNCHANGED <<keepFiles, dir, file, slot, incoming, disturbed>>
          /\ at[p] = "append" /\ at'[p] = "idle" /\ lines' = lines + 1
          /\ size'[p] = size[p] + incoming[p]
      BY <1>1, <2>6 DEF AppendLine
    <3>2. /\ data' \in Seq(Content) /\ Len(data') = Len(data)
          /\ data'[file[p]] = [lines |-> Append(data[file[p]].lines, lines + 1),
                               bytes |-> data[file[p]].bytes + incoming[p]]
          /\ \A i \in Inodes \ {file[p]} : data'[i] = data[i]
      BY <2>6, Appended
    <3>3. file[p] = dir[0] /\ file[p] \in Inodes /\ (size[p] = data[file[p]].bytes \/ Unremoved)
      BY <1>1, <1>3, <2>6
    <3>6. HistoryIsSuffix' /\ OnDisk' = OnDisk \cup {lines + 1}
      BY <2>6, LineWritten
    <3>7. incoming[p] \in Nat \ {0} /\ data[file[p]].bytes \in Nat
      BY <3>1, <3>3, Behind, SizesAssumption DEF RotationInv
    <3>8. NumbersInv'
      <4>1. lines \in Nat /\ \A n \in OnDisk : n <= lines /\ n \in Nat
        BY LinesAreNumbers, OnDiskMember DEF NumbersInv, TypeOK
      <4>2. \A n \in OnDisk' : n <= lines'
        BY <3>1, <3>6, <4>1
      <4>3. ASSUME NEW i \in Inodes', data'[i].bytes = 0 PROVE data'[i].lines = << >>
        <5>1. i \in Inodes BY <3>2 DEF Inodes
        <5>2. i # file[p]
          <6>1. data'[file[p]].bytes = data[file[p]].bytes + incoming[p] BY <3>2
          <6>2. data'[file[p]].bytes # 0 BY <6>1, <3>7
          <6> QED BY <4>3, <6>2
        <5> QED BY <3>2, <4>3, <5>1, <5>2 DEF NumbersInv
      <4> QED BY <4>2, <4>3 DEF NumbersInv
    <3>9. OwnHandle' BY <1>2, <3>1, <3>2, <3>3, <3>7 DEF OwnHandle, Slots, Unremoved
    <3>10. RotationInv' BY <3>1 DEF RotationInv, Rotating
    <3> QED BY <3>6, <3>8, <3>9, <3>10 DEF AuditInv
  <2>7. CASE RemoveOldest(p)
    <3>1. /\ UNCHANGED <<keepFiles, data, lines, file, size, incoming, disturbed>>
          /\ at[p] = "remove" /\ at'[p] = "shift" /\ slot'[p] = keepFiles - 1
          /\ dir' = dir \/ dir' = [dir EXCEPT ![keepFiles] = NoFile]
      BY <1>1, <2>7 DEF RemoveOldest, LastShifted
    <3>2. file[p] = NoFile /\ keepFiles > 0 /\ incoming[p] \in Sizes
      BY <3>1 DEF RotationInv, Rotating
    <3>3. RotationInv' BY <1>1, <3>1, <3>2 DEF RotationInv, Rotating, FreeTarget
    <3>4. CASE dir' = dir
      <4>1. OwnHandle' BY <1>2, <3>1, <3>2, <3>4 DEF OwnHandle, Slots
      <4> QED BY <1>4, <3>1, <3>3, <3>4, <4>1 DEF AuditInv
    <3>5. CASE dir' = [dir EXCEPT ![keepFiles] = NoFile]
      <4>1. /\ HistoryIsSuffix' /\ NumbersInv'
            /\ \A j, k \in Slots : dir'[j] # NoFile /\ dir'[j] = dir'[k] => j = k
        BY <3>1, <3>5, RemovedInv
      <4>2. OwnHandle' BY <3>1, <3>2, <4>1 DEF OwnHandle, Slots
      <4> QED BY <3>3, <4>1, <4>2 DEF AuditInv
    <3> QED BY <3>1, <3>4, <3>5
  <2>8. CASE Shift(p)
    <3>1. /\ UNCHANGED <<keepFiles, data, lines, file, size, incoming, disturbed>>
          /\ at[p] = "shift" /\ at'[p] = AfterShift(p)
          /\ slot'[p] = IF slot[p] > 0 THEN slot[p] - 1 ELSE 0
      BY <1>1, <2>8 DEF Shift
    <3>2. /\ file[p] = NoFile /\ keepFiles > 0 /\ incoming[p] \in Sizes /\ slot[p] \in Nat
          /\ slot[p] < keepFiles /\ FreeTarget(slot[p] + 1)
      BY <1>1, <3>1 DEF RotationInv, Rotating
    <3>3. CASE slot[p] >= 1 /\ dir[slot[p]] # NoFile
      <4>1. MoveTo(slot[p], slot[p] + 1) BY <2>8, <3>3 DEF Shift
      <4>2. slot[p] \in 0..keepFiles - 1 BY <1>1, <3>2
      <4>3. /\ HistoryIsSuffix' /\ NumbersInv' /\ dir'[slot[p]] = NoFile
            /\ \A j, k \in Slots : dir'[j] # NoFile /\ dir'[j] = dir'[k] => j = k
        BY <3>1, <3>2, <4>1, <4>2, MovedInv
      <4>4. OwnHandle' BY <3>1, <3>2, <4>3 DEF OwnHandle, Slots
      <4>5. (at'[p] = "shift" /\ slot[p] > 1) \/ (at'[p] = "rename" /\ slot[p] = 1)
        BY <3>1, <3>2, <3>3 DEF AfterShift
      <4>6. /\ at'[p] = "shift" => slot'[p] < keepFiles /\ (FreeTarget(slot[p] + 1))'
            /\ at'[p] = "rename" => FreeTarget(1)'
        <5>1. slot'[p] = slot[p] - 1 BY <3>1, <3>2, <3>3
        <5>2. slot'[p] + 1 = slot[p] BY <3>2, <5>1
        <5>3. dir'[slot'[p] + 1] = NoFile BY <4>3, <5>2, Zenon
        <5>4. (FreeTarget(slot[p] + 1))' BY <5>3, Zenon DEF FreeTarget
        <5>5. slot'[p] < keepFiles BY <1>1, <3>2, <5>1
        <5>6. at'[p] = "rename" => FreeTarget(1)'
          BY <3>2, <4>3, <4>5 DEF FreeTarget
        <5> QED BY <5>4, <5>5, <5>6
      <4>7. RotationInv'
        BY <3>1, <3>2, <4>5, <4>6 DEF RotationInv, Rotating
      <4> QED BY <4>3, <4>4, <4>7 DEF AuditInv
    <3>4. CASE ~(slot[p] >= 1 /\ dir[slot[p]] # NoFile)
      <4>1. dir' = dir BY <2>8, <3>4, Zenon DEF Shift
      <4>2. OwnHandle' BY <1>2, <3>1, <3>2, <4>1 DEF OwnHandle, Slots
      <4>3. /\ slot[p] > 1 => at'[p] = "shift" /\ slot'[p] = slot[p] - 1
            /\ slot[p] <= 1 => at'[p] = "rename" /\ (slot[p] = 0 \/ dir[1] = NoFile)
        BY <3>1, <3>2, <3>4 DEF AfterShift
      <4>4. ASSUME slot[p] > 1 PROVE slot'[p] < keepFiles' /\ (FreeTarget(slot[p] + 1))'
        <5>1. slot'[p] = slot[p] - 1 BY <4>3, <4>4
        <5>2. slot'[p] + 1 = slot[p] BY <3>2, <5>1
        <5>3. dir'[slot[p]] = NoFile BY <3>2, <3>4, <4>1, <4>4
        <5>4. dir'[slot'[p] + 1] = NoFile BY <5>2, <5>3, Zenon
        <5>5. (FreeTarget(slot[p] + 1))' BY <5>4, Zenon DEF FreeTarget
        <5>6. slot'[p] < keepFiles' BY <1>1, <3>1, <3>2, <5>1
        <5> QED BY <5>5, <5>6
      <4>5. ASSUME slot[p] <= 1 PROVE FreeTarget(1)'
        BY <3>1, <3>2, <4>1, <4>3, <4>5 DEF FreeTarget
      <4>6. RotationInv'
        <5>1. slot[p] > 1 \/ slot[p] <= 1 BY <3>2
        <5> QED BY <3>1, <3>2, <4>3, <4>4, <4>5, <5>1 DEF RotationInv, Rotating
      <4> QED BY <1>4, <3>1, <4>1, <4>2, <4>6 DEF AuditInv
    <3> QED BY <3>3, <3>4
  <2>9. CASE RotateFails(p)
    <3>1. /\ UNCHANGED <<keepFiles, dir, data, lines, file, size, incoming>>
          /\ at[p] \in Rotating /\ at'[p] = "idle"
      BY <1>1, <2>9 DEF RotateFails, GiveUp, Rotating
    <3>2. file[p] = NoFile BY <3>1 DEF RotationInv
    <3>3. OwnHandle' BY <1>2, <3>1, <3>2 DEF OwnHandle, Slots
    <3>4. RotationInv' BY <3>1 DEF RotationInv, Rotating
    <3> QED BY <1>4, <3>1, <3>3, <3>4 DEF AuditInv
  <2>10. CASE RenameActive(p)
    <3>1. /\ UNCHANGED <<keepFiles, data, lines, file, size, slot, incoming, disturbed>>
          /\ at[p] = "rename" /\ at'[p] = "reopen"
      BY <1>1, <2>10 DEF RenameActive
    <3>2. file[p] = NoFile /\ keepFiles > 0 /\ incoming[p] \in Sizes /\ FreeTarget(1)
      BY <3>1 DEF RotationInv, Rotating
    <3>3. CASE dir[0] # NoFile
      <4>1. MoveTo(0, 0 + 1) BY <2>10, <3>3 DEF RenameActive
      <4>2. 0 \in 0..keepFiles - 1 /\ FreeTarget(0 + 1) BY <1>1, <3>2
      <4>3. /\ HistoryIsSuffix' /\ NumbersInv' /\ dir'[0] = NoFile
            /\ \A j, k \in Slots : dir'[j] # NoFile /\ dir'[j] = dir'[k] => j = k
        BY <3>1, <4>1, <4>2, MovedInv
      <4>4. OwnHandle' BY <3>1, <3>2, <4>3 DEF OwnHandle, Slots
      <4>5. RotationInv' BY <3>1, <3>2, <4>3 DEF RotationInv, Rotating
      <4> QED BY <4>3, <4>4, <4>5 DEF AuditInv
    <3>4. CASE dir[0] = NoFile
      <4>1. dir' = dir BY <2>10, <3>4 DEF RenameActive
      <4>2. OwnHandle' BY <1>2, <3>1, <3>2, <4>1 DEF OwnHandle, Slots
      <4>3. RotationInv' BY <3>1, <3>2, <3>4, <4>1 DEF RotationInv, Rotating
      <4> QED BY <1>4, <3>1, <4>1, <4>2, <4>3 DEF AuditInv
    <3> QED BY <3>3, <3>4
  <2>11. CASE UnlinkActive(p)
    <3>1. /\ UNCHANGED <<keepFiles, data, lines, file, size, slot, incoming>>
          /\ at[p] = "unlink" /\ at'[p] = "reopen"
          /\ \/ dir' = [dir EXCEPT ![0] = NoFile]
             \/ dir' = dir /\ disturbed' = TRUE
      BY <1>1, <2>11 DEF UnlinkActive
    <3>2. file[p] = NoFile /\ keepFiles = 0 /\ incoming[p] \in Sizes
      BY <3>1 DEF RotationInv, Rotating
    <3>3. CASE dir' = [dir EXCEPT ![0] = NoFile]
      <4>1. /\ HistoryIsSuffix' /\ NumbersInv' /\ dir'[0] = NoFile
            /\ \A j, k \in Slots : dir'[j] # NoFile /\ dir'[j] = dir'[k] => j = k
        BY <3>1, <3>2, <3>3, RemovedInv
      <4>2. OwnHandle' BY <3>1, <3>2, <4>1 DEF OwnHandle, Slots
      <4>3. RotationInv' BY <3>1, <3>2, <4>1 DEF RotationInv, Rotating
      <4> QED BY <4>1, <4>2, <4>3 DEF AuditInv
    <3>4. CASE dir' = dir /\ disturbed' = TRUE
      <4>1. OwnHandle' BY <1>2, <3>1, <3>2, <3>4 DEF OwnHandle, Slots
      <4>2. RotationInv' BY <3>1, <3>2, <3>4 DEF RotationInv, Rotating, Unremoved
      <4> QED BY <1>4, <3>1, <3>4, <4>1, <4>2 DEF AuditInv
    <3> QED BY <3>1, <3>3, <3>4
  <2>12. CASE Reopen(p)
    <3>1. /\ OpenActive(p) /\ UNCHANGED <<keepFiles, lines, slot, incoming, disturbed>>
          /\ at[p] = "reopen" /\ at'[p] = "append" /\ size'[p] = 0
      BY <1>1, <2>12 DEF Reopen
    <3>2. /\ HistoryIsSuffix' /\ NumbersInv' /\ file'[p] = dir'[0] /\ dir'[0] \in Inodes'
          /\ dir[0] = NoFile => data'[dir'[0]] = EmptyFile
          /\ \A j, k \in Slots : dir'[j] # NoFile /\ dir'[j] = dir'[k] => j = k
      BY <3>1, OpenedInv
    <3>3. (dir[0] = NoFile \/ Unremoved) /\ incoming[p] \in Sizes
      BY <3>1 DEF RotationInv, Rotating
    <3>4. OwnHandle' BY <3>1, <3>2, <3>3 DEF OwnHandle, Slots, EmptyFile, Unremoved
    <3>5. RotationInv' BY <3>1, <3>3 DEF RotationInv, Rotating, WouldExceed
    <3> QED BY <3>2, <3>4, <3>5 DEF AuditInv
  <2> QED
    BY <1>5, <2>1, <2>2, <2>3, <2>4, <2>5, <2>6, <2>7, <2>8, <2>9, <2>10, <2>11, <2>12
       DEF ProcStep
<1>6. CASE UNCHANGED vars
  <2>1. OwnHandle' /\ RotationInv'
    BY <1>2, <1>3, <1>6 DEF vars, OwnHandle, Slots, Unremoved, RotationInv, FreeTarget, WouldExceed
  <2> QED BY <1>4, <1>6, <2>1 DEF vars, AuditInv
<1> QED BY <1>5, <1>6 DEF Next

\* Before the first process opens it there is no log.
LEMMA AuditInit == Init => AuditInv
<1> SUFFICES ASSUME Init PROVE AuditInv
  OBVIOUS
<1>1. TypeOK
  <2>1. data = << >> /\ << >> \in Seq(Content)
    BY DEF Init
  <2> QED BY <2>1 DEF Init, TypeOK, NoFile, Places
<1>a. /\ \A p \in Procs : at[p] = "down" /\ file[p] = NoFile
      /\ \A k \in Slots : dir[k] = NoFile
  BY DEF Init
<1>b. OwnHandle BY <1>a DEF OwnHandle
<1>c. RotationInv BY <1>a DEF RotationInv, Rotating
<1>2. \A k \in Slots : LinesOf(k) = {}
  BY DEF Init, LinesOf
<1>3. OnDisk = {} /\ Inodes = {}
  BY <1>2, OnDiskMember DEF Init, Inodes
<1> QED BY <1>1, <1>a, <1>b, <1>c, <1>2, <1>3 DEF AuditInv, NumbersInv, HistoryIsSuffix

-------------------------------------------------------------------------------
(* The size of the files.                                                  *)

\* A step that only moves and removes names keeps every file within the limit.
LEMMA CapKept ==
  ASSUME FilesUnderCap, UNCHANGED <<keepFiles, data>>, Unremoved => Unremoved',
         \A k \in Slots : dir'[k] # NoFile => \E j \in Slots : dir'[k] = dir[j]
  PROVE  FilesUnderCap'
<1> SUFFICES ASSUME MaxBytes > 0, ~Unremoved', NEW k \in Slots, dir'[k] # NoFile
             PROVE  data[dir'[k]].bytes <= MaxBytes \/ Len(data[dir'[k]].lines) = 1
  BY DEF FilesUnderCap, Slots
<1>1. PICK j \in Slots : dir'[k] = dir[j]
  OBVIOUS
<1> QED BY <1>1 DEF FilesUnderCap

\* A new audit.jsonl is empty.
LEMMA CapOpened ==
  ASSUME AuditInv, \A q, r \in Procs : q = r, NEW p \in Procs, OpenActive(p),
         UNCHANGED <<keepFiles, lines, disturbed>>, FilesUnderCap
  PROVE  FilesUnderCap'
<1> SUFFICES ASSUME MaxBytes > 0, ~Unremoved, NEW k \in Slots, dir'[k] # NoFile
             PROVE  data'[dir'[k]].bytes <= MaxBytes \/ Len(data'[dir'[k]].lines) = 1
  BY DEF FilesUnderCap, Slots, Unremoved
<1>1. /\ dir[0] # NoFile => dir' = dir /\ data' = data
      /\ dir[0] = NoFile => data'[dir'[0]] = EmptyFile
      /\ \A j \in Slots \ {0} : dir'[j] = dir[j]
      /\ \A i \in Inodes : i \in Inodes' /\ data'[i] = data[i]
  BY OpenedInv
<1>2. CASE dir[0] = NoFile /\ k = 0
  BY <1>1, <1>2 DEF EmptyFile
<1>3. CASE dir[0] # NoFile \/ k # 0
  <2>1. dir'[k] = dir[k]
    BY <1>1, <1>3
  <2>2. dir[k] \in Inodes
    BY <2>1, Behind DEF AuditInv
  <2>3. data'[dir'[k]] = data[dir[k]]
    BY <1>1, <2>1, <2>2
  <2>4. data[dir[k]].bytes <= MaxBytes \/ Len(data[dir[k]].lines) = 1
    BY <2>1 DEF FilesUnderCap
  <2> QED BY <2>3, <2>4
<1> QED BY <1>2, <1>3

\* A line that is appended fits, or it is the first of its file.
LEMMA CapAppended ==
  ASSUME AuditInv, NEW p \in Procs, AppendLine(p), FilesUnderCap
  PROVE  FilesUnderCap'
<1> TypeOK /\ OwnHandle /\ RotationInv /\ NumbersInv
  BY DEF AuditInv
<1>1. UNCHANGED <<keepFiles, dir, file, disturbed>> /\ at[p] = "append"
  BY DEF AppendLine
<1>2. CASE file[p] = NoFile
  BY <1>1, <1>2 DEF AppendLine, FilesUnderCap, Slots, Unremoved
<1>3. CASE file[p] # NoFile
  <2> SUFFICES ASSUME MaxBytes > 0, ~Unremoved, NEW k \in Slots, dir[k] # NoFile
               PROVE  data'[dir[k]].bytes <= MaxBytes \/ Len(data'[dir[k]].lines) = 1
    BY <1>1 DEF FilesUnderCap, Slots, Unremoved
  <2>1. /\ data'[file[p]] = [lines |-> Append(data[file[p]].lines, lines + 1),
                             bytes |-> data[file[p]].bytes + incoming[p]]
        /\ \A i \in Inodes \ {file[p]} : data'[i] = data[i]
    BY <1>3, Appended
  <2>2. file[p] \in Inodes /\ dir[k] \in Inodes /\ size[p] = data[file[p]].bytes
        /\ data[file[p]].bytes \in Nat /\ incoming[p] \in Nat
        /\ data[file[p]].lines \in Seq(Nat)
    BY <1>3, Behind DEF OwnHandle
  <2>3. CASE dir[k] # file[p]
    BY <2>1, <2>2, <2>3 DEF FilesUnderCap
  <2>4. CASE dir[k] = file[p]
    <3>1. ~WouldExceed(p, incoming[p])
      BY <1>1, <1>3 DEF RotationInv
    <3>2. CASE size[p] = 0
      <4>1. data[file[p]].lines = << >>
        BY <2>2, <3>2 DEF NumbersInv
      <4>2. data'[dir[k]].lines = Append(<< >>, lines + 1)
        BY <2>1, <2>4, <4>1
      <4>3. Len(Append(<< >>, lines + 1)) = 1
        OBVIOUS
      <4> QED BY <4>2, <4>3
    <3>3. CASE size[p] # 0
      <4>1. data[file[p]].bytes + incoming[p] <= MaxBytes
        BY <2>2, <3>1, <3>3 DEF WouldExceed
      <4>2. data'[dir[k]].bytes = data[file[p]].bytes + incoming[p]
        BY <2>1, <2>4
      <4> QED BY <4>1, <4>2
    <3> QED BY <3>2, <3>3
  <2> QED BY <2>3, <2>4
<1> QED BY <1>2, <1>3

\* Every step keeps the files within the limit.
LEMMA CapStep ==
  ASSUME \A q, r \in Procs : q = r, AuditInv, FilesUnderCap, [Next]_vars
  PROVE  FilesUnderCap'
<1> TypeOK /\ RotationInv
  BY DEF AuditInv
<1>1. keepFiles \in Slots /\ 0 \in Slots /\ keepFiles \in Nat
      /\ dir \in [Slots -> {NoFile} \cup Inodes]
  BY Behind DEF TypeOK
<1>2. ASSUME UNCHANGED <<keepFiles, dir, data>>, Unremoved => Unremoved'
      PROVE  FilesUnderCap'
  BY <1>2, CapKept
<1>3. ASSUME NEW k \in Slots, dir' = [dir EXCEPT ![k] = NoFile],
             UNCHANGED <<keepFiles, data>>, Unremoved => Unremoved'
      PROVE  FilesUnderCap'
  <2>1. \A j \in Slots : dir'[j] # NoFile => dir'[j] = dir[j]
    BY <1>1, <1>3
  <2> QED BY <1>3, <2>1, CapKept
<1>4. ASSUME NEW a \in 0..keepFiles - 1, MoveTo(a, a + 1),
             UNCHANGED <<keepFiles, data, disturbed>>
      PROVE  FilesUnderCap'
  <2>1. a \in Slots /\ a + 1 \in Slots
    BY <1>1 DEF Slots
  <2>2. \A j \in Slots : dir'[j] # NoFile => dir'[j] = dir[a] \/ dir'[j] = dir[j]
    BY <1>1, <1>4, <2>1 DEF MoveTo
  <2>3. \A j \in Slots : dir'[j] # NoFile => \E i \in Slots : dir'[j] = dir[i]
    BY <2>1, <2>2
  <2> QED BY <1>4, <2>3, CapKept DEF Unremoved
<1>5. ASSUME NEW p \in Procs, ProcStep(p) PROVE FilesUnderCap'
  <2>1. CASE Open(p) BY <2>1, CapOpened DEF Open
  <2>2. CASE Stop(p) BY <1>2, <2>2 DEF Stop, Unremoved
  <2>3. CASE WriteFits(p) BY <1>2, <2>3 DEF WriteFits, Unremoved
  <2>4. CASE WriteRotates(p) BY <1>2, <2>4 DEF WriteRotates, Unremoved
  <2>5. CASE AppendLine(p) BY <2>5, CapAppended
  <2>6. CASE RemoveOldest(p)
    BY <1>1, <1>2, <1>3, <2>6 DEF RemoveOldest, Unremoved
  <2>7. CASE Shift(p)
    <3>1. UNCHANGED <<keepFiles, data, disturbed>> /\ slot[p] \in 0..keepFiles - 1
      BY <1>1, <2>7 DEF Shift, RotationInv, TypeOK
    <3>2. UNCHANGED dir \/ MoveTo(slot[p], slot[p] + 1)
      BY <2>7, Zenon DEF Shift
    <3> QED BY <1>2, <1>4, <3>1, <3>2 DEF Unremoved
  <2>8. CASE RotateFails(p) BY <1>2, <2>8 DEF RotateFails, Unremoved
  <2>9. CASE RenameActive(p)
    <3>1. UNCHANGED <<keepFiles, data, disturbed>> /\ 0 \in 0..keepFiles - 1
      BY <1>1, <2>9 DEF RenameActive, RotationInv
    <3>2. UNCHANGED dir \/ MoveTo(0, 0 + 1)
      BY <2>9 DEF RenameActive
    <3> QED BY <1>2, <1>4, <3>1, <3>2 DEF Unremoved
  <2>10. CASE UnlinkActive(p)
    <3>1. UNCHANGED <<keepFiles, data>> /\ (Unremoved => Unremoved')
      BY <2>10 DEF UnlinkActive, Unremoved
    <3> QED BY <1>1, <1>2, <1>3, <2>10, <3>1 DEF UnlinkActive
  <2>11. CASE Reopen(p) BY <2>11, CapOpened DEF Reopen
  <2> QED
    BY <1>5, <2>1, <2>2, <2>3, <2>4, <2>5, <2>6, <2>7, <2>8, <2>9, <2>10, <2>11
       DEF ProcStep
<1>6. CASE UNCHANGED vars BY <1>2, <1>6 DEF vars, Unremoved
<1> QED BY <1>5, <1>6 DEF Next

-------------------------------------------------------------------------------
(* What is dropped: only a file beyond the keep horizon.                   *)

\* A step that renames nothing and writes nothing leaves the same lines on disk.
LEMMA NothingDropped ==
  ASSUME UNCHANGED <<keepFiles, dir, data>>
  PROVE  OnDisk' = OnDisk
<1>1. Slots' = Slots BY DEF Slots
<1>2. \A k : LinesOf(k)' = LinesOf(k) BY SameLines
<1>3. \A n : n \in OnDisk' <=> n \in OnDisk
  BY <1>1, <1>2, OnDiskMember, OnDiskMemberNext
<1> QED BY <1>3

\* A file renamed to a free name takes its lines with it, and no other is lost.
LEMMA FreeMove ==
  ASSUME TypeOK, NEW a \in 0..keepFiles - 1, dir[a + 1] = NoFile, MoveTo(a, a + 1),
         UNCHANGED <<keepFiles, data>>
  PROVE  OnDisk' = OnDisk
<1>1. /\ dir \in [Slots -> {NoFile} \cup Inodes] /\ keepFiles \in Nat
      /\ a \in Slots /\ a + 1 \in Slots /\ a # a + 1 /\ Slots' = Slots
  BY DEF TypeOK, Slots
<1>2. dir'[a] = NoFile /\ dir'[a + 1] = dir[a]
      /\ \A k \in Slots \ {a, a + 1} : dir'[k] = dir[k]
  BY <1>1 DEF MoveTo
<1>3. LinesOf(a)' = {} /\ LinesOf(a + 1) = {} /\ LinesOf(a + 1)' = LinesOf(a)
      /\ \A k \in Slots \ {a, a + 1} : LinesOf(k)' = LinesOf(k)
  BY <1>2 DEF LinesOf
<1>4. \A n : n \in OnDisk' <=> n \in OnDisk
  <2>1. ASSUME NEW n, n \in OnDisk PROVE n \in OnDisk'
    <3>1. PICK k \in Slots : n \in LinesOf(k) BY <2>1, OnDiskMember
    <3>2. CASE k = a BY <1>1, <1>3, <3>1, <3>2, OnDiskMemberNext
    <3>3. CASE k # a BY <1>1, <1>3, <3>1, <3>3, OnDiskMemberNext
    <3> QED BY <3>2, <3>3
  <2>2. ASSUME NEW n, n \in OnDisk' PROVE n \in OnDisk
    <3>1. PICK k \in Slots : n \in LinesOf(k)' BY <1>1, <2>2, OnDiskMemberNext
    <3>2. CASE k = a + 1 BY <1>1, <1>3, <3>1, <3>2, OnDiskMember
    <3>3. CASE k # a + 1 BY <1>1, <1>3, <3>1, <3>3, OnDiskMember
    <3> QED BY <3>2, <3>3
  <2> QED BY <2>1, <2>2
<1> QED BY <1>4

\* The copies stay without a gap, and a file is only dropped for one that takes
\* its place among KeepFiles others.
LEMMA HorizonStep ==
  ASSUME \A q, r \in Procs : q = r, AuditInv, HorizonInv, [Next]_vars
  PROVE  HorizonInv'
<1> TypeOK /\ OwnHandle /\ RotationInv BY DEF AuditInv
<1>1. /\ at \in [Procs -> Places] /\ slot \in [Procs -> Nat] /\ keepFiles \in Nat
      /\ dir \in [Slots -> {NoFile} \cup Inodes] /\ lines \in Nat
      /\ Slots = 0..keepFiles /\ 0 \in Slots /\ keepFiles \in Slots
  BY Behind DEF TypeOK, Slots
<1>2. ASSUME UNCHANGED vars PROVE HorizonInv'
  BY <1>2, NothingDropped DEF vars, HorizonInv, Copies, NextFree
<1>3. ASSUME NEW p \in Procs, ProcStep(p), ~disturbed' PROVE HorizonInv'
  <2> \A q \in Procs : q = p BY <1>3
  <2> USE DEF GoTo
  <2>1. ~disturbed /\ UNCHANGED keepFiles
    <3>1. disturbed \in BOOLEAN /\ disturbed' \in BOOLEAN
      BY <1>3, TypeStep DEF AuditInv, TypeOK, Next
    <3>2. UNCHANGED keepFiles /\ (disturbed => disturbed')
      <4> USE DEF ProcStep, Open, Stop, WriteFits, WriteRotates, AppendLine,
                  RemoveOldest, Shift, RotateFails, RenameActive, UnlinkActive, Reopen
      <4>1. UNCHANGED keepFiles BY <1>3, Zenon
      <4>2. disturbed => disturbed' BY <1>3, Zenon
      <4> QED BY <4>1, <4>2
    <3> QED BY <1>3, <3>1, <3>2
  <2>2. /\ at[p] \in {"remove", "shift", "rename"} => dir[0] # NoFile
        /\ \A j, k \in Copies(p) : j < k /\ dir[k] # NoFile => dir[j] # NoFile
        /\ OnDisk # 1..lines => \A k \in Copies(p) : dir[k] # NoFile
        /\ NextFree(p) # 0 /\ NextFree(p) = keepFiles /\ dir[keepFiles] # NoFile =>
             \A k \in Copies(p) : dir[k] # NoFile
    BY <2>1 DEF HorizonInv
  <2>3. ASSUME at'[p] \in {"remove", "shift", "rename"} => dir'[0] # NoFile,
               \A j, k \in Copies(p)' : j < k /\ dir'[k] # NoFile => dir'[j] # NoFile,
               OnDisk' # 1..lines' => \A k \in Copies(p)' : dir'[k] # NoFile,
               NextFree(p)' # 0 /\ NextFree(p)' = keepFiles /\ dir'[keepFiles] # NoFile =>
                 \A k \in Copies(p)' : dir'[k] # NoFile
        PROVE  HorizonInv'
    BY <2>1, <2>3 DEF HorizonInv
  \* Steps outside the loop of a rotation, which rename no copy.
  <2>4. ASSUME at[p] \notin {"shift", "rename"}, at'[p] \notin {"shift", "rename"},
               at'[p] = "remove" => dir'[0] # NoFile,
               \A k \in 1..keepFiles : dir'[k] = dir[k],
               OnDisk' # 1..lines' => OnDisk # 1..lines
        PROVE  HorizonInv'
    <3>1. NextFree(p) = 0 /\ NextFree(p)' = 0
      BY <2>4 DEF NextFree
    <3>2. Copies(p) = 1..keepFiles /\ Copies(p)' = 1..keepFiles
      BY <1>1, <2>1, <3>1 DEF Copies
    <3> QED BY <2>2, <2>3, <2>4, <3>1, <3>2
  <2>5. CASE Open(p) \/ Reopen(p)
    <3>1. /\ OpenActive(p) /\ UNCHANGED <<keepFiles, lines>>
          /\ at[p] \in {"down", "reopen"} /\ at'[p] \in {"idle", "append"}
      BY <1>1, <2>5 DEF Open, Reopen
    <3>2. OnDisk' = OnDisk /\ \A k \in Slots \ {0} : dir'[k] = dir[k]
      BY <3>1, OpenedInv
    <3> QED BY <1>1, <2>4, <3>1, <3>2
  <2>6. CASE Stop(p) \/ WriteFits(p) \/ WriteRotates(p)
    <3>1. /\ UNCHANGED <<keepFiles, dir, data, lines>>
          /\ at[p] \notin Rotating /\ at'[p] \in {"down", "append", "remove", "unlink"}
      BY <1>1, <1>3, <2>6 DEF Stop, WriteFits, WriteRotates, Rotating
    <3>2. at'[p] = "remove" => dir[0] # NoFile
      BY <1>1, <2>6 DEF Stop, WriteFits, WriteRotates, OwnHandle
    <3>3. OnDisk' = OnDisk
      BY <3>1, NothingDropped
    <3> QED BY <2>4, <3>1, <3>2, <3>3 DEF Rotating
  <2>7. CASE AppendLine(p)
    <3>1. UNCHANGED <<keepFiles, dir>> /\ at[p] = "append" /\ at'[p] = "idle"
      BY <1>1, <2>7 DEF AppendLine
    <3>2. OnDisk' # 1..lines' => OnDisk # 1..lines
      <4>1. CASE file[p] = NoFile
        <5>1. UNCHANGED <<data, lines>> BY <2>7, <4>1 DEF AppendLine
        <5> QED BY <3>1, <5>1, NothingDropped
      <4>2. CASE file[p] # NoFile
        <5>1. OnDisk' = OnDisk \cup {lines + 1} /\ lines' = lines + 1
          BY <2>7, <4>2, LineWritten DEF AppendLine
        <5> QED BY <1>1, <5>1
      <4> QED BY <4>1, <4>2
    <3> QED BY <2>4, <3>1, <3>2
  <2>8. CASE RemoveOldest(p)
    <3>1. /\ UNCHANGED <<keepFiles, data, lines>> /\ keepFiles > 0
          /\ at[p] = "remove" /\ at'[p] = "shift" /\ slot'[p] = keepFiles - 1
          /\ dir' = dir \/ dir' = [dir EXCEPT ![keepFiles] = NoFile]
      BY <1>1, <2>8 DEF RemoveOldest, LastShifted, RotationInv
    <3>2. NextFree(p) = 0 /\ NextFree(p)' = keepFiles
      BY <1>1, <3>1 DEF NextFree
    <3>3. Copies(p) = 1..keepFiles /\ Copies(p)' = 1..keepFiles - 1
      BY <1>1, <3>1, <3>2 DEF Copies
    <3>4. /\ \A k \in 0..keepFiles - 1 : dir'[k] = dir[k]
          /\ dir'[keepFiles] # NoFile => dir' = dir
      BY <1>1, <3>1
    <3>5. dir[keepFiles] # NoFile => \A k \in 1..keepFiles : dir[k] # NoFile
      BY <1>1, <2>2, <3>1, <3>3
    <3>6. dir[keepFiles] = NoFile => OnDisk' = OnDisk
      <4>1. dir[keepFiles] = NoFile => dir' = dir
        BY <1>1, <3>1
      <4> QED BY <3>1, <4>1, NothingDropped
    <3>7. OnDisk' # 1..lines' => \A k \in 1..keepFiles - 1 : dir'[k] # NoFile
      BY <1>1, <2>2, <3>1, <3>3, <3>4, <3>5, <3>6
    <3>8. \A j, k \in 1..keepFiles - 1 : j < k /\ dir'[k] # NoFile => dir'[j] # NoFile
      BY <1>1, <2>2, <3>3, <3>4
    <3>9. dir'[keepFiles] # NoFile => \A k \in 1..keepFiles - 1 : dir'[k] # NoFile
      BY <1>1, <3>4, <3>5
    <3>10. dir'[0] # NoFile
      BY <1>1, <2>2, <3>1, <3>4
    <3> QED BY <2>3, <3>1, <3>2, <3>3, <3>7, <3>8, <3>9, <3>10
  <2>9. CASE Shift(p)
    <3>1. /\ UNCHANGED <<keepFiles, data, lines>> /\ at[p] = "shift"
          /\ at'[p] = AfterShift(p)
          /\ slot'[p] = IF slot[p] > 0 THEN slot[p] - 1 ELSE 0
          /\ slot[p] \in 0..keepFiles - 1 /\ FreeTarget(slot[p] + 1)
      BY <1>1, <2>9 DEF Shift, RotationInv
    <3> DEFINE s == slot[p]
    <3>2. NextFree(p) = s + 1 /\ NextFree(p)' = IF s = 0 THEN 1 ELSE s
      BY <1>1, <3>1 DEF NextFree, AfterShift
    <3>3. Copies(p) = (1..keepFiles) \ {s + 1}
          /\ Copies(p)' = (1..keepFiles) \ {IF s = 0 THEN 1 ELSE s}
      BY <2>1, <3>2 DEF Copies
    <3>4. s \in Nat /\ s < keepFiles
      BY <1>1, <3>1
    <3>5. CASE s >= 1 /\ dir[s] # NoFile
      <4>1. MoveTo(s, s + 1)
        BY <2>9, <3>5 DEF Shift
      <4>2. /\ dir'[s] = NoFile /\ dir'[s + 1] = dir[s]
            /\ \A k \in Slots \ {s, s + 1} : dir'[k] = dir[k]
        BY <1>1, <3>4, <4>1 DEF MoveTo
      <4>3. \A k \in Copies(p)' : k # s + 1 => k \in Copies(p) /\ dir'[k] = dir[k]
        BY <1>1, <3>3, <3>4, <3>5, <4>2
      <4>4. dir'[s + 1] # NoFile /\ s \in Copies(p)
        <5>1. s \in (1..keepFiles) \ {s + 1} BY <1>1, <3>4, <3>5
        <5> QED BY <3>3, <3>5, <4>2, <5>1, Zenon
      <4>5. ASSUME NEW j \in Copies(p)', NEW k \in Copies(p)', j < k, dir'[k] # NoFile
            PROVE  dir'[j] # NoFile
        <5>1. CASE j = s + 1 BY <4>4, <5>1
        <5>2. CASE j # s + 1 /\ k = s + 1
          <6>1. j < s /\ j \in Copies(p)
            BY <3>3, <3>4, <3>5, <4>3, <4>5, <5>2
          <6> QED BY <2>2, <3>5, <4>3, <4>4, <5>2, <6>1
        <5>3. CASE j # s + 1 /\ k # s + 1
          BY <2>2, <4>3, <4>5, <5>3
        <5> QED BY <5>1, <5>2, <5>3
      <4>6. OnDisk' # 1..lines => \A k \in Copies(p) : dir[k] # NoFile
        <5>1. CASE dir[s + 1] = NoFile
          <6>1. OnDisk' = OnDisk
            BY <3>1, <4>1, <5>1, FreeMove
          <6> QED BY <2>2, <6>1
        <5>2. CASE dir[s + 1] # NoFile
          BY <2>2, <3>1, <3>2, <3>4, <5>2 DEF FreeTarget
        <5> QED BY <5>1, <5>2
      <4>7. OnDisk' # 1..lines' => \A k \in Copies(p)' : dir'[k] # NoFile
        BY <3>1, <4>3, <4>4, <4>6
      <4>8. NextFree(p)' # keepFiles
        BY <3>2, <3>4, <3>5
      <4>9. dir'[0] # NoFile
        BY <1>1, <2>2, <3>1, <3>4, <3>5, <4>2
      <4> QED BY <2>3, <4>5, <4>7, <4>8, <4>9
    <3>6. CASE s >= 1 /\ dir[s] = NoFile
      <4>1. dir' = dir
        BY <2>9, <3>6 DEF Shift
      <4>2. OnDisk' = OnDisk
        BY <3>1, <4>1, NothingDropped
      <4>3. s \in Copies(p) /\ dir[s + 1] = NoFile
        <5>1. s \in (1..keepFiles) \ {s + 1} BY <1>1, <3>4, <3>6
        <5>2. s \in Copies(p) BY <3>3, <5>1, Zenon
        <5>3. NextFree(p) # 0 BY <3>2, <3>4
        <5>4. dir[s + 1] # NoFile => NextFree(p) = keepFiles /\ dir[keepFiles] # NoFile
          BY <3>1, <3>2, Zenon DEF FreeTarget
        <5> QED BY <2>2, <3>6, <5>2, <5>3, <5>4, Zenon
      <4>4. ASSUME NEW j \in Copies(p)', NEW k \in Copies(p)', j < k, dir'[k] # NoFile
            PROVE  dir'[j] # NoFile
        <5>1. k \in Copies(p) /\ k # s + 1
          BY <3>3, <4>1, <4>3, <4>4
        <5>2. k < s
          BY <2>2, <3>4, <3>6, <4>1, <4>3, <4>4, <5>1, <3>3
        <5>3. j \in Copies(p)
          BY <3>3, <3>4, <4>4, <5>2
        <5> QED BY <2>2, <4>1, <4>4, <5>1, <5>3
      <4>5. OnDisk' = 1..lines'
        BY <2>2, <3>1, <3>6, <4>2, <4>3
      <4>6. NextFree(p)' # keepFiles
        BY <3>2, <3>4, <3>6
      <4> QED BY <2>2, <2>3, <3>1, <4>1, <4>4, <4>5, <4>6
    <3>7. CASE s = 0
      <4>1. dir' = dir
        BY <2>9, <3>7 DEF Shift
      <4>2. OnDisk' = OnDisk
        BY <3>1, <4>1, NothingDropped
      <4>3. NextFree(p)' = NextFree(p) /\ Copies(p)' = Copies(p)
        BY <3>2, <3>3, <3>7
      <4> QED BY <2>2, <2>3, <3>1, <4>1, <4>2, <4>3
    <3> QED BY <3>4, <3>5, <3>6, <3>7
  <2>10. CASE RotateFails(p)
    BY <1>3, <2>10 DEF RotateFails
  <2>11. CASE RenameActive(p)
    <3>1. /\ UNCHANGED <<keepFiles, data, lines>> /\ at[p] = "rename" /\ at'[p] = "reopen"
          /\ dir[0] # NoFile /\ 0 \in 0..keepFiles - 1 /\ FreeTarget(0 + 1)
      BY <1>1, <2>2, <2>11 DEF RenameActive, RotationInv
    <3>2. MoveTo(0, 0 + 1)
      BY <2>11, <3>1 DEF RenameActive
    <3>3. NextFree(p) = 1 /\ NextFree(p)' = 0
      BY <3>1 DEF NextFree
    <3>4. Copies(p) = (1..keepFiles) \ {1} /\ Copies(p)' = 1..keepFiles
      BY <1>1, <2>1, <3>3 DEF Copies
    <3>5. dir'[1] # NoFile /\ \A k \in Copies(p) : dir'[k] = dir[k]
      BY <1>1, <3>1, <3>2, <3>4 DEF MoveTo
    <3>6. ASSUME NEW j \in 1..keepFiles, NEW k \in 1..keepFiles, j < k, dir'[k] # NoFile
          PROVE  dir'[j] # NoFile
      <4>1. k \in Copies(p)
        BY <1>1, <3>4, <3>6
      <4>2. CASE j = 1 BY <3>5, <4>2
      <4>3. CASE j # 1 BY <2>2, <3>4, <3>5, <3>6, <4>1, <4>3
      <4> QED BY <4>2, <4>3
    <3>7. OnDisk' # 1..lines => \A k \in Copies(p) : dir[k] # NoFile
      <4>1. CASE dir[1] = NoFile
        <5>1. OnDisk' = OnDisk
          BY <3>1, <3>2, <4>1, FreeMove
        <5> QED BY <2>2, <5>1
      <4>2. CASE dir[1] # NoFile
        BY <3>1, <3>4, <4>2 DEF FreeTarget
      <4> QED BY <4>1, <4>2
    <3>8. OnDisk' # 1..lines' => \A k \in 1..keepFiles : dir'[k] # NoFile
      BY <3>1, <3>4, <3>5, <3>7
    <3> QED BY <2>3, <3>1, <3>3, <3>4, <3>6, <3>8
  <2>12. CASE UnlinkActive(p)
    <3>1. /\ UNCHANGED <<keepFiles, data, lines>> /\ keepFiles = 0
          /\ at[p] = "unlink" /\ at'[p] = "reopen"
      BY <1>1, <2>12 DEF UnlinkActive, RotationInv
    <3>2. NextFree(p)' = 0 /\ Copies(p)' = {}
      BY <1>1, <3>1 DEF NextFree, Copies
    <3> QED BY <2>3, <3>1, <3>2
  <2> QED
    BY <1>3, <2>5, <2>6, <2>7, <2>8, <2>9, <2>10, <2>11, <2>12 DEF ProcStep
<1> QED BY <1>2, <1>3 DEF Next, HorizonInv

-------------------------------------------------------------------------------
\* The invariant of a log that one process has to itself: its handle is
\* audit.jsonl and it knows its size, and each rename of a rotation finds its
\* target free, wherever earlier ones failed or were cut short.
THEOREM LogIsSound ==
  ASSUME \A q, r \in Procs : q = r
  PROVE  Spec => []AuditInv
<1>1. AuditInv /\ [Next]_vars => AuditInv'
  BY AuditStep
<1> QED BY AuditInit, <1>1, PTL DEF Spec

\* What is on disk is the end of the log in order and without a gap, at every step
\* of a rotation and after any crash or failure, for any number of copies.
THEOREM HistoryIsKept ==
  ASSUME \A q, r \in Procs : q = r
  PROVE  Spec => []HistoryIsSuffix
<1>1. AuditInv => HistoryIsSuffix
  BY DEF AuditInv
<1> QED BY LogIsSound, <1>1, PTL

\* A file passes MaxBytes only for a single line that does, or when it was to be
\* removed and could not be, for any limit and lines of any size.
THEOREM FilesStayUnderCap ==
  ASSUME \A q, r \in Procs : q = r
  PROVE  Spec => []FilesUnderCap
<1>1. Init => FilesUnderCap
  BY DEF Init, FilesUnderCap, Slots, NoFile
<1>2. AuditInv /\ FilesUnderCap /\ [Next]_vars => FilesUnderCap'
  BY CapStep
<1> QED BY LogIsSound, <1>1, <1>2, PTL DEF Spec

\* A line is only ever dropped beyond the keep horizon, with KeepFiles copies
\* there, for any number of copies, unless a rotation failed or was cut short.
THEOREM OnlyTheOldestIsDropped ==
  ASSUME NEW p, Procs = {p}
  PROVE  Spec => []DroppedAtHorizon
<1>1. Init => HorizonInv
  <2> SUFFICES ASSUME Init PROVE HorizonInv
    OBVIOUS
  <2>1. /\ at[p] = "down" /\ NextFree(p) = 0
        /\ \A k \in Slots : dir[k] = NoFile
        /\ lines = 0 /\ keepFiles \in Nat
    BY DEF Init, NextFree
  <2>2. OnDisk = {}
    BY <2>1, OnDiskMember DEF LinesOf
  <2>3. 1..lines = {} /\ Copies(p) \subseteq Slots
    BY <2>1 DEF Copies, Slots
  <2> QED BY <2>1, <2>2, <2>3 DEF HorizonInv
<1>2. AuditInv /\ HorizonInv /\ [Next]_vars => HorizonInv'
  BY HorizonStep
<1>3. TypeOK /\ HorizonInv => DroppedAtHorizon
  <2> SUFFICES ASSUME TypeOK, HorizonInv, ~disturbed, OnDisk # 1..lines,
                      at[p] \notin Rotating, NEW k \in 1..keepFiles
               PROVE  dir[k] # NoFile
    BY DEF DroppedAtHorizon
  <2>1. Copies(p) = 1..keepFiles
    BY DEF Copies, NextFree, Rotating, TypeOK
  <2> QED BY <2>1 DEF HorizonInv
<1>4. AuditInv => TypeOK
  BY DEF AuditInv
<1>5. Spec => []AuditInv
  BY LogIsSound
<1> QED BY <1>1, <1>2, <1>3, <1>4, <1>5, PTL DEF Spec
===============================================================================
