-------------------------- MODULE LogFollower_proofs --------------------------
(***************************************************************************)
(* Proofs about LogFollower, for any browsers, any -n, any number of       *)
(* copies, lines of any sizes, and a writer whose calls fail or are cut    *)
(* off wherever they can: what a follower shows of a log that one process  *)
(* writes and rotates, and what a page gets of it.                         *)
(***************************************************************************)
EXTENDS LogFollower, AuditLog_proofs, SequenceTheorems

USE OptionsAssumption, ProgramsAssumption, BrowsersAssumption

\* A number after all others makes a longer increasing sequence.
LEMMA OneMore ==
  ASSUME NEW s \in Seq(Nat), NEW n \in Nat
  PROVE  /\ Append(s, n) \in Seq(Nat) /\ Elements(Append(s, n)) = Elements(s) \cup {n}
         /\ Increasing(s) /\ (\A m \in Elements(s) : m < n) => Increasing(Append(s, n))
<1>1. /\ Len(Append(s, n)) = Len(s) + 1 /\ Append(s, n)[Len(s) + 1] = n
      /\ \A i \in 1..Len(s) : Append(s, n)[i] = s[i] /\ s[i] \in Nat
      /\ Append(s, n) \in Seq(Nat) /\ Len(s) \in Nat
  OBVIOUS
<1> DEFINE t == Append(s, n)
<1> HIDE DEF t
<1>2. Elements(t) = Elements(s) \cup {n}
  BY <1>1 DEF Elements, t
<1>3. ASSUME Increasing(s), \A m \in Elements(s) : m < n PROVE Increasing(t)
  <2> SUFFICES ASSUME NEW i \in 1..Len(t), NEW j \in 1..Len(t), i < j PROVE t[i] < t[j]
    BY DEF Increasing
  <2>1. i \in 1..Len(s) /\ (j \in 1..Len(s) \/ j = Len(s) + 1)
    BY <1>1 DEF t
  <2>2. t[i] = s[i] /\ s[i] \in Elements(s) /\ (j \in 1..Len(s) => t[j] = s[j])
    BY <1>1, <2>1 DEF Elements, t
  <2> QED BY <1>1, <1>3, <2>1, <2>2 DEF Increasing, t
<1> QED BY <1>1, <1>2, <1>3 DEF t

-------------------------------------------------------------------------------
(* The writer.                                                             *)

\* The lines of each inode are numbers.
LEMMA LinesOfInodes ==
  ASSUME TypeOK
  PROVE  /\ Len(data) \in Nat /\ lines \in Nat
         /\ \A i \in Inodes : LinesIn(i) \in Seq(Nat) /\ Len(LinesIn(i)) \in Nat
  BY Behind DEF TypeOK, LinesIn

\* A line is at one place.
LEMMA OnePlace ==
  ASSUME TypeOK, InodesInv, NEW i \in Inodes, NEW j \in Inodes,
         NEW k \in 1..Len(LinesIn(i)), NEW l \in 1..Len(LinesIn(j)), LinesIn(i)[k] = LinesIn(j)[l]
  PROVE  i = j /\ k = l
<1>1. i \in Nat /\ j \in Nat /\ k \in Nat /\ l \in Nat
  BY LinesOfInodes DEF Inodes
<1>2. i < j \/ (i = j /\ k < l) => LinesIn(i)[k] < LinesIn(j)[l]
  BY DEF InodesInv
<1>3. j < i \/ (j = i /\ l < k) => LinesIn(j)[l] < LinesIn(i)[k]
  BY DEF InodesInv
<1>4. LinesIn(i)[k] \in 1..lines
  BY DEF InodesInv
<1>5. LinesIn(i)[k] \in Nat
  BY <1>4
<1> QED BY <1>1, <1>2, <1>3, <1>5

\* What the writer does to the inodes: none is lost, and a line that is new has a
\* higher number than all, and is in the newest one.
Grown ==
  /\ lines' \in Nat /\ lines <= lines' /\ Len(data') \in Nat /\ Len(data) <= Len(data')
  /\ \A i \in Inodes' : LinesIn(i)' \in Seq(Nat) /\ Len(LinesIn(i)') \in Nat
  /\ \A i \in Inodes :
       /\ Len(LinesIn(i)) <= Len(LinesIn(i)')
       /\ \A k \in 1..Len(LinesIn(i)) : LinesIn(i)'[k] = LinesIn(i)[k]
  /\ \A i \in Inodes' : \A k \in 1..Len(LinesIn(i)') :
       (i \in Inodes /\ k <= Len(LinesIn(i))) \/ (i = Len(data') /\ lines < LinesIn(i)'[k])

\* The inodes and the lines stay as they are.
LEMMA GrownSame ==
  ASSUME TypeOK, InodesInv, UNCHANGED <<data, lines>>, dir'[0] \in {NoFile, dir[0]}
  PROVE  Grown /\ InodesInv'
<1>1. \A i : LinesIn(i)' = LinesIn(i) BY DEF LinesIn
<1>2. Inodes' = Inodes /\ Len(data') = Len(data) BY DEF Inodes
<1>3. Grown BY <1>1, <1>2, LinesOfInodes DEF Grown
<1>4. InodesInv' BY <1>1, <1>2 DEF InodesInv
<1> QED BY <1>3, <1>4

\* A file that is created is empty and the newest.
LEMMA GrownOpened ==
  ASSUME TypeOK, InodesInv, NEW p \in Procs, OpenActive(p), UNCHANGED lines
  PROVE  Grown /\ InodesInv'
<1>1. CASE dir[0] # NoFile
  BY <1>1, GrownSame DEF OpenActive
<1>2. CASE dir[0] = NoFile
  <2>1. data' = Append(data, EmptyFile) /\ dir' = [dir EXCEPT ![0] = Len(data) + 1]
    BY <1>2 DEF OpenActive
  <2>2. /\ data \in Seq(Content) /\ EmptyFile \in Content /\ Len(data) \in Nat
        /\ dir \in [Slots -> {NoFile} \cup Inodes] /\ 0 \in Slots
    BY Behind DEF TypeOK, EmptyFile, Content
  <2>3. /\ Len(data') = Len(data) + 1 /\ data'[Len(data) + 1] = EmptyFile
        /\ \A i \in Inodes : data'[i] = data[i]
    BY <2>1, <2>2 DEF Inodes
  <2>4. PICK n : n = Len(data) + 1
    OBVIOUS
  <2>5. /\ dir'[0] = n /\ Len(data') = n /\ Inodes' = Inodes \cup {n} /\ n \in Nat
        /\ \A i \in Inodes : i \in Nat /\ i < n
        /\ LinesIn(n)' = << >> /\ \A i \in Inodes : LinesIn(i)' = LinesIn(i)
    <3>1. dir'[0] = n /\ Len(data') = n /\ n \in Nat
      BY <2>1, <2>2, <2>3, <2>4
    <3>2. Inodes' = Inodes \cup {n} /\ \A i \in Inodes : i \in Nat /\ i < n
      BY <2>2, <2>4, <3>1 DEF Inodes
    <3>3. LinesIn(n)' = << >> /\ \A i \in Inodes : LinesIn(i)' = LinesIn(i)
      BY <2>3, <2>4 DEF LinesIn, EmptyFile
    <3> QED BY <3>1, <3>2, <3>3
  <2>6. Len(<< >>) = 0 /\ << >> \in Seq(Nat)
    OBVIOUS
  <2>7. Grown
    <3>1. /\ lines' \in Nat /\ lines <= lines' /\ Len(data') \in Nat /\ Len(data) <= Len(data')
      BY <2>2, <2>4, <2>5, LinesOfInodes
    <3>2. \A i \in Inodes' : LinesIn(i)' \in Seq(Nat) /\ Len(LinesIn(i)') \in Nat
      <4>1. LinesIn(n)' \in Seq(Nat) /\ Len(LinesIn(n)') \in Nat BY <2>5, <2>6
      <4>2. \A i \in Inodes : LinesIn(i)' \in Seq(Nat) /\ Len(LinesIn(i)') \in Nat
        BY <2>5, LinesOfInodes
      <4> QED BY <2>5, <4>1, <4>2
    <3>3. \A i \in Inodes :
            /\ Len(LinesIn(i)) <= Len(LinesIn(i)')
            /\ \A k \in 1..Len(LinesIn(i)) : LinesIn(i)'[k] = LinesIn(i)[k]
      BY <2>5, LinesOfInodes
    <3>4. \A i \in Inodes' : \A k \in 1..Len(LinesIn(i)') : i \in Inodes /\ k <= Len(LinesIn(i))
      <4> SUFFICES ASSUME NEW i \in Inodes', NEW k \in 1..Len(LinesIn(i)')
                   PROVE  i \in Inodes /\ k <= Len(LinesIn(i))
        OBVIOUS
      <4>1. i # n BY <2>5, <2>6
      <4> QED BY <2>5, <4>1, LinesOfInodes
    <3> QED BY <3>1, <3>2, <3>3, <3>4 DEF Grown
  <2>8. InodesInv'
    BY <2>2, <2>4, <2>5, <2>6, SMTT(60) DEF InodesInv
  <2> QED BY <2>7, <2>8
<1> QED BY <1>1, <1>2

\* A line that is written is the last of the newest file.
LEMMA GrownWritten ==
  ASSUME AuditInv, InodesInv, NEW p \in Procs, AppendLine(p)
  PROVE  Grown /\ InodesInv'
<1> TypeOK BY DEF AuditInv
<1>1. CASE file[p] = NoFile
  BY <1>1, GrownSame DEF AppendLine
<1>2. CASE file[p] # NoFile
  <2>0. PICK f : f = Len(data) OBVIOUS
  <2>1. file[p] = f /\ f \in Inodes /\ UNCHANGED dir /\ lines' = lines + 1 /\ dir[0] = f
    BY <1>2, <2>0, Behind DEF AppendLine, AuditInv, OwnHandle, InodesInv
  <2>2. /\ Len(data') = Len(data) /\ data'[f].lines = Append(data[f].lines, lines + 1)
        /\ \A i \in Inodes \ {f} : data'[i] = data[i]
    <3>1. /\ Len(data') = Len(data)
          /\ data'[file[p]] = [lines |-> Append(data[file[p]].lines, lines + 1),
                               bytes |-> data[file[p]].bytes + incoming[p]]
          /\ \A i \in Inodes \ {file[p]} : data'[i] = data[i]
      BY <1>2, Appended
    <3> QED BY <2>1, <3>1
  <2>3. /\ Inodes' = Inodes /\ LinesIn(f)' = Append(LinesIn(f), lines + 1)
        /\ \A i \in Inodes \ {f} : LinesIn(i)' = LinesIn(i)
    BY <2>2 DEF LinesIn, Inodes
  <2>4. lines \in Nat /\ f \in Nat /\ LinesIn(f) \in Seq(Nat) /\ \A i \in Inodes : i \in Nat /\ i <= f
    BY <2>0, <2>1, LinesOfInodes DEF Inodes
  <2>5. /\ LinesIn(f)' \in Seq(Nat) /\ Len(LinesIn(f)') = Len(LinesIn(f)) + 1
        /\ LinesIn(f)'[Len(LinesIn(f)) + 1] = lines + 1
        /\ \A k \in 1..Len(LinesIn(f)) : LinesIn(f)'[k] = LinesIn(f)[k]
    BY <2>3, <2>4
  <2>6. ASSUME NEW i \in Inodes
        PROVE  /\ LinesIn(i)' \in Seq(Nat) /\ Len(LinesIn(i)') \in Nat
               /\ Len(LinesIn(i)) \in Nat /\ Len(LinesIn(i)) <= Len(LinesIn(i)')
               /\ \A k \in 1..Len(LinesIn(i)) : LinesIn(i)'[k] = LinesIn(i)[k]
    <3>1. LinesIn(i) \in Seq(Nat) /\ Len(LinesIn(i)) \in Nat BY LinesOfInodes
    <3>2. CASE i = f BY <2>5, <3>1, <3>2
    <3>3. CASE i # f BY <2>3, <3>1, <3>3
    <3> QED BY <3>2, <3>3
  <2>7. ASSUME NEW i \in Inodes, NEW k \in 1..Len(LinesIn(i)')
        PROVE  \/ k \in 1..Len(LinesIn(i)) /\ LinesIn(i)'[k] = LinesIn(i)[k]
               \/ i = f /\ k = Len(LinesIn(i)) + 1 /\ LinesIn(i)'[k] = lines + 1
    <3>1. CASE i = f BY <2>5, <2>6, <3>1
    <3>2. CASE i # f BY <2>3, <3>2
    <3> QED BY <3>1, <3>2
  <2>8. Grown
    <3>1. \A i \in Inodes' : \A k \in 1..Len(LinesIn(i)') :
            (i \in Inodes /\ k <= Len(LinesIn(i))) \/ (i = Len(data') /\ lines < LinesIn(i)'[k])
      <4> SUFFICES ASSUME NEW i \in Inodes, NEW k \in 1..Len(LinesIn(i)')
                   PROVE  k <= Len(LinesIn(i)) \/ (i = f /\ lines < LinesIn(i)'[k])
        BY <2>0, <2>2, <2>3
      <4> QED BY <2>4, <2>6, <2>7
    <3>2. lines' \in Nat /\ lines <= lines' /\ Len(data') \in Nat /\ Len(data) <= Len(data')
      BY <2>0, <2>1, <2>2, <2>4
    <3> QED BY <2>3, <2>6, <3>1, <3>2 DEF Grown
  <2>9. \A i \in Inodes' : \A k \in 1..Len(LinesIn(i)') : LinesIn(i)'[k] \in 1..lines'
    <3> SUFFICES ASSUME NEW i \in Inodes, NEW k \in 1..Len(LinesIn(i)')
                 PROVE  LinesIn(i)'[k] \in 1..lines'
      BY <2>3
    <3>1. CASE k \in 1..Len(LinesIn(i)) /\ LinesIn(i)'[k] = LinesIn(i)[k]
      BY <2>1, <2>4, <3>1 DEF InodesInv
    <3>2. CASE LinesIn(i)'[k] = lines + 1
      BY <2>1, <2>4, <3>2
    <3> QED BY <2>7, <3>1, <3>2
  <2>10. ASSUME NEW i \in Inodes, NEW j \in Inodes,
                NEW k \in 1..Len(LinesIn(i)'), NEW l \in 1..Len(LinesIn(j)'),
                i < j \/ (i = j /\ k < l)
         PROVE  LinesIn(i)'[k] < LinesIn(j)'[l]
    <3>1. Len(LinesIn(i)) \in Nat /\ k \in Nat /\ l \in Nat BY <2>6
    <3>2. k \in 1..Len(LinesIn(i)) /\ LinesIn(i)'[k] = LinesIn(i)[k]
      <4>1. CASE i = f
        <5>1. i = j BY <2>4, <2>10, <4>1
        <5>2. l <= Len(LinesIn(i)) + 1 BY <2>7, <3>1, <5>1
        <5>3. k < l BY <2>4, <2>10, <5>1
        <5>4. k # Len(LinesIn(i)) + 1 BY <3>1, <5>2, <5>3
        <5> QED BY <2>7, <5>4
      <4>2. CASE i # f BY <2>7, <4>2
      <4> QED BY <4>1, <4>2
    <3>3. LinesIn(i)[k] \in 1..lines BY <3>2 DEF InodesInv
    <3>4. CASE l \in 1..Len(LinesIn(j)) /\ LinesIn(j)'[l] = LinesIn(j)[l]
      BY <2>10, <3>2, <3>4 DEF InodesInv
    <3>5. CASE LinesIn(j)'[l] = lines + 1
      BY <2>4, <3>2, <3>3, <3>5
    <3> QED BY <2>7, <3>4, <3>5
  <2>11. dir'[0] = Len(data') BY <2>0, <2>1, <2>2
  <2> QED BY <2>3, <2>8, <2>9, <2>10, <2>11 DEF InodesInv
<1> QED BY <1>1, <1>2

\* Of a process that has the log to itself, every call only adds to the inodes.
LEMMA WriterGrows ==
  ASSUME AuditInv, InodesInv, [Next]_vars
  PROVE  Grown /\ InodesInv'
<1> TypeOK /\ RotationInv BY DEF AuditInv
<1>1. /\ dir \in [Slots -> {NoFile} \cup Inodes] /\ slot \in [Procs -> Nat]
      /\ keepFiles \in Nat /\ Slots = 0..keepFiles /\ 0 \in Slots
  BY Behind DEF TypeOK, Slots
<1>2. ASSUME UNCHANGED <<data, lines>>, dir'[0] \in {NoFile, dir[0]}
      PROVE  Grown /\ InodesInv'
  BY <1>2, GrownSame
<1>3. ASSUME NEW p \in Procs, ProcStep(p) PROVE Grown /\ InodesInv'
  <2>1. CASE Open(p) \/ Reopen(p)
    BY <2>1, GrownOpened DEF Open, Reopen
  <2>2. CASE Stop(p) \/ WriteFits(p) \/ WriteRotates(p) \/ RotateFails(p)
    BY <1>2, <2>2 DEF Stop, WriteFits, WriteRotates, RotateFails
  <2>3. CASE AppendLine(p)
    BY <2>3, GrownWritten
  <2>4. CASE RemoveOldest(p)
    <3>1. UNCHANGED <<data, lines>> BY <2>4 DEF RemoveOldest
    <3>2. dir'[0] \in {NoFile, dir[0]} BY <1>1, <2>4 DEF RemoveOldest
    <3> QED BY <1>2, <3>1, <3>2
  <2>5. CASE Shift(p)
    <3>1. UNCHANGED <<data, lines>> /\ slot[p] \in Nat BY <1>1, <2>5 DEF Shift
    <3>2. UNCHANGED dir \/ (slot[p] >= 1 /\ MoveTo(slot[p], slot[p] + 1))
      BY <2>5 DEF Shift
    <3>3. dir'[0] = dir[0] BY <1>1, <3>1, <3>2 DEF MoveTo
    <3> QED BY <1>2, <3>1, <3>3
  <2>6. CASE RenameActive(p)
    <3>1. UNCHANGED <<data, lines>> BY <2>6 DEF RenameActive
    <3>2. UNCHANGED dir \/ MoveTo(0, 1) BY <2>6 DEF RenameActive
    <3>3. dir'[0] \in {NoFile, dir[0]} BY <1>1, <3>2 DEF MoveTo
    <3> QED BY <1>2, <3>1, <3>3
  <2>7. CASE UnlinkActive(p)
    <3>1. UNCHANGED <<data, lines>> BY <2>7 DEF UnlinkActive
    <3>2. dir'[0] \in {NoFile, dir[0]} BY <1>1, <2>7 DEF UnlinkActive
    <3> QED BY <1>2, <3>1, <3>2
  <2> QED BY <1>3, <2>1, <2>2, <2>3, <2>4, <2>5, <2>6, <2>7 DEF ProcStep
<1>4. CASE UNCHANGED vars BY <1>2, <1>4 DEF vars
<1> QED BY <1>3, <1>4 DEF Next

-------------------------------------------------------------------------------
(* The reader.                                                             *)

ReaderInv == FrontierInv /\ PlaceInv /\ ShownInOrder

\* What the writer adds lies ahead of the reader, and changes nothing behind it.
LEMMA WriterKeeps ==
  ASSUME TypeOK, FollowTypeOK, ReaderInv, InodesInv, Grown, InodesInv', UNCHANGED followVars
  PROVE  ReaderInv'
<1>0. PICK h, q : h = handle /\ q = pos
  OBVIOUS
<1>1. UNCHANGED <<program, lastN, reading, handle, pos, skipped, out>>
  BY DEF followVars, readerVars
<1>2. /\ handle' = h /\ pos' = q /\ h \in Nat /\ q \in Nat
      /\ out \in Seq(Nat) /\ skipped \in Nat /\ Len(data) \in Nat
      /\ Held = LinesIn(h) /\ Held' = LinesIn(h)'
      /\ Elements(out)' = Elements(out) /\ Filling' = Filling
  BY <1>0, <1>1, LinesOfInodes DEF FollowTypeOK, Held, Elements, Filling
<1>3. \A i \in Inodes : i \in Inodes' /\ i \in Nat
  BY <1>2 DEF Grown, Inodes
<1>4. ASSUME NEW i \in Inodes, NEW k \in Nat, k <= Len(LinesIn(i)), k >= 1
      PROVE  k \in 1..Len(LinesIn(i)') /\ LinesIn(i)'[k] = LinesIn(i)[k]
  <2>1. Len(LinesIn(i)) \in Nat /\ Len(LinesIn(i)') \in Nat
    BY <1>3, LinesOfInodes DEF Grown
  <2> QED BY <1>4, <2>1 DEF Grown
<1>5. ASSUME NEW i \in Inodes', NEW k \in 1..Len(LinesIn(i)')
      PROVE  \/ /\ i \in Inodes /\ k \in 1..Len(LinesIn(i)) /\ LinesIn(i)'[k] = LinesIn(i)[k]
             \/ i = Len(data') /\ lines < LinesIn(i)'[k]
  <2>1. k \in Nat /\ k >= 1
    BY <1>5 DEF Grown
  <2>2. CASE i \in Inodes /\ k <= Len(LinesIn(i))
    <3>1. Len(LinesIn(i)) \in Nat BY <2>2, LinesOfInodes
    <3> QED BY <1>4, <2>1, <2>2, <3>1
  <2>3. CASE i = Len(data') /\ lines < LinesIn(i)'[k]
    BY <2>3
  <2> QED BY <1>5, <2>2, <2>3 DEF Grown
<1>6. \A n \in Elements(out) \cup {skipped} : n \in 0..lines
  BY DEF ReaderInv, FrontierInv
<1>7. FrontierInv'
  <2> SUFFICES ASSUME NEW n \in Elements(out) \cup {skipped}
               PROVE  /\ n \in 0..lines'
                      /\ \A i \in Inodes' : \A k \in 1..Len(LinesIn(i)') :
                           Ahead(i, k)' => n < LinesIn(i)'[k]
    BY <1>1, <1>2 DEF FrontierInv
  <2>1. n \in 0..lines /\ lines \in Nat /\ lines' \in Nat /\ lines <= lines'
    BY <1>6, LinesOfInodes DEF Grown
  <2>2. ASSUME NEW i \in Inodes', NEW k \in 1..Len(LinesIn(i)'), Ahead(i, k)'
        PROVE  n < LinesIn(i)'[k]
    <3>0. LinesIn(i)'[k] \in Nat
      BY DEF Grown
    <3>1. CASE lines < LinesIn(i)'[k]
      BY <2>1, <3>0, <3>1
    <3>2. CASE i \in Inodes /\ k \in 1..Len(LinesIn(i)) /\ LinesIn(i)'[k] = LinesIn(i)[k]
      <4>1. Ahead(i, k)
        <5>1. i <= Len(data) /\ i \in Nat /\ Len(data') \in Nat /\ Len(data) <= Len(data')
          BY <1>2, <3>2 DEF Inodes, Grown
        <5>2. CASE reading = "open"
          <6>1. i = Len(data') BY <1>1, <2>2, <5>2 DEF Ahead
          <6>2. i = Len(data) BY <1>2, <5>1, <6>1
          <6> QED BY <5>2, <6>2 DEF Ahead
        <5>3. CASE reading # "open"
          BY <1>1, <2>2, <5>3 DEF Ahead
        <5> QED BY <5>2, <5>3
      <4> QED BY <3>2, <4>1 DEF ReaderInv, FrontierInv
    <3> QED BY <1>5, <3>1, <3>2
  <2> QED BY <2>1, <2>2
<1>8. ASSUME reading \notin {"open", "seek"}
      PROVE  /\ h \in Inodes /\ q <= Len(LinesIn(h)) /\ Len(LinesIn(h)) \in Nat
             /\ q <= Len(LinesIn(h)') /\ \A k \in 1..q : LinesIn(h)'[k] = LinesIn(h)[k]
  <2>1. h \in Inodes /\ q <= Len(LinesIn(h))
    BY <1>0, <1>2, <1>8 DEF ReaderInv, PlaceInv
  <2>2. Len(LinesIn(h)) \in Nat /\ Len(LinesIn(h)') \in Nat /\ Len(LinesIn(h)) <= Len(LinesIn(h)')
    BY <1>3, <2>1, LinesOfInodes DEF Grown
  <2> QED BY <1>2, <1>4, <2>1, <2>2
<1>9. PlaceInv'
  <2>1. IF reading = "open" THEN handle' = NoFile ELSE handle' \in Inodes'
    BY <1>0, <1>2, <1>3 DEF ReaderInv, PlaceInv
  <2>2. reading \notin {"open", "seek"} => pos' <= Len(Held')
    BY <1>2, <1>8
  <2>3. ASSUME reading \notin {"open", "seek"}, ~Filling, NEW k \in 1..q
        PROVE  Held'[k] \in Elements(out) <=> Held'[k] > skipped
    <3>1. Held'[k] = Held[k] BY <1>2, <1>8, <2>3
    <3> QED BY <1>0, <2>3, <3>1 DEF ReaderInv, PlaceInv
  <2>4. (reading = "existing" \/ (reading = "open" /\ program = "logs") => skipped = 0)
        /\ (Filling \/ (reading = "open" /\ program = "logs") => out = << >>)
    BY DEF ReaderInv, PlaceInv
  <2> QED BY <1>1, <1>2, <2>1, <2>2, <2>3, <2>4 DEF PlaceInv
<1>10. ShownInOrder'
  <2>1. Increasing(out')
    BY <1>1 DEF ReaderInv, ShownInOrder
  <2>2. ASSUME NEW i \in Inodes', NEW j \in 1..Len(LinesIn(i)'), NEW k \in 1..Len(LinesIn(i)'),
               NEW l \in 1..Len(LinesIn(i)'), j < k, k < l,
               LinesIn(i)'[j] \in Elements(out), LinesIn(i)'[l] \in Elements(out)
        PROVE  LinesIn(i)'[k] \in Elements(out)
    <3>1. LinesIn(i)'[j] <= lines /\ LinesIn(i)'[l] <= lines /\ lines \in Nat
      BY <1>6, <2>2, LinesOfInodes
    <3>2. /\ i \in Inodes /\ j \in 1..Len(LinesIn(i)) /\ LinesIn(i)'[j] = LinesIn(i)[j]
          /\ l \in 1..Len(LinesIn(i)) /\ LinesIn(i)'[l] = LinesIn(i)[l]
      <4>0. LinesIn(i)' \in Seq(Nat) BY DEF Grown
      <4>1. LinesIn(i)'[j] \in Nat /\ LinesIn(i)'[l] \in Nat BY <4>0, SMTT(60)
      <4> QED BY <1>5, <3>1, <4>1
    <3>3. k \in 1..Len(LinesIn(i)) /\ LinesIn(i)'[k] = LinesIn(i)[k]
      <4>1. Len(LinesIn(i)) \in Nat BY <3>2, LinesOfInodes
      <4>2. k \in Nat /\ k >= 1 /\ k <= Len(LinesIn(i)) BY <2>2, <3>2, <4>1
      <4> QED BY <1>4, <3>2, <4>1, <4>2
    <3> QED BY <2>2, <3>2, <3>3 DEF ReaderInv, ShownInOrder
  <2>3. ASSUME reading \in {"read", "tick", "publish"}, NEW k \in 1..q, Held'[k] > skipped
        PROVE  Held'[k] \in Elements(out)
    <3>1. Held'[k] = Held[k] BY <1>2, <1>8, <2>3
    <3> QED BY <1>0, <2>3, <3>1 DEF ReaderInv, ShownInOrder
  <2> QED BY <1>1, <1>2, <2>1, <2>2, <2>3 DEF ShownInOrder
<1> QED BY <1>7, <1>9, <1>10 DEF ReaderInv

\* A step of the reader sees the same inodes.
LEMMA SameInodes ==
  ASSUME UNCHANGED vars
  PROVE  /\ Inodes' = Inodes /\ \A i : LinesIn(i)' = LinesIn(i)
         /\ UNCHANGED <<dir, data, lines>>
  BY DEF vars, Inodes, LinesIn

\* Steps that print nothing and do not move the reader.
LEMMA StaysPut ==
  ASSUME ReaderInv, UNCHANGED vars, UNCHANGED <<program, lastN, handle, pos, skipped, out>>,
         reading' = reading \/ {reading, reading'} \subseteq {"read", "tick", "publish"}
  PROVE  ReaderInv'
<1>1. /\ Inodes' = Inodes /\ lines' = lines /\ data' = data /\ Held' = Held
      /\ \A i : LinesIn(i)' = LinesIn(i)
  BY SameInodes DEF Held, LinesIn
<1>2. Elements(out)' = Elements(out) /\ Filling' = Filling
  BY DEF Elements, Filling
<1>3. \A i, k : Ahead(i, k)' = Ahead(i, k)
  BY <1>1 DEF Ahead
<1>4. FrontierInv'
  BY <1>1, <1>2, <1>3 DEF ReaderInv, FrontierInv
<1>5. PlaceInv'
  BY <1>1, <1>2 DEF ReaderInv, PlaceInv
<1>6. ShownInOrder'
  <2>1. reading' \in {"read", "tick", "publish"} <=> reading \in {"read", "tick", "publish"}
    OBVIOUS
  <2> QED BY <1>1, <1>2, <2>1 DEF ReaderInv, ShownInOrder
<1> QED BY <1>4, <1>5, <1>6 DEF ReaderInv

\* The next line of the file is printed: it is the highest so far, and the place of
\* the reader moves with it.
LEMMA NextLine ==
  ASSUME TypeOK, FollowTypeOK, InodesInv, ReaderInv, UNCHANGED vars,
         UNCHANGED <<program, lastN, handle, skipped>>,
         reading \notin {"open", "seek"}, ~Filling, pos < Len(Held),
         pos' = pos + 1, out' = Append(out, Held[pos + 1]),
         reading' = reading \/ {reading, reading'} \subseteq {"read", "tick", "publish"}
  PROVE  ReaderInv' /\ out' \in Seq(Nat) /\ pos' \in Nat
<1>0. PICK h, q : h = handle /\ q = pos
  OBVIOUS
<1>1. /\ Inodes' = Inodes /\ lines' = lines /\ data' = data
      /\ \A i : LinesIn(i)' = LinesIn(i)
      /\ Held = LinesIn(h) /\ Held' = LinesIn(h)
  BY <1>0, SameInodes DEF Held, LinesIn
<1>2. /\ h \in Inodes /\ h \in Nat /\ q \in Nat /\ q + 1 \in 1..Len(LinesIn(h))
      /\ LinesIn(h) \in Seq(Nat) /\ Len(LinesIn(h)) \in Nat
      /\ LinesIn(h)[q + 1] \in Nat /\ LinesIn(h)[q + 1] \in 1..lines /\ lines \in Nat
  <2>1. h \in Inodes /\ h \in Nat /\ q \in Nat
    BY <1>0 DEF ReaderInv, PlaceInv, FollowTypeOK
  <2>2. LinesIn(h) \in Seq(Nat) /\ Len(LinesIn(h)) \in Nat /\ lines \in Nat
    BY <2>1, LinesOfInodes
  <2>3. q + 1 \in 1..Len(LinesIn(h))
    BY <1>0, <1>1, <2>1, <2>2
  <2> QED BY <2>1, <2>2, <2>3 DEF InodesInv
<1> DEFINE next == LinesIn(h)[q + 1]
<1>3. PICK n : n = next
  OBVIOUS
<1>4. out' = Append(out, n) /\ out \in Seq(Nat) /\ n \in Nat /\ n \in 1..lines /\ skipped \in Nat
  BY <1>0, <1>1, <1>2, <1>3 DEF FollowTypeOK
<1>5. \A m \in Elements(out) \cup {skipped} : m \in 0..lines /\ m < n
  <2>1. Ahead(h, q + 1)
    BY <1>0, <1>2 DEF Ahead
  <2> QED BY <1>2, <1>3, <2>1 DEF ReaderInv, FrontierInv
<1>6. /\ out' \in Seq(Nat) /\ Elements(out)' = Elements(out) \cup {n} /\ Increasing(out')
  <2>1. Elements(out)' = Elements(Append(out, n))
    BY <1>4 DEF Elements
  <2> QED BY <1>4, <1>5, <2>1, OneMore DEF ReaderInv, ShownInOrder
<1>7. \A i \in Inodes : \A k \in 1..Len(LinesIn(i)) : LinesIn(i)[k] = n => i = h /\ k = q + 1
  <2> SUFFICES ASSUME NEW i \in Inodes, NEW k \in 1..Len(LinesIn(i)), LinesIn(i)[k] = n
               PROVE  i = h /\ k = q + 1
    OBVIOUS
  <2>1. LinesIn(i)[k] = LinesIn(h)[q + 1]
    BY <1>3
  <2> QED BY <1>2, <2>1, OnePlace
<1>8. FrontierInv'
  <2>a. Elements(out)' \cup {skipped'} = Elements(out) \cup {n, skipped}
    BY <1>6
  <2>b. \A m \in Elements(out) \cup {n, skipped} : m \in 0..lines
    BY <1>2, <1>4, <1>5
  <2> SUFFICES ASSUME NEW m \in Elements(out) \cup {n, skipped},
                      NEW i \in Inodes, NEW k \in 1..Len(LinesIn(i)), Ahead(i, k)'
               PROVE  m < LinesIn(i)[k]
    BY <1>1, <2>a, <2>b DEF FrontierInv
  <2>1. i \in Nat /\ k \in Nat
    BY LinesOfInodes DEF Inodes
  <2>2. i > h \/ (i = h /\ k > q + 1)
    BY <1>0, <1>2, <2>1 DEF Ahead
  <2>3. CASE m = n
    BY <1>2, <1>3, <2>1, <2>2, <2>3 DEF InodesInv
  <2>4. CASE m \in Elements(out) \cup {skipped}
    <3>1. Ahead(i, k)
      BY <1>0, <1>2, <2>1, <2>2 DEF Ahead
    <3> QED BY <2>4, <3>1 DEF ReaderInv, FrontierInv
  <2> QED BY <2>3, <2>4
<1>9. \A k \in 1..q : LinesIn(h)[k] \in Elements(out) <=> LinesIn(h)[k] > skipped
  BY <1>0, <1>1 DEF ReaderInv, PlaceInv
<1>10. \A k \in 1..q + 1 : LinesIn(h)[k] \in Elements(out) \cup {n} <=> LinesIn(h)[k] > skipped
  <2> SUFFICES ASSUME NEW k \in 1..q + 1
               PROVE  LinesIn(h)[k] \in Elements(out) \cup {n} <=> LinesIn(h)[k] > skipped
    OBVIOUS
  <2>1. CASE k = q + 1
    BY <1>3, <1>4, <1>5, <2>1
  <2>2. CASE k # q + 1
    <3>1. k \in 1..q /\ k \in 1..Len(LinesIn(h))
      BY <1>2, <2>2
    <3>2. LinesIn(h)[k] # n
      BY <1>2, <1>7, <2>2, <3>1
    <3> QED BY <1>9, <3>1, <3>2
  <2> QED BY <2>1, <2>2
<1>11. PlaceInv'
  <2>1. Filling' = Filling /\ reading' \notin {"open", "seek"} /\ handle' = h /\ pos' = q + 1
    BY <1>0 DEF Filling
  <2>2. reading' = "existing" => skipped' = 0
    BY DEF ReaderInv, PlaceInv
  <2>3. handle' \in Inodes' /\ pos' \in 0..Len(Held') /\ pos' <= Len(Held')
    BY <1>1, <1>2, <2>1
  <2> QED BY <1>1, <1>2, <1>6, <1>10, <2>1, <2>2, <2>3, SMTT(60) DEF PlaceInv
<1>12. ShownInOrder'
  <2>1. ASSUME NEW i \in Inodes, NEW j \in 1..Len(LinesIn(i)), NEW k \in 1..Len(LinesIn(i)),
               NEW l \in 1..Len(LinesIn(i)), j < k, k < l,
               LinesIn(i)[j] \in Elements(out) \cup {n}, LinesIn(i)[l] \in Elements(out) \cup {n}
        PROVE  LinesIn(i)[k] \in Elements(out) \cup {n}
    <3>0. i \in Nat /\ j \in Nat /\ k \in Nat /\ l \in Nat
      BY LinesOfInodes DEF Inodes
    <3>1. LinesIn(i)[j] < LinesIn(i)[l] /\ LinesIn(i)[j] < LinesIn(i)[k]
          /\ LinesIn(i)[j] \in Nat /\ LinesIn(i)[l] \in Nat /\ LinesIn(i)[k] \in Nat
      <4>1. \A m \in 1..lines : m \in Nat OBVIOUS
      <4> QED BY <2>1, <3>0, <4>1, SMTT(60) DEF InodesInv
    <3>2. LinesIn(i)[j] \in Elements(out)
      <4>1. CASE LinesIn(i)[j] = n
        <5>1. LinesIn(i)[l] <= n BY <1>4, <1>5, <2>1
        <5> QED BY <1>4, <3>1, <4>1, <5>1
      <4> QED BY <2>1, <4>1
    <3>3. CASE LinesIn(i)[l] \in Elements(out)
      BY <2>1, <3>2, <3>3 DEF ReaderInv, ShownInOrder
    <3>4. CASE LinesIn(i)[l] = n
      <4>1. i = h /\ l = q + 1 BY <1>7, <3>4
      <4>2. j \in 1..q /\ k \in 1..q BY <1>2, <2>1, <3>0, <4>1
      <4>3. LinesIn(h)[j] > skipped BY <1>9, <3>2, <4>1, <4>2
      <4>4. LinesIn(h)[k] > skipped BY <1>4, <3>1, <4>1, <4>3
      <4> QED BY <1>9, <4>1, <4>2, <4>4
    <3> QED BY <2>1, <3>3, <3>4
  <2>2. \A k \in 1..pos' : Held'[k] > skipped' => Held'[k] \in Elements(out)'
    BY <1>0, <1>1, <1>6, <1>10
  <2> QED BY <1>1, <1>6, <2>1, <2>2 DEF ShownInOrder
<1> QED BY <1>0, <1>2, <1>6, <1>8, <1>11, <1>12 DEF ReaderInv

\* Every step of the follower keeps the types, and its place in the log.
LEMMA FollowerKeeps ==
  ASSUME TypeOK, FollowTypeOK, InodesInv, RegisteredInv, ReaderInv, FollowStep
  PROVE  FollowTypeOK' /\ ReaderInv'
<1>0. /\ UNCHANGED vars /\ Inodes' = Inodes /\ lines' = lines /\ data' = data /\ dir' = dir
      /\ \A i : LinesIn(i)' = LinesIn(i)
  BY SameInodes DEF FollowStep, vars
<1>1. /\ Len(data) \in Nat /\ lines \in Nat /\ handle \in Nat /\ pos \in Nat
      /\ \A i \in Inodes : i \in Nat /\ LinesIn(i) \in Seq(Nat) /\ Len(LinesIn(i)) \in Nat
      /\ \A i \in Inodes : \A k \in 1..Len(LinesIn(i)) : LinesIn(i)[k] \in 1..lines
  BY LinesOfInodes DEF FollowTypeOK, Inodes, InodesInv
\* A step that leaves the reader where it is, or reads one more line, keeps its types.
<1>2. ASSUME UNCHANGED <<program, lastN, handle, skipped>>, out' \in Seq(Nat), pos' \in Nat,
             reading' \in {"open", "existing", "seek", "read", "tick", "publish"},
             UNCHANGED <<chan, shown, since, dropped>>
      PROVE  FollowTypeOK'
  BY <1>2 DEF FollowTypeOK
<1>3. CASE OpenLog
  <2>0. PICK h : h = dir[0] OBVIOUS
  <2>1. /\ program = "logs" /\ reading = "open" /\ h # NoFile /\ handle' = h /\ pos' = 0
        /\ reading' = "existing"
        /\ UNCHANGED <<program, lastN, out, skipped, chan, shown, since, dropped>>
    BY <1>3, <2>0 DEF OpenLog, browserVars
  <2>2. h = Len(data) /\ h \in Inodes /\ h \in Nat
    BY <1>1, <2>0, <2>1, Behind DEF InodesInv
  <2>3. out = << >> /\ skipped = 0 /\ Elements(out) = {} /\ Elements(out)' = {}
    BY <2>1 DEF ReaderInv, PlaceInv, Elements
  <2>4. FollowTypeOK' BY <2>1, <2>2 DEF FollowTypeOK
  <2>5. FrontierInv'
    <3> SUFFICES ASSUME NEW i \in Inodes, NEW k \in 1..Len(LinesIn(i))
                 PROVE  0 < LinesIn(i)[k]
      BY <1>0, <1>1, <2>1, <2>3 DEF FrontierInv
    <3>1. LinesIn(i)[k] \in 1..lines BY <1>1
    <3> QED BY <1>1, <3>1
  <2>6. PlaceInv'
    <3>1. pos' <= Len(Held)'
      <4>1. Held' = LinesIn(h) BY <1>0, <2>1 DEF Held, LinesIn
      <4> QED BY <1>1, <2>1, <2>2, <4>1
    <3> QED BY <1>0, <2>1, <2>2, <2>3, <3>1 DEF PlaceInv, Filling
  <2>7. ShownInOrder'
    BY <1>0, <2>1, <2>3 DEF ShownInOrder, ReaderInv
  <2> QED BY <2>4, <2>5, <2>6, <2>7 DEF ReaderInv
<1>4. CASE ReadExisting
  <2>1. /\ reading = "existing" /\ pos # Len(Held) /\ pos' = pos + 1
        /\ UNCHANGED <<program, lastN, reading, handle, skipped, chan, shown, since, dropped>>
    BY <1>4 DEF ReadExisting, AtEOF, browserVars
  <2>2. handle \in Inodes /\ pos <= Len(Held) /\ Len(Held) \in Nat
    BY <1>1, <2>1 DEF ReaderInv, PlaceInv, Held
  <2>3. pos < Len(Held) BY <1>1, <2>1, <2>2
  <2>4. CASE lastN = 0
    <3>1. out' = Append(out, Held[pos + 1]) /\ ~Filling
      BY <1>4, <2>4 DEF ReadExisting, Filling
    <3>2. ReaderInv' /\ out' \in Seq(Nat) /\ pos' \in Nat
      BY <1>0, <2>1, <2>3, <3>1, NextLine
    <3> QED BY <1>2, <2>1, <3>2
  <2>5. CASE lastN # 0
    <3>1. lastN > 0 /\ out' = out /\ Filling /\ Filling'
      BY <1>4, <2>1, <2>5 DEF ReadExisting, FollowTypeOK, Filling
    <3>2. out = << >> /\ skipped = 0 /\ Elements(out) = {} /\ Elements(out)' = {}
      BY <2>1, <3>1 DEF ReaderInv, PlaceInv, Elements
    <3>3. FollowTypeOK' BY <1>1, <1>2, <2>1, <3>1 DEF FollowTypeOK
    <3>4. FrontierInv'
      <4> SUFFICES ASSUME NEW i \in Inodes, NEW k \in 1..Len(LinesIn(i))
                   PROVE  0 < LinesIn(i)[k]
        BY <1>0, <1>1, <2>1, <3>2 DEF FrontierInv
      <4>1. LinesIn(i)[k] \in 1..lines BY <1>1
      <4> QED BY <1>1, <4>1
    <3>5. PlaceInv'
      <4>1. Held' = Held BY <1>0, <2>1 DEF Held, LinesIn
      <4>2. pos' <= Len(Held)' BY <1>1, <2>1, <2>2, <2>3, <4>1
      <4> QED BY <1>0, <2>1, <2>2, <3>1, <3>2, <4>2 DEF PlaceInv
    <3>6. ShownInOrder'
      BY <1>0, <2>1, <3>1, <3>2 DEF ShownInOrder, ReaderInv
    <3> QED BY <3>3, <3>4, <3>5, <3>6 DEF ReaderInv
  <2> QED BY <2>4, <2>5
<1>6. CASE PrintLine
  <2>1. /\ reading = "read" /\ pos # Len(Held) /\ pos' = pos + 1 /\ out' = Append(out, Held[pos + 1])
        /\ UNCHANGED <<program, lastN, reading, handle, skipped, chan, shown, since, dropped>>
    BY <1>6 DEF PrintLine, AtEOF, browserVars
  <2>2. pos < Len(Held) /\ ~Filling
    BY <1>1, <2>1 DEF ReaderInv, PlaceInv, Held, Filling
  <2>3. ReaderInv' /\ out' \in Seq(Nat) /\ pos' \in Nat
    BY <1>0, <2>1, <2>2, NextLine
  <2> QED BY <1>2, <2>1, <2>3
<1>11. CASE Publish
  <2>1. /\ reading = "read" /\ pos # Len(Held) /\ pos' = pos + 1 /\ out' = Append(out, Held[pos + 1])
        /\ reading' = "publish"
        /\ UNCHANGED <<program, lastN, handle, skipped, chan, shown, since, dropped>>
    BY <1>11 DEF Publish, AtEOF, browserVars
  <2>2. pos < Len(Held) /\ ~Filling
    BY <1>1, <2>1 DEF ReaderInv, PlaceInv, Held, Filling
  <2>3. ReaderInv' /\ out' \in Seq(Nat) /\ pos' \in Nat
    BY <1>0, <2>1, <2>2, NextLine
  <2> QED BY <1>2, <2>1, <2>3
<1>12. CASE EndOfFile \/ EndPublish
  <2>1. /\ {reading, reading'} \subseteq {"read", "tick", "publish"}
        /\ UNCHANGED <<program, lastN, handle, pos, skipped, out, chan, shown, since, dropped>>
    BY <1>12 DEF EndOfFile, EndPublish, browserVars
  <2>2. ReaderInv' BY <1>0, <2>1, StaysPut
  <2>3. FollowTypeOK' BY <1>1, <1>2, <2>1 DEF FollowTypeOK
  <2> QED BY <2>2, <2>3
<1>5. CASE EndExisting
  <2>0. PICK h, q : h = handle /\ q = pos
    OBVIOUS
  <2>1. /\ reading = "existing" /\ reading' = "read"
        /\ UNCHANGED <<program, lastN, handle, pos, chan, shown, since, dropped>>
    BY <1>5 DEF EndExisting, browserVars
  <2>2. /\ h \in Inodes /\ q \in Nat /\ q <= Len(LinesIn(h)) /\ Held = LinesIn(h) /\ Held' = LinesIn(h)
        /\ LinesIn(h) \in Seq(Nat) /\ Len(LinesIn(h)) \in Nat /\ skipped = 0 /\ lastN \in Nat
        /\ handle' = h /\ pos' = q
    BY <1>0, <1>1, <2>0, <2>1 DEF ReaderInv, PlaceInv, Held, LinesIn, FollowTypeOK
  <2>3. CASE lastN = 0
    <3>1. UNCHANGED <<out, skipped>> /\ ~Filling /\ ~Filling' /\ Elements(out)' = Elements(out)
      BY <1>5, <2>1, <2>3 DEF EndExisting, Filling, Elements
    <3>2. FollowTypeOK' BY <1>1, <1>2, <2>1, <3>1 DEF FollowTypeOK
    <3>3. \A j, k : Ahead(j, k)' = Ahead(j, k) BY <2>1 DEF Ahead
    <3>4. FrontierInv' BY <1>0, <3>1, <3>3 DEF ReaderInv, FrontierInv
    <3>5. \A k \in 1..q : LinesIn(h)[k] \in Elements(out) <=> LinesIn(h)[k] > skipped
      BY <2>0, <2>1, <2>2, <3>1 DEF ReaderInv, PlaceInv
    <3>6. PlaceInv' BY <1>0, <2>1, <2>2, <3>1, <3>5 DEF PlaceInv
    <3>7. ShownInOrder' BY <1>0, <2>1, <2>2, <3>1, <3>5 DEF ReaderInv, ShownInOrder
    <3> QED BY <3>2, <3>4, <3>6, <3>7 DEF ReaderInv
  <2>4. CASE lastN # 0
    <3>0. PICK a : a = IF q > lastN THEN q - lastN ELSE 0
      OBVIOUS
    <3>1. a \in 0..q /\ lastN > 0
      BY <2>2, <2>4, <3>0
    <3>2. /\ out' = SubSeq(LinesIn(h), a + 1, q)
          /\ skipped' = IF a > 0 THEN LinesIn(h)[a] ELSE 0
      BY <1>5, <2>0, <2>2, <3>0, <3>1, SMTT(60) DEF EndExisting, Ring
    <3>3. /\ out' \in Seq(Nat) /\ Len(out') = q - a
          /\ \A k \in 1..q - a : out'[k] = LinesIn(h)[a + k]
      BY <2>2, <3>1, <3>2
    <3>4. Elements(out)' = {LinesIn(h)[k] : k \in a + 1..q}
      <4>1. Elements(out)' = {out'[k] : k \in 1..Len(out')} BY DEF Elements
      <4>2. \A k \in 1..q - a : a + k \in a + 1..q BY <2>2, <3>1
      <4>3. \A k \in a + 1..q : k - a \in 1..q - a /\ a + (k - a) = k BY <2>2, <3>1
      <4>4. Elements(out)' = {out'[k] : k \in 1..q - a} BY <3>3, <4>1
      <4>5. \A k \in 1..q - a : out'[k] \in {LinesIn(h)[l] : l \in a + 1..q} BY <3>3, <4>2
      <4>6. \A k \in a + 1..q : LinesIn(h)[k] \in {out'[l] : l \in 1..q - a}
        <5> TAKE k \in a + 1..q
        <5>1. LinesIn(h)[k] = out'[k - a] /\ k - a \in 1..q - a BY <3>3, <4>3
        <5> QED BY <5>1
      <4> QED BY <4>4, <4>5, <4>6
    <3>5. ASSUME NEW k \in 1..q, NEW l \in 1..q
          PROVE  /\ LinesIn(h)[k] \in 1..lines /\ LinesIn(h)[k] \in Nat
                 /\ k < l => LinesIn(h)[k] < LinesIn(h)[l]
      BY <1>1, <2>2, <3>1, SMTT(60) DEF InodesInv
    <3>6. /\ skipped' \in 0..lines /\ skipped' \in Nat
          /\ a > 0 => a \in 1..q /\ skipped' = LinesIn(h)[a]
          /\ a = 0 => skipped' = 0
      BY <1>1, <2>2, <3>1, <3>2, <3>5
    <3>7. \A k \in 1..q : LinesIn(h)[k] \in Elements(out)' <=> LinesIn(h)[k] > skipped'
      <4> SUFFICES ASSUME NEW k \in 1..q
                   PROVE  LinesIn(h)[k] \in Elements(out)' <=> LinesIn(h)[k] > skipped'
        OBVIOUS
      <4>1. LinesIn(h)[k] \in Elements(out)' <=> k > a
        <5>1. \A l \in a + 1..q : l \in 1..q BY <2>2, <3>1
        <5>2. ASSUME LinesIn(h)[k] \in Elements(out)' PROVE k > a
          <6>1. PICK l \in a + 1..q : LinesIn(h)[k] = LinesIn(h)[l] BY <3>4, <5>2
          <6>2. k = l BY <2>2, <3>1, <3>5, <5>1, <6>1
          <6> QED BY <2>2, <3>1, <6>1, <6>2
        <5>3. k > a => k \in a + 1..q BY <2>2, <3>1
        <5> QED BY <3>4, <5>2, <5>3
      <4>2. LinesIn(h)[k] > skipped' <=> k > a
        <5>1. CASE a = 0 BY <1>1, <2>2, <3>5, <3>6, <5>1
        <5>2. CASE a > 0
          <6>1. LinesIn(h)[a] \in Nat /\ LinesIn(h)[k] \in Nat
                /\ (a < k => LinesIn(h)[a] < LinesIn(h)[k])
                /\ (k < a => LinesIn(h)[k] < LinesIn(h)[a])
            BY <3>5, <3>6, <5>2
          <6> QED BY <2>2, <3>1, <3>6, <5>2, <6>1
        <5> QED BY <3>1, <5>1, <5>2
      <4> QED BY <4>1, <4>2
    <3>8. FollowTypeOK' BY <1>1, <2>1, <3>3, <3>6 DEF FollowTypeOK
    <3>9. FrontierInv'
      <4> SUFFICES ASSUME NEW n \in Elements(out)' \cup {skipped'}
                   PROVE  /\ n \in 0..lines
                          /\ \A i \in Inodes : \A k \in 1..Len(LinesIn(i)) :
                               Ahead(i, k)' => n < LinesIn(i)[k]
        BY <1>0 DEF FrontierInv
      <4>1. n = 0 \/ \E l \in 1..q : n = LinesIn(h)[l]
        <5>1. \A l \in a + 1..q : l \in 1..q BY <2>2, <3>1
        <5>2. skipped' = 0 \/ \E l \in 1..q : skipped' = LinesIn(h)[l]
          BY <3>1, <3>6
        <5> QED BY <3>4, <5>1, <5>2
      <4>2. CASE n = 0
        <5>1. ASSUME NEW i \in Inodes, NEW k \in 1..Len(LinesIn(i)) PROVE 0 < LinesIn(i)[k]
          <6>1. LinesIn(i)[k] \in 1..lines BY <1>1
          <6> QED BY <1>1, <6>1
        <5> QED BY <1>1, <4>2, <5>1
      <4>3. ASSUME NEW l \in 1..q, n = LinesIn(h)[l],
                   NEW i \in Inodes, NEW k \in 1..Len(LinesIn(i)), Ahead(i, k)'
            PROVE  n < LinesIn(i)[k]
        <5>1. i > h \/ (i = h /\ k > q) BY <2>1, <2>2, <4>3 DEF Ahead
        <5>2. h < i \/ (h = i /\ l < k) BY <1>1, <2>2, <5>1
        <5>3. l \in 1..Len(LinesIn(h)) BY <2>2
        <5> QED BY <2>2, <4>3, <5>2, <5>3 DEF InodesInv
      <4> QED BY <1>1, <3>5, <4>1, <4>2, <4>3
    <3>10. PlaceInv'
      BY <1>0, <2>1, <2>2, <3>7 DEF PlaceInv, Filling
    <3>11. ShownInOrder'
      <4>1. Increasing(out')
        <5> SUFFICES ASSUME NEW j \in 1..q - a, NEW k \in 1..q - a, j < k
                     PROVE  out'[j] < out'[k]
          BY <3>3 DEF Increasing
        <5>1. a + j \in 1..q /\ a + k \in 1..q /\ a + j < a + k BY <2>2, <3>1
        <5> QED BY <3>3, <3>5, <5>1
      <4>2. ASSUME NEW i \in Inodes, NEW j \in 1..Len(LinesIn(i)), NEW k \in 1..Len(LinesIn(i)),
                   NEW l \in 1..Len(LinesIn(i)), j < k, k < l,
                   LinesIn(i)[j] \in Elements(out)', LinesIn(i)[l] \in Elements(out)'
            PROVE  LinesIn(i)[k] \in Elements(out)'
        <5>1. PICK x \in a + 1..q : LinesIn(i)[j] = LinesIn(h)[x] BY <3>4, <4>2
        <5>2. PICK y \in a + 1..q : LinesIn(i)[l] = LinesIn(h)[y] BY <3>4, <4>2
        <5>3. x \in 1..Len(LinesIn(h)) /\ y \in 1..Len(LinesIn(h)) BY <2>2, <3>1
        <5>4. h \in Inodes BY <2>2
        <5>5. i = h /\ j = x /\ l = y
          <6>1. i = h /\ j = x BY <5>1, <5>3, <5>4, OnePlace
          <6>2. l = y BY <5>2, <5>3, <5>4, OnePlace
          <6> QED BY <6>1, <6>2
        <5>6. k \in a + 1..q BY <2>2, <3>1, <4>2, <5>5
        <5> QED BY <3>4, <5>5, <5>6
      <4>3. \A k \in 1..pos' : Held'[k] > skipped' => Held'[k] \in Elements(out)'
        BY <2>2, <3>7
      <4> QED BY <1>0, <4>1, <4>2, <4>3 DEF ShownInOrder
    <3> QED BY <3>8, <3>9, <3>10, <3>11 DEF ReaderInv
  <2> QED BY <2>3, <2>4
\* A file that has taken the path is newer than the one the reader has open.
<1>7. ASSUME Rotated, handle \in Inodes PROVE dir[0] = Len(data) /\ handle < dir[0] /\ dir[0] \in Inodes
  BY <1>1, <1>7, Behind DEF Rotated, InodesInv, Inodes
<1>8. CASE LogsTick
  <2>1. /\ reading = "tick" /\ reading' = "read"
        /\ UNCHANGED <<program, lastN, out, skipped, chan, shown, since, dropped>>
    BY <1>8 DEF LogsTick, browserVars
  <2>2. CASE ~Rotated
    <3>1. UNCHANGED <<handle, pos>> BY <1>8, <2>2 DEF LogsTick
    <3>2. ReaderInv' BY <1>0, <2>1, <3>1, StaysPut
    <3>3. FollowTypeOK' BY <1>1, <1>2, <2>1, <3>1 DEF FollowTypeOK
    <3> QED BY <3>2, <3>3
  <2>3. CASE Rotated
    <3>0. PICK h : h = dir[0] OBVIOUS
    <3>1. handle' = h /\ pos' = 0 BY <1>8, <2>3, <3>0 DEF LogsTick, StartOf
    <3>2. handle \in Inodes BY <2>1 DEF ReaderInv, PlaceInv
    <3>3. h = Len(data) /\ handle < h /\ h \in Inodes BY <1>7, <2>3, <3>0, <3>2
    <3>4. FollowTypeOK' BY <1>1, <2>1, <3>1, <3>3 DEF FollowTypeOK
    <3>5. Elements(out)' = Elements(out) BY <2>1 DEF Elements
    <3>6. FrontierInv'
      <4> SUFFICES ASSUME NEW i \in Inodes, NEW k \in 1..Len(LinesIn(i)), Ahead(i, k)'
                   PROVE  Ahead(i, k)
        BY <1>0, <2>1, <3>5 DEF ReaderInv, FrontierInv
      <4>1. i >= h BY <1>1, <2>1, <3>1, <3>3 DEF Ahead
      <4> QED BY <1>1, <2>1, <3>3, <4>1 DEF Ahead
    <3>7. PlaceInv'
      <4>1. Held' = LinesIn(h) BY <1>0, <3>1 DEF Held, LinesIn
      <4> QED BY <1>0, <1>1, <2>1, <3>1, <3>3, <4>1 DEF PlaceInv, Filling
    <3>8. ShownInOrder'
      BY <1>0, <2>1, <3>1, <3>5 DEF ReaderInv, ShownInOrder
    <3> QED BY <3>4, <3>6, <3>7, <3>8 DEF ReaderInv
  <2> QED BY <2>2, <2>3
<1>9. CASE OpenTail
  <2>0. PICK h : h = dir[0] OBVIOUS
  <2>1. /\ reading = "open" /\ reading' = "seek" /\ handle' = h /\ h # NoFile
        /\ UNCHANGED <<program, lastN, pos, out, skipped, chan, shown, since, dropped>>
    BY <1>9, <2>0 DEF OpenTail, browserVars
  <2>2. h = Len(data) /\ h \in Inodes /\ h \in Nat
    BY <1>1, <2>0, <2>1, Behind DEF InodesInv
  <2>3. FollowTypeOK' BY <2>1, <2>2 DEF FollowTypeOK
  <2>4. Elements(out)' = Elements(out) BY <2>1 DEF Elements
  <2>5. FrontierInv'
    <3> SUFFICES ASSUME NEW i \in Inodes, NEW k \in 1..Len(LinesIn(i)), Ahead(i, k)'
                 PROVE  Ahead(i, k)
      BY <1>0, <2>1, <2>4 DEF ReaderInv, FrontierInv
    <3>1. i >= h /\ i <= Len(data) BY <1>1, <2>1 DEF Ahead, Inodes
    <3>2. i = Len(data) BY <1>1, <2>2, <3>1
    <3> QED BY <2>1, <3>2 DEF Ahead
  <2>6. PlaceInv' BY <1>0, <2>1, <2>2 DEF PlaceInv, Filling
  <2>7. ShownInOrder' BY <1>0, <2>1, <2>4 DEF ReaderInv, ShownInOrder
  <2> QED BY <2>3, <2>5, <2>6, <2>7 DEF ReaderInv
<1>10. CASE SeekEnd
  <2>0. PICK h : h = handle OBVIOUS
  <2>1. /\ reading = "seek" /\ reading' = "read" /\ handle' = h /\ Held = LinesIn(h)
        /\ pos' = Len(LinesIn(h))
        /\ skipped' = IF LinesIn(h) = << >> THEN skipped ELSE LinesIn(h)[Len(LinesIn(h))]
        /\ UNCHANGED <<program, lastN, out, chan, shown, since, dropped>>
    BY <1>10, <2>0 DEF SeekEnd, browserVars, Held, LastOf
  <2>2. /\ h \in Inodes /\ h \in Nat /\ LinesIn(h) \in Seq(Nat) /\ Len(LinesIn(h)) \in Nat
        /\ Held' = LinesIn(h) /\ Elements(out)' = Elements(out)
    BY <1>0, <1>1, <2>0, <2>1 DEF ReaderInv, PlaceInv, Held, LinesIn, Elements
  <2>3. /\ LinesIn(h) = << >> <=> Len(LinesIn(h)) = 0
        /\ Len(LinesIn(h)) # 0 => Len(LinesIn(h)) \in 1..Len(LinesIn(h))
    BY <2>2
  <2>4. skipped' \in Nat /\ skipped' \in 0..lines
    <3>1. skipped \in 0..lines BY DEF ReaderInv, FrontierInv
    <3>2. Len(LinesIn(h)) # 0 => LinesIn(h)[Len(LinesIn(h))] \in 1..lines
      BY <1>1, <2>2, <2>3
    <3> QED BY <1>1, <2>1, <2>3, <3>1, <3>2
  <2>5. FollowTypeOK' BY <2>1, <2>2, <2>4 DEF FollowTypeOK
  <2>6. ASSUME NEW i \in Inodes, NEW k \in 1..Len(LinesIn(i)), NEW n \in Elements(out) \cup {skipped}, i >= h
        PROVE  n < LinesIn(i)[k]
    <3>1. Ahead(i, k) BY <2>0, <2>1, <2>6 DEF Ahead
    <3> QED BY <2>6, <3>1 DEF ReaderInv, FrontierInv
  <2>7. FrontierInv'
    <3> SUFFICES ASSUME NEW n \in Elements(out) \cup {skipped'},
                        NEW i \in Inodes, NEW k \in 1..Len(LinesIn(i)), Ahead(i, k)'
                 PROVE  n < LinesIn(i)[k]
      BY <1>0, <2>2, <2>4 DEF ReaderInv, FrontierInv
    <3>1. k \in Nat /\ i \in Nat BY <1>1
    <3>2. i > h
      BY <2>1, <2>2, <3>1 DEF Ahead
    <3>3. CASE n \in Elements(out) \cup {skipped}
      BY <1>1, <2>2, <2>6, <3>2, <3>3
    <3>4. CASE n = skipped' /\ LinesIn(h) # << >>
      BY <2>1, <2>2, <2>3, <3>1, <3>2, <3>4 DEF InodesInv
    <3> QED BY <2>1, <3>3, <3>4
  <2>8. ASSUME NEW k \in 1..Len(LinesIn(h))
        PROVE  LinesIn(h)[k] \notin Elements(out) /\ ~(LinesIn(h)[k] > skipped')
    <3>1. LinesIn(h)[k] \in 1..lines /\ LinesIn(h)[k] \in Nat BY <1>1, <2>2
    <3>2. LinesIn(h)[k] \notin Elements(out)
      <4>1. LinesIn(h)[k] \in Elements(out) => LinesIn(h)[k] < LinesIn(h)[k] BY <2>2, <2>6
      <4> QED BY <3>1, <4>1
    <3>3. skipped' = LinesIn(h)[Len(LinesIn(h))] /\ Len(LinesIn(h)) \in 1..Len(LinesIn(h))
      BY <2>1, <2>2, <2>3
    <3>4. k < Len(LinesIn(h)) => LinesIn(h)[k] < skipped'
      BY <2>2, <3>3 DEF InodesInv
    <3> QED BY <2>2, <2>4, <3>1, <3>2, <3>3, <3>4
  <2>9. PlaceInv' BY <1>0, <2>1, <2>2, <2>8 DEF PlaceInv, Filling
  <2>10. ShownInOrder' BY <1>0, <2>1, <2>2, <2>8 DEF ReaderInv, ShownInOrder
  <2> QED BY <2>5, <2>7, <2>9, <2>10 DEF ReaderInv
<1>13. CASE TailTick
  <2>1. /\ program = "ui" /\ reading = "tick"
        /\ UNCHANGED <<program, lastN, pos, out, skipped, chan, shown, since, dropped>>
    BY <1>13 DEF TailTick, browserVars
  <2>2. CASE ~Rotated
    <3>1. reading' = "read" /\ UNCHANGED handle BY <1>13, <2>2 DEF TailTick
    <3>2. ReaderInv' BY <1>0, <2>1, <3>1, StaysPut
    <3>3. FollowTypeOK' BY <1>1, <1>2, <2>1, <3>1 DEF FollowTypeOK
    <3> QED BY <3>2, <3>3
  <2>3. CASE Rotated
    <3>1. reading' = "open" /\ handle' = NoFile BY <1>13, <2>3 DEF TailTick
    <3>2. handle \in Inodes BY <2>1 DEF ReaderInv, PlaceInv
    <3>3. handle < Len(data) BY <1>7, <2>3, <3>2
    <3>4. FollowTypeOK' BY <2>1, <3>1 DEF FollowTypeOK, NoFile
    <3>5. Elements(out)' = Elements(out) BY <2>1 DEF Elements
    <3>6. FrontierInv'
      <4> SUFFICES ASSUME NEW i \in Inodes, NEW k \in 1..Len(LinesIn(i)), Ahead(i, k)'
                   PROVE  Ahead(i, k)
        BY <1>0, <2>1, <3>5 DEF ReaderInv, FrontierInv
      <4>1. i = Len(data) BY <1>0, <3>1 DEF Ahead
      <4> QED BY <1>1, <2>1, <3>3, <4>1 DEF Ahead
    <3>7. PlaceInv' BY <2>1, <3>1 DEF PlaceInv, Filling
    <3>8. ShownInOrder' BY <1>0, <2>1, <3>1, <3>5 DEF ReaderInv, ShownInOrder
    <3> QED BY <3>4, <3>6, <3>7, <3>8 DEF ReaderInv
  <2> QED BY <2>2, <2>3
<1>14. ASSUME NEW b \in Browsers, SendTo(b) \/ Handler(b) PROVE FollowTypeOK' /\ ReaderInv'
  <2>1. UNCHANGED <<program, lastN, reading, handle, pos, skipped, out>>
    BY <1>14 DEF SendTo, Handler, Subscribe, Deliver, Unsubscribe, CloseChan, TakeOut, readerVars
  <2>2. ReaderInv' BY <1>0, <2>1, StaysPut
  <2>3. /\ chan' \in [Browsers -> Seq(Nat)] /\ shown' \in [Browsers -> Seq(Nat)]
        /\ since' \in [Browsers -> Nat] /\ dropped' \in [Browsers -> SUBSET Nat]
    <3> USE DEF FollowTypeOK
    <3>1. LastOf(out) \in Nat /\ Len(out) \in Nat BY DEF LastOf
    <3>2. CASE SendTo(b)
      <4>1. chan[b] \in Seq(Nat) /\ Append(chan[b], LastOf(out)) \in Seq(Nat) BY <3>1
      <4> QED BY <3>1, <3>2, <4>1 DEF SendTo
    <3>3. CASE Subscribe(b)
      <4>1. << >> \in Seq(Nat) OBVIOUS
      <4> QED BY <3>1, <3>3, <4>1 DEF Subscribe
    <3>4. CASE Deliver(b)
      <4>1. chan[b] \in Seq(Nat) /\ chan[b] # << >> /\ shown[b] \in Seq(Nat) BY <3>4 DEF Deliver
      <4>2. Tail(chan[b]) \in Seq(Nat) /\ Append(shown[b], Head(chan[b])) \in Seq(Nat) BY <4>1
      <4> QED BY <3>4, <4>2 DEF Deliver
    <3>5. CASE Unsubscribe(b) \/ CloseChan(b) BY <3>5 DEF Unsubscribe, CloseChan
    <3> QED BY <1>14, <3>2, <3>3, <3>4, <3>5 DEF Handler
  <2>4. FollowTypeOK' BY <2>1, <2>3 DEF FollowTypeOK
  <2> QED BY <2>2, <2>4
<1> QED
  BY <1>3, <1>4, <1>5, <1>6, <1>8, <1>9, <1>10, <1>11, <1>12, <1>13, <1>14
     DEF FollowStep, Reader

-------------------------------------------------------------------------------
(* The browsers.                                                           *)

\* The mutex, the map of subscribers and the channels agree, whatever the writer does.
LEMMA RegisteredStep ==
  ASSUME RegisteredInv, FollowNext \/ UNCHANGED <<vars, followVars>>
  PROVE  RegisteredInv'
<1> USE DEF RegisteredInv
<1>1. CASE WriterStep \/ UNCHANGED <<vars, followVars>>
  BY <1>1 DEF WriterStep, followVars, readerVars, browserVars
<1>2. ASSUME UNCHANGED <<program, mu, clients, todo, page, closed>>,
             reading' # "publish", reading # "publish", reading' = "existing" => program = "logs"
      PROVE  RegisteredInv'
  BY <1>2
<1>3. CASE OpenLog \/ ReadExisting \/ EndExisting \/ PrintLine \/ LogsTick \/ OpenTail
           \/ SeekEnd \/ EndOfFile \/ TailTick
  <2>1. UNCHANGED <<program, mu, clients, todo, page, closed>> /\ reading # "publish"
        /\ reading' # "publish"
    BY <1>3 DEF OpenLog, ReadExisting, EndExisting, PrintLine, LogsTick, OpenTail, SeekEnd,
         EndOfFile, TailTick, browserVars
  <2>2. reading' = "existing" => program = "logs"
    BY <1>3 DEF OpenLog, ReadExisting, EndExisting, PrintLine, LogsTick, OpenTail, SeekEnd,
         EndOfFile, TailTick
  <2> QED BY <1>2, <2>1, <2>2
<1>4. CASE Publish
  BY <1>4 DEF Publish, Recipients, browserVars
<1>5. CASE EndPublish
  BY <1>5 DEF EndPublish, browserVars
<1>6. ASSUME NEW b \in Browsers, SendTo(b) PROVE RegisteredInv'
  BY <1>6 DEF SendTo, readerVars
<1>7. ASSUME NEW b \in Browsers, Subscribe(b) PROVE RegisteredInv'
  <2>1. /\ program = "ui" /\ mu = "free" /\ clients' = clients \cup {b}
        /\ page' = [page EXCEPT ![b] = "live"] /\ closed' = [closed EXCEPT ![b] = FALSE]
        /\ UNCHANGED <<program, reading, mu, todo>>
    BY <1>7 DEF Subscribe, readerVars
  <2>2. page' \in [Browsers -> {"away", "live", "closing"}] /\ closed' \in [Browsers -> BOOLEAN]
    BY <2>1
  <2>3. clients' = {c \in Browsers : page'[c] = "live"}
    BY <2>1
  <2>4. \A c \in clients' : ~closed'[c]
    BY <2>1
  <2> QED BY <2>1, <2>2, <2>3, <2>4
<1>8. ASSUME NEW b \in Browsers, Deliver(b) PROVE RegisteredInv'
  BY <1>8 DEF Deliver, readerVars
<1>9. ASSUME NEW b \in Browsers, Unsubscribe(b) PROVE RegisteredInv'
  <2>1. /\ mu = "free" /\ clients' = clients \ {b} /\ page' = [page EXCEPT ![b] = "closing"]
        /\ UNCHANGED <<program, reading, mu, todo, closed>>
    BY <1>9 DEF Unsubscribe, TakeOut, readerVars
  <2>2. page' \in [Browsers -> {"away", "live", "closing"}] /\ todo = {}
    BY <2>1
  <2>3. clients' = {c \in Browsers : page'[c] = "live"}
    BY <2>1
  <2> QED BY <2>1, <2>2, <2>3
<1>10. ASSUME NEW b \in Browsers, CloseChan(b) PROVE RegisteredInv'
  <2>1. /\ page[b] = "closing" /\ closed' = [closed EXCEPT ![b] = TRUE]
        /\ page' = [page EXCEPT ![b] = "away"]
        /\ UNCHANGED <<program, reading, mu, clients, todo>>
    BY <1>10 DEF CloseChan, readerVars
  <2>2. page' \in [Browsers -> {"away", "live", "closing"}] /\ closed' \in [Browsers -> BOOLEAN]
    BY <2>1
  <2>3. clients' = {c \in Browsers : page'[c] = "live"} /\ b \notin clients
    BY <2>1
  <2>4. \A c \in clients' : ~closed'[c]
    BY <2>1, <2>3
  <2> QED BY <2>1, <2>2, <2>3, <2>4
<1> QED
  BY <1>1, <1>3, <1>4, <1>5, <1>6, <1>7, <1>8, <1>9, <1>10
     DEF FollowNext, FollowStep, Reader, Handler

\* What holds of the stream of one page.
PageInv(b) ==
  /\ since[b] <= Len(out) /\ (b \in todo => since[b] < Len(out))
  /\ dropped[b] \subseteq Meant(b)
  /\ Increasing(Got(b)) /\ Elements(Got(b)) = Meant(b) \ dropped[b]

\* The streams of the pages are as they should be, one by one.
LEMMA PageByPage ==
  ASSUME RegisteredInv
  PROVE  StreamInv /\ GapsOnlyWhenSlow <=> \A b \in clients : PageInv(b)
  BY DEF RegisteredInv, StreamInv, GapsOnlyWhenSlow, PageInv

\* Two sequences of a page, of numbers both, are one.
LEMMA GotIsSeq ==
  ASSUME FollowTypeOK, NEW b \in Browsers
  PROVE  Got(b) \in Seq(Nat) /\ chan[b] \in Seq(Nat) /\ shown[b] \in Seq(Nat)
  BY DEF FollowTypeOK, Got

\* A line put behind the waiting ones is behind all that the page has got.
LEMMA AppendBehind ==
  ASSUME NEW s \in Seq(Nat), NEW t \in Seq(Nat), NEW n \in Nat
  PROVE  s \o Append(t, n) = Append(s \o t, n)
<1>1. <<n>> \in Seq(Nat) /\ s \o t \in Seq(Nat)
  OBVIOUS
<1>2. Append(t, n) = t \o <<n>> /\ Append(s \o t, n) = (s \o t) \o <<n>>
  BY <1>1, AppendIsConcat
<1>3. s \o (t \o <<n>>) = (s \o t) \o <<n>>
  BY <1>1, ConcatAssociative, SMTT(60)
<1> QED BY <1>2, <1>3

\* A page for which nothing changes.
LEMMA SamePage ==
  ASSUME NEW b, PageInv(b), UNCHANGED out, b \in todo' <=> b \in todo,
         since'[b] = since[b], dropped'[b] = dropped[b], Got(b)' = Got(b)
  PROVE  PageInv(b)'
<1>1. Meant(b)' = Meant(b) BY DEF Meant
<1>2. Elements(Got(b))' = Elements(Got(b)) /\ Increasing(Got(b))' = Increasing(Got(b))
  BY DEF Elements, Increasing
<1> QED BY <1>1, <1>2 DEF PageInv

\* Every page gets what is published while it is connected, but for what its full
\* channel refuses.
LEMMA StreamStep ==
  ASSUME FollowTypeOK, Increasing(out), RegisteredInv, StreamInv, GapsOnlyWhenSlow,
         TypeOK, PlaceInv, RegisteredInv', FollowNext \/ UNCHANGED <<vars, followVars>>
  PROVE  StreamInv' /\ GapsOnlyWhenSlow'
<1>1. \A b \in clients : PageInv(b)
  BY PageByPage
<1>2. SUFFICES ASSUME NEW b \in clients' PROVE PageInv(b)'
  BY DEF RegisteredInv, StreamInv, GapsOnlyWhenSlow, PageInv
<1>3. clients \subseteq Browsers /\ clients' \subseteq Browsers /\ out \in Seq(Nat) /\ Len(out) \in Nat
      /\ \A c \in Browsers : since[c] \in Nat
  BY DEF RegisteredInv, FollowTypeOK
<1>4. ASSUME b \in clients, UNCHANGED <<out, todo, since, dropped, chan, shown>> PROVE PageInv(b)'
  BY <1>1, <1>4, SamePage DEF Got
<1>5. CASE WriterStep \/ UNCHANGED <<vars, followVars>>
  <2>1. UNCHANGED <<clients, out, todo, since, dropped, chan, shown>>
    BY <1>5 DEF WriterStep, followVars, browserVars
  <2> QED BY <1>4, <2>1
\* logs -f has no pages.
<1>6. CASE OpenLog \/ ReadExisting \/ EndExisting \/ PrintLine \/ LogsTick
  <2>1. program = "logs" /\ clients' = clients
    BY <1>6 DEF OpenLog, ReadExisting, EndExisting, PrintLine, LogsTick, RegisteredInv
  <2> QED BY <2>1 DEF RegisteredInv
<1>7. CASE OpenTail \/ SeekEnd \/ EndOfFile \/ TailTick \/ EndPublish
  <2>1. UNCHANGED <<clients, out, todo, since, dropped, chan, shown>>
    BY <1>7 DEF OpenTail, SeekEnd, EndOfFile, TailTick, EndPublish, browserVars
  <2> QED BY <1>4, <2>1
<1>8. CASE Publish
  <2>1. /\ reading = "read" /\ pos # Len(Held) /\ todo' = clients /\ clients' = clients
        /\ out' = Append(out, Held[pos + 1]) /\ UNCHANGED <<since, dropped, chan, shown>>
    BY <1>8 DEF Publish, AtEOF, Recipients, browserVars
  <2>2. Held[pos + 1] \in Nat
    <3>1. handle \in Inodes /\ pos <= Len(Held) /\ pos \in Nat
      BY <2>1 DEF PlaceInv, FollowTypeOK
    <3>2. Held \in Seq(Nat) /\ Len(Held) \in Nat
      BY <3>1, LinesOfInodes DEF Held
    <3>3. pos + 1 \in 1..Len(Held)
      BY <2>1, <3>1, <3>2
    <3> QED BY <3>2, <3>3
  <2>3. Len(out') = Len(out) + 1 /\ \A i \in 1..Len(out) : out'[i] = out[i]
    BY <1>3, <2>1, <2>2
  <2>4. b \in clients /\ b \in todo' /\ b \notin todo /\ since'[b] = since[b] /\ since[b] \in Nat
        /\ since[b] <= Len(out)
    BY <1>1, <1>3, <2>1 DEF RegisteredInv, PageInv
  <2>5. Meant(b)' = Meant(b)
    <3>1. Meant(b) = {out[i] : i \in since[b] + 1..Len(out)}
      BY <2>4 DEF Meant
    <3>2. Meant(b)' = {out'[i] : i \in since[b] + 1..Len(out') - 1}
      BY <2>4 DEF Meant
    <3>3. Len(out') - 1 = Len(out) /\ \A i \in since[b] + 1..Len(out) : out'[i] = out[i]
      BY <1>3, <2>3, <2>4
    <3> QED BY <3>1, <3>2, <3>3
  <2>6. Got(b)' = Got(b) BY <2>1 DEF Got
  <2>7. Elements(Got(b))' = Elements(Got(b)) /\ Increasing(Got(b))' = Increasing(Got(b))
    BY <2>6 DEF Elements, Increasing
  <2> QED BY <1>1, <1>3, <2>1, <2>3, <2>4, <2>5, <2>7 DEF PageInv
<1>9. ASSUME NEW c \in Browsers, SendTo(c) PROVE PageInv(b)'
  <2>1. /\ c \in todo /\ todo' = todo \ {c} /\ UNCHANGED <<out, clients, since, shown>>
        /\ \/ chan' = [chan EXCEPT ![c] = Append(chan[c], LastOf(out))] /\ UNCHANGED dropped
           \/ dropped' = [dropped EXCEPT ![c] = dropped[c] \cup {LastOf(out)}] /\ UNCHANGED chan
    BY <1>9 DEF SendTo
  <2>2. b \in clients /\ PageInv(b)
    BY <1>1, <2>1
  <2>3. chan \in [Browsers -> Seq(Nat)] /\ dropped \in [Browsers -> SUBSET Nat]
    BY DEF FollowTypeOK
  <2>4. CASE b # c
    <3>1. dropped'[b] = dropped[b] /\ chan'[b] = chan[b]
      BY <1>3, <2>1, <2>2, <2>3, <2>4
    <3>2. Got(b)' = Got(b) BY <2>1, <3>1 DEF Got
    <3> QED BY <2>1, <2>2, <2>4, <3>1, <3>2, SamePage
  <2>5. CASE b = c
    <3>1. PICK n : n = LastOf(out) OBVIOUS
    <3>2. since[b] \in Nat /\ since[b] < Len(out) /\ b \in todo /\ b \notin todo' /\ n = out[Len(out)]
          /\ n \in Nat
      <4>1. since[b] \in Nat /\ since[b] < Len(out) /\ b \in todo /\ b \notin todo'
        BY <1>3, <2>1, <2>2, <2>5 DEF PageInv
      <4>2. out # << >> /\ Len(out) \in 1..Len(out)
        BY <1>3, <4>1
      <4> QED BY <1>3, <3>1, <4>1, <4>2 DEF LastOf
    <3>3. /\ Meant(b)' = Meant(b) \cup {n} /\ \A m \in Meant(b) : m \in Nat /\ m < n
      <4>1. Meant(b) = {out[i] : i \in since[b] + 1..Len(out) - 1}
        BY <3>2 DEF Meant
      <4>2. Meant(b)' = {out[i] : i \in since[b] + 1..Len(out)}
        BY <2>1, <3>2 DEF Meant
      <4>3. since[b] + 1..Len(out) = (since[b] + 1..Len(out) - 1) \cup {Len(out)}
        BY <1>3, <3>2
      <4>4. \A i \in since[b] + 1..Len(out) - 1 : out[i] \in Nat /\ out[i] < out[Len(out)]
        <5> SUFFICES ASSUME NEW i \in since[b] + 1..Len(out) - 1
                     PROVE  out[i] \in Nat /\ out[i] < out[Len(out)]
          OBVIOUS
        <5>1. i \in 1..Len(out) /\ Len(out) \in 1..Len(out) /\ i < Len(out)
          BY <1>3, <3>2
        <5> QED BY <1>3, <5>1 DEF Increasing
      <4> QED BY <3>2, <4>1, <4>2, <4>3, <4>4
    <3>4. CASE chan' = [chan EXCEPT ![c] = Append(chan[c], LastOf(out))] /\ UNCHANGED dropped
      <4>1. Got(b) \in Seq(Nat) /\ Got(b)' = Append(Got(b), n)
        <5>1. chan'[b] = Append(chan[b], n) /\ shown'[b] = shown[b]
          BY <1>3, <2>1, <2>2, <2>3, <2>5, <3>1, <3>4
        <5>2. chan[b] \in Seq(Nat) /\ shown[b] \in Seq(Nat) /\ Got(b) \in Seq(Nat)
          BY <1>3, <2>2, GotIsSeq
        <5>3. shown[b] \o Append(chan[b], n) = Append(shown[b] \o chan[b], n)
          BY <3>2, <5>2, AppendBehind
        <5> QED BY <5>1, <5>2, <5>3 DEF Got
      <4>2. \A m \in Elements(Got(b)) : m < n
        BY <2>2, <3>3 DEF PageInv
      <4>3. /\ Elements(Append(Got(b), n)) = Elements(Got(b)) \cup {n}
            /\ Increasing(Append(Got(b), n))
        BY <2>2, <3>2, <4>1, <4>2, OneMore DEF PageInv
      <4>4. Elements(Got(b))' = Elements(Got(b)) \cup {n} /\ Increasing(Got(b))'
        BY <4>1, <4>3 DEF Elements, Increasing
      <4>5. n \notin dropped[b] /\ dropped'[b] = dropped[b]
        BY <2>2, <3>2, <3>3, <3>4 DEF PageInv
      <4>6. Elements(Got(b))' = Meant(b)' \ dropped'[b]
        BY <2>2, <3>3, <4>4, <4>5 DEF PageInv
      <4> QED BY <2>1, <2>2, <3>2, <3>3, <4>4, <4>5, <4>6 DEF PageInv
    <3>5. CASE dropped' = [dropped EXCEPT ![c] = dropped[c] \cup {LastOf(out)}] /\ UNCHANGED chan
      <4>1. dropped'[b] = dropped[b] \cup {n}
        BY <1>3, <2>2, <2>3, <2>5, <3>1, <3>5
      <4>2. Got(b)' = Got(b) BY <2>1, <3>5 DEF Got
      <4>3. Elements(Got(b))' = Elements(Got(b)) /\ Increasing(Got(b))'
        BY <2>2, <4>2 DEF Elements, Increasing, PageInv
      <4>4. n \notin Elements(Got(b))
        BY <2>2, <3>2, <3>3 DEF PageInv
      <4>5. Elements(Got(b))' = Meant(b)' \ dropped'[b] /\ dropped'[b] \subseteq Meant(b)'
        BY <2>2, <3>3, <4>1, <4>3, <4>4 DEF PageInv
      <4> QED BY <2>1, <2>2, <3>2, <4>3, <4>5 DEF PageInv
    <3> QED BY <2>1, <3>4, <3>5
  <2> QED BY <2>4, <2>5
<1>10. ASSUME NEW c \in Browsers, Subscribe(c) PROVE PageInv(b)'
  <2>1. /\ mu = "free" /\ clients' = clients \cup {c} /\ UNCHANGED <<out, todo>>
        /\ chan' = [chan EXCEPT ![c] = << >>] /\ shown' = [shown EXCEPT ![c] = << >>]
        /\ since' = [since EXCEPT ![c] = Len(out)] /\ dropped' = [dropped EXCEPT ![c] = {}]
    BY <1>10 DEF Subscribe
  <2>2. /\ chan \in [Browsers -> Seq(Nat)] /\ shown \in [Browsers -> Seq(Nat)]
        /\ since \in [Browsers -> Nat] /\ dropped \in [Browsers -> SUBSET Nat] /\ todo = {}
    BY <2>1 DEF FollowTypeOK, RegisteredInv
  <2>3. CASE b = c
    <3>1. /\ since'[b] = Len(out) /\ chan'[b] = << >> /\ shown'[b] = << >> /\ dropped'[b] = {}
          /\ b \notin todo'
      BY <2>1, <2>2, <2>3
    <3>2. Meant(b)' = {}
      <4>1. Meant(b)' = {out[i] : i \in Len(out) + 1..Len(out)}
        BY <2>1, <3>1 DEF Meant
      <4>2. Len(out) + 1..Len(out) = {}
        BY <1>3
      <4> QED BY <4>1, <4>2
    <3>3. Got(b)' = << >> /\ Len(<< >>) = 0
      BY <3>1 DEF Got
    <3>4. Elements(Got(b))' = {} /\ Increasing(Got(b))'
      BY <3>3 DEF Elements, Increasing
    <3> QED BY <1>3, <2>1, <3>1, <3>2, <3>4 DEF PageInv
  <2>4. CASE b # c
    <3>1. since'[b] = since[b] /\ chan'[b] = chan[b] /\ shown'[b] = shown[b] /\ dropped'[b] = dropped[b]
          /\ b \in clients
      BY <1>3, <2>1, <2>2, <2>4
    <3>2. Got(b)' = Got(b) BY <3>1 DEF Got
    <3> QED BY <1>1, <2>1, <3>1, <3>2, SamePage
  <2> QED BY <2>3, <2>4
<1>11. ASSUME NEW c \in Browsers, Deliver(c) PROVE PageInv(b)'
  <2>1. /\ chan[c] # << >> /\ shown' = [shown EXCEPT ![c] = Append(shown[c], Head(chan[c]))]
        /\ chan' = [chan EXCEPT ![c] = Tail(chan[c])]
        /\ UNCHANGED <<clients, out, todo, since, dropped>>
    BY <1>11 DEF Deliver
  <2>2. Got(b)' = Got(b)
    <3>1. /\ chan \in [Browsers -> Seq(Nat)] /\ shown \in [Browsers -> Seq(Nat)]
          /\ chan[c] \in Seq(Nat) /\ shown[c] \in Seq(Nat)
      BY DEF FollowTypeOK
    <3>2. CASE b = c
      <4>1. Got(b)' = Append(shown[c], Head(chan[c])) \o Tail(chan[c])
        BY <2>1, <3>1, <3>2 DEF Got
      <4>2. Append(shown[c], Head(chan[c])) \o Tail(chan[c]) = shown[c] \o chan[c]
        BY <2>1, <3>1, SMTT(60)
      <4> QED BY <3>2, <4>1, <4>2 DEF Got
    <3>3. CASE b # c
      BY <1>3, <2>1, <3>1, <3>3 DEF Got
    <3> QED BY <3>2, <3>3
  <2> QED BY <1>1, <2>1, <2>2, SamePage
<1>12. ASSUME NEW c \in Browsers, Unsubscribe(c) \/ CloseChan(c) PROVE PageInv(b)'
  <2>1. clients' \subseteq clients /\ UNCHANGED <<out, todo, since, dropped, chan, shown>>
    BY <1>12 DEF Unsubscribe, TakeOut, CloseChan
  <2> QED BY <1>4, <2>1
<1> QED
  BY <1>5, <1>6, <1>7, <1>8, <1>9, <1>10, <1>11, <1>12
     DEF FollowNext, FollowStep, Reader, Handler

-------------------------------------------------------------------------------
(* The theorems.                                                           *)

\* A step of the system is one of the writer, or leaves the log alone.
LEMMA WriterOrNot ==
  [FollowNext]_<<vars, followVars>> => [Next]_vars
BY DEF FollowNext, WriterStep, FollowStep

\* At the start nothing has been read, and no page is connected.
LEMMA FollowInitInv ==
  Init /\ FollowInit => FollowInv /\ RegisteredInv /\ StreamInv
<1> SUFFICES ASSUME Init, FollowInit PROVE FollowInv /\ RegisteredInv /\ StreamInv
  OBVIOUS
<1>1. /\ data = << >> /\ lines = 0 /\ dir[0] = NoFile /\ Len(data) = 0 /\ NoFile = 0
  BY DEF Init, NoFile, Slots
<1>2. Inodes = {}
  BY <1>1 DEF Inodes
<1>3. out = << >> /\ Elements(out) = {} /\ Increasing(out) /\ skipped = 0 /\ reading = "open"
  BY DEF FollowInit, Elements, Increasing
<1>4. FollowTypeOK
  BY ProgramsAssumption DEF FollowInit, FollowTypeOK, NoFile
<1>5. InodesInv
  BY <1>1, <1>2 DEF InodesInv
<1>6. FrontierInv /\ PlaceInv /\ ShownInOrder
  BY <1>1, <1>2, <1>3 DEF FrontierInv, PlaceInv, ShownInOrder, Filling, FollowInit
<1>7. RegisteredInv
  BY DEF FollowInit, RegisteredInv
<1>8. StreamInv
  BY DEF FollowInit, StreamInv
<1> QED BY <1>4, <1>5, <1>6, <1>7, <1>8 DEF FollowInv

\* Neither the writer nor the follower disturbs the follower's place.
LEMMA FollowInvStep ==
  ASSUME AuditInv, FollowInv, RegisteredInv, [FollowNext]_<<vars, followVars>>
  PROVE  FollowInv'
<1> TypeOK /\ FollowTypeOK /\ InodesInv /\ ReaderInv
  BY DEF AuditInv, FollowInv, ReaderInv
<1>1. CASE WriterStep \/ UNCHANGED <<vars, followVars>>
  <2>1. [Next]_vars /\ UNCHANGED followVars
    BY <1>1 DEF WriterStep
  <2>2. Grown /\ InodesInv'
    BY <2>1, WriterGrows
  <2>3. ReaderInv'
    BY <2>1, <2>2, WriterKeeps
  <2>4. FollowTypeOK'
    BY <2>1 DEF FollowTypeOK, followVars, readerVars, browserVars
  <2> QED BY <2>2, <2>3, <2>4 DEF FollowInv, ReaderInv
<1>2. CASE FollowStep
  <2>1. FollowTypeOK' /\ ReaderInv'
    BY <1>2, FollowerKeeps
  <2>2. UNCHANGED <<dir, data, lines>> /\ Inodes' = Inodes /\ \A i : LinesIn(i)' = LinesIn(i)
    BY <1>2, SameInodes DEF FollowStep, vars
  <2>3. InodesInv'
    BY <2>2 DEF InodesInv
  <2> QED BY <2>1, <2>3 DEF FollowInv, ReaderInv
<1> QED BY <1>1, <1>2 DEF FollowNext

\* publish meets no channel that unsubscribe has closed, for any number of browsers
\* that come and go, whatever the processes that write the log do.
THEOREM PublishFindsOpenChannels == FollowSpec => []NoSendOnClosed
<1>1. Init /\ FollowInit => RegisteredInv
  BY FollowInitInv
<1>2. RegisteredInv /\ [FollowNext]_<<vars, followVars>> => RegisteredInv'
  BY RegisteredStep
<1>3. RegisteredInv => NoSendOnClosed
  BY DEF RegisteredInv, NoSendOnClosed
<1> QED BY <1>1, <1>2, <1>3, PTL DEF FollowSpec

\* The place of a follower beside a process that has the log to itself: all that it
\* has shown was written before all that it still has to read.
THEOREM FollowerKeepsItsPlace ==
  ASSUME \A q, r \in Procs : q = r
  PROVE  FollowSpec => [](AuditInv /\ FollowInv /\ RegisteredInv)
<1>1. Init /\ FollowInit => AuditInv /\ FollowInv /\ RegisteredInv
  BY AuditInit, FollowInitInv
<1>2. AuditInv /\ FollowInv /\ RegisteredInv /\ [FollowNext]_<<vars, followVars>>
        => (AuditInv /\ FollowInv /\ RegisteredInv)'
  BY WriterOrNot, AuditStep, FollowInvStep, RegisteredStep
<1> QED BY <1>1, <1>2, PTL DEF FollowSpec

\* The lines are shown in order, none twice, of each file a part without a gap and of
\* the file being read all up to the place, for any number of rotations and crashes.
THEOREM LinesShownInOrder ==
  ASSUME \A q, r \in Procs : q = r
  PROVE  FollowSpec => []ShownInOrder
<1>1. FollowInv => ShownInOrder
  BY DEF FollowInv
<1> QED BY FollowerKeepsItsPlace, <1>1, PTL

\* A page misses a published line only when its channel was full, for any number of
\* pages and channels of any capacity.
THEOREM StreamsMissOnlyWhenSlow ==
  ASSUME \A q, r \in Procs : q = r
  PROVE  FollowSpec => []GapsOnlyWhenSlow
<1> DEFINE Place == AuditInv /\ FollowInv /\ RegisteredInv
<1>1. Init /\ FollowInit => StreamInv /\ GapsOnlyWhenSlow
  BY FollowInitInv DEF FollowInit, GapsOnlyWhenSlow
<1>2. Place /\ Place' /\ StreamInv /\ GapsOnlyWhenSlow /\ [FollowNext]_<<vars, followVars>>
        => StreamInv' /\ GapsOnlyWhenSlow'
  BY StreamStep DEF AuditInv, FollowInv, ShownInOrder
<1>3. FollowSpec => []Place
  BY FollowerKeepsItsPlace
<1> HIDE DEF Place
<1> QED BY <1>1, <1>2, <1>3, PTL DEF FollowSpec
===============================================================================
