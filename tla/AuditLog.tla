------------------------------- MODULE AuditLog -------------------------------
(***************************************************************************)
(* The audit log on disk (src/internal/audit/audit.go): audit.jsonl, its   *)
(* rotated copies .1 to .KeepFiles, and the processes that have it open.   *)
(* Every command writes to the same path by default (wrap.go:134, and one  *)
(* process per wrapped server), each with its own rotatingWriter; inside a *)
(* process Logger.mu serialises the writes, so a process is one thread of  *)
(* system calls.                                                           *)
(*                                                                         *)
(* A line is its number in the order of all successful writes.  A file is  *)
(* an inode: a handle that is open follows it through renames and removal. *)
(* Modelled as one step: the Stat of a rotated copy and its Rename.        *)
(***************************************************************************)
EXTENDS Naturals, Sequences

CONSTANTS
  Procs,     \* the processes that log to this path
  KeepOptions, \* RotateOptions: the values of KeepFiles, not negative,
  MaxBytes,  \* and MaxBytes, 0 for no rotation
  Sizes,     \* the sizes of a line
  MayFail,   \* may Remove, Rename and OpenFile fail
  MaxLines   \* bound on the lines written

ASSUME OptionsAssumption == KeepOptions \subseteq Nat /\ MaxBytes \in Nat
ASSUME SizesAssumption == Sizes \subseteq Nat \ {0}
ASSUME MayFailAssumption == MayFail \in BOOLEAN
ASSUME MaxLinesAssumption == MaxLines \in Nat

VARIABLES
  keepFiles, \* the option all processes were given
  dir,      \* the inode under each name: 0 is audit.jsonl, k is .k; 0 for none
  data,     \* what each inode holds: its lines and its size
  lines,    \* how many lines have been written
  at,       \* where each process is
  file,     \* the inode it has open, 0 for none
  size,     \* its rotatingWriter.size
  slot,     \* the i of rotate's loop
  incoming, \* the size of the line it is writing
  disturbed \* has a rotation failed or been cut short

vars == <<keepFiles, dir, data, lines, at, file, size, slot, incoming, disturbed>>

Slots == 0..keepFiles
NoFile == 0
Inodes == 1..Len(data)
Content == [lines : Seq(Nat), bytes : Nat]
EmptyFile == [lines |-> << >>, bytes |-> 0]

Rotating == {"remove", "shift", "rename", "unlink", "reopen"}
Places == {"down", "idle", "append"} \cup Rotating

Init ==
  /\ keepFiles \in KeepOptions
  /\ dir = [k \in Slots |-> NoFile] /\ data = << >> /\ lines = 0
  /\ at = [p \in Procs |-> "down"]
  /\ file = [p \in Procs |-> NoFile]
  /\ size = [p \in Procs |-> 0]
  /\ slot = [p \in Procs |-> 0]
  /\ incoming = [p \in Procs |-> 0]
  /\ disturbed = FALSE

GoTo(p, place) == at' = [at EXCEPT ![p] = place]

-------------------------------------------------------------------------------
\* os.OpenFile(path, O_APPEND|O_CREATE): afterwards p has audit.jsonl open.
OpenActive(p) ==
  IF dir[0] # NoFile
  THEN file' = [file EXCEPT ![p] = dir[0]] /\ UNCHANGED <<dir, data>>
  ELSE /\ data' = Append(data, EmptyFile)
       /\ dir' = [dir EXCEPT ![0] = Len(data) + 1]
       /\ file' = [file EXCEPT ![p] = Len(data) + 1]

\* newRotatingWriter takes the size from Stat.
SizeFromZero == 0
SizeFromStat == IF dir[0] = NoFile THEN 0 ELSE data[dir[0]].bytes

Open(p) ==
  /\ at[p] = "down"
  /\ OpenActive(p)
  /\ size' = [size EXCEPT ![p] = SizeFromStat]
  /\ GoTo(p, "idle")
  /\ UNCHANGED <<keepFiles, lines, slot, incoming, disturbed>>

\* The process ends, by Close or by a crash at any point.
Stop(p) ==
  /\ at[p] # "down"
  /\ GoTo(p, "down")
  /\ file' = [file EXCEPT ![p] = NoFile]
  /\ disturbed' = (disturbed \/ at[p] \in Rotating)
  /\ UNCHANGED <<keepFiles, dir, data, lines, size, slot, incoming>>

-------------------------------------------------------------------------------
\* Write: rotate first if the line would push the file past MaxBytes.
WouldExceed(p, n) == MaxBytes > 0 /\ size[p] > 0 /\ size[p] + n > MaxBytes

WriteFits(p) ==
  /\ at[p] = "idle" /\ lines < MaxLines
  /\ \E n \in Sizes :
       /\ ~WouldExceed(p, n)
       /\ incoming' = [incoming EXCEPT ![p] = n]
  /\ GoTo(p, "append")
  /\ UNCHANGED <<keepFiles, dir, data, lines, file, size, slot, disturbed>>

\* rotate closes the file.  Once a rotation has failed there is none to close,
\* and every later Write ends here with an error.
WriteRotates(p) ==
  /\ at[p] = "idle" /\ lines < MaxLines /\ file[p] # NoFile
  /\ \E n \in Sizes :
       /\ WouldExceed(p, n)
       /\ incoming' = [incoming EXCEPT ![p] = n]
  /\ file' = [file EXCEPT ![p] = NoFile]
  /\ GoTo(p, IF keepFiles > 0 THEN "remove" ELSE "unlink")
  /\ UNCHANGED <<keepFiles, dir, data, lines, size, slot, disturbed>>

\* The single write(2), at the end of the file it has open; a Write to a file
\* that is nil fails.
AppendLine(p) ==
  /\ at[p] = "append"
  /\ IF file[p] = NoFile THEN UNCHANGED <<data, lines, size>>
     ELSE /\ data' = [data EXCEPT ![file[p]] =
                [lines |-> Append(@.lines, lines + 1), bytes |-> @.bytes + incoming[p]]]
          /\ lines' = lines + 1
          /\ size' = [size EXCEPT ![p] = @ + incoming[p]]
  /\ GoTo(p, "idle")
  /\ UNCHANGED <<keepFiles, dir, file, slot, incoming, disturbed>>

-------------------------------------------------------------------------------
\* rotate, call by call.

ShortLoop == keepFiles - 2
LastShifted == keepFiles - 1

\* The file at the keep horizon; an error is ignored.
RemoveOldest(p) ==
  /\ at[p] = "remove"
  /\ \/ dir' = [dir EXCEPT ![keepFiles] = NoFile]
     \/ MayFail /\ UNCHANGED dir
  /\ slot' = [slot EXCEPT ![p] = LastShifted]
  /\ GoTo(p, "shift")
  /\ UNCHANGED <<keepFiles, data, lines, file, size, incoming, disturbed>>

MoveTo(from, to) == dir' = [dir EXCEPT ![to] = dir[from], ![from] = NoFile]

\* The loop over .KeepFiles-1 to .1; a copy that does not exist is skipped.
AfterShift(p) == IF slot[p] > 1 THEN "shift" ELSE "rename"
Shift(p) ==
  /\ at[p] = "shift"
  /\ IF slot[p] >= 1 /\ dir[slot[p]] # NoFile
     THEN MoveTo(slot[p], slot[p] + 1) ELSE UNCHANGED dir
  /\ slot' = [slot EXCEPT ![p] = IF @ > 0 THEN @ - 1 ELSE 0]
  /\ GoTo(p, AfterShift(p))
  /\ UNCHANGED <<keepFiles, data, lines, file, size, incoming, disturbed>>

\* An error of Rename or OpenFile ends the rotation and the Write.
PressOn(p) == IF at[p] = "shift" THEN AfterShift(p) ELSE "idle"
GiveUp(p) == "idle"

RotateFails(p) ==
  /\ MayFail
  /\ \/ at[p] = "shift" /\ slot[p] >= 1 /\ dir[slot[p]] # NoFile
     \/ at[p] = "rename" /\ dir[0] # NoFile
     \/ at[p] = "reopen"
  /\ GoTo(p, GiveUp(p))
  /\ slot' = [slot EXCEPT ![p] = IF @ > 0 THEN @ - 1 ELSE 0]
  /\ disturbed' = TRUE
  /\ UNCHANGED <<keepFiles, dir, data, lines, file, size, incoming>>

\* audit.jsonl becomes .1; it does not matter if it is gone.
RenameActive(p) ==
  /\ at[p] = "rename"
  /\ IF dir[0] # NoFile THEN MoveTo(0, 1) ELSE UNCHANGED dir
  /\ GoTo(p, "reopen")
  /\ UNCHANGED <<keepFiles, data, lines, file, size, slot, incoming, disturbed>>

\* With KeepFiles = 0 it is removed instead.  An error is ignored, and Reopen
\* then takes the old file for an empty one.
UnlinkActive(p) ==
  /\ at[p] = "unlink"
  /\ \/ dir' = [dir EXCEPT ![0] = NoFile] /\ UNCHANGED disturbed
     \/ MayFail /\ disturbed' = TRUE /\ UNCHANGED dir
  /\ GoTo(p, "reopen")
  /\ UNCHANGED <<keepFiles, data, lines, file, size, slot, incoming>>

Reopen(p) ==
  /\ at[p] = "reopen"
  /\ OpenActive(p)
  /\ size' = [size EXCEPT ![p] = 0]
  /\ GoTo(p, "append")
  /\ UNCHANGED <<keepFiles, lines, slot, incoming, disturbed>>

-------------------------------------------------------------------------------
ProcStep(p) ==
  \/ Open(p) \/ Stop(p)
  \/ WriteFits(p) \/ WriteRotates(p) \/ AppendLine(p)
  \/ RemoveOldest(p) \/ Shift(p) \/ RotateFails(p) \/ RenameActive(p)
  \/ UnlinkActive(p) \/ Reopen(p)

Next == \E p \in Procs : ProcStep(p)

Spec == Init /\ [][Next]_vars

-------------------------------------------------------------------------------
TypeOK ==
  /\ keepFiles \in KeepOptions
  /\ dir \in [Slots -> {NoFile} \cup Inodes]
  /\ data \in Seq(Content)
  /\ lines \in Nat
  /\ at \in [Procs -> Places]
  /\ file \in [Procs -> {NoFile} \cup Inodes]
  /\ size \in [Procs -> Nat]
  /\ slot \in [Procs -> Nat]
  /\ incoming \in [Procs -> {0} \cup Sizes]
  /\ disturbed \in BOOLEAN

LinesOf(k) ==
  IF dir[k] = NoFile THEN {}
  ELSE {data[dir[k]].lines[i] : i \in 1..Len(data[dir[k]].lines)}
OnDisk == UNION {LinesOf(k) : k \in Slots}

\* Read from the oldest copy to audit.jsonl, the log of a process is the last
\* lines written, in order and without a gap, at every step of a rotation and
\* after a crash or a failure in the middle of one (comment at audit.go:135-142).
HistoryIsSuffix ==
  /\ \A j, k \in Slots : j > k => \A m \in LinesOf(j), n \in LinesOf(k) : m < n
  /\ \A m \in OnDisk : \A n \in m..lines : n \in OnDisk

\* No file passes MaxBytes, unless a single line does (audit.go:57-62), or it
\* was to be removed and could not be.
Unremoved == keepFiles = 0 /\ disturbed
FilesUnderCap ==
  MaxBytes > 0 /\ ~Unremoved => \A k \in Slots : dir[k] # NoFile =>
    data[dir[k]].bytes <= MaxBytes \/ Len(data[dir[k]].lines) = 1

\* A line is dropped only beyond the keep horizon: with KeepFiles copies there,
\* unless a rotation failed or was cut short (audit.go:192-195).
DroppedAtHorizon ==
  (\A p \in Procs : at[p] \notin Rotating) /\ ~disturbed /\ OnDisk # 1..lines =>
    \A k \in 1..keepFiles : dir[k] # NoFile

-------------------------------------------------------------------------------
(* Why this holds for a process that has the path to itself: see              *)
(* AuditLog_proofs.                                                           *)

\* Its handle is audit.jsonl, whose size it knows, and no inode has two names.
OwnHandle ==
  /\ \A p \in Procs : file[p] # NoFile =>
       file[p] = dir[0] /\ (size[p] = data[file[p]].bytes \/ Unremoved)
  /\ \A j, k \in Slots : dir[j] # NoFile /\ dir[j] = dir[k] => j = k

\* Each step of a rotation renames a file onto a name that is free, but for the
\* oldest one when it could not be removed, and a rotation starts a new file.
FreeTarget(k) == dir[k] = NoFile \/ k = keepFiles
RotationInv ==
  \A p \in Procs :
    /\ at[p] \in Rotating \cup {"down"} => file[p] = NoFile
    /\ at[p] \in {"remove", "shift", "rename"} => keepFiles > 0
    /\ at[p] = "unlink" => keepFiles = 0
    /\ at[p] = "shift" => slot[p] < keepFiles /\ FreeTarget(slot[p] + 1)
    /\ at[p] = "rename" => FreeTarget(1)
    /\ at[p] = "reopen" => dir[0] = NoFile \/ Unremoved
    /\ at[p] \in Rotating \cup {"append"} => incoming[p] \in Sizes
    /\ at[p] = "append" /\ file[p] # NoFile => ~WouldExceed(p, incoming[p])

\* No line has a number beyond the last, and only an empty file has no bytes.
NumbersInv ==
  /\ \A n \in OnDisk : n <= lines
  /\ \A i \in Inodes : data[i].bytes = 0 => data[i].lines = << >>

AuditInv == TypeOK /\ OwnHandle /\ RotationInv /\ NumbersInv /\ HistoryIsSuffix

\* While no rotation has failed or been cut short, the copies are numbered without
\* a gap but for the name that the next rename fills, and what has been dropped
\* made room for a file that took a place among KeepFiles others.
NextFree(p) ==
  CASE at[p] = "shift" -> slot[p] + 1 [] at[p] = "rename" -> 1 [] OTHER -> 0
Copies(p) == (1..keepFiles) \ {NextFree(p)}
HorizonInv ==
  ~disturbed => \A p \in Procs :
    /\ at[p] \in {"remove", "shift", "rename"} => dir[0] # NoFile
    /\ \A j, k \in Copies(p) : j < k /\ dir[k] # NoFile => dir[j] # NoFile
    /\ OnDisk # 1..lines => \A k \in Copies(p) : dir[k] # NoFile
    /\ NextFree(p) # 0 /\ NextFree(p) = keepFiles /\ dir[keepFiles] # NoFile =>
         \A k \in Copies(p) : dir[k] # NoFile
===============================================================================
