-------------------------- MODULE LabStreamProofs ---------------------------
(***************************************************************************)
(* What the log holds across its rotated files, and what the analyzer can  *)
(* find in it, for every number of rotations, all sizes, both writers and  *)
(* all strategies: the stream is kept, copytruncate keeps its order, and   *)
(* the verdict of a run is exact.                                          *)
(***************************************************************************)
EXTENDS LabStream, LabProofs, DataLemmas

-----------------------------------------------------------------------------
(* The units under a name.                                                 *)
Units(n) == Range(Contents(n))

(* How far the writer has come in the stream, and its next k units.        *)
Written == flushed + off
UnitsFrom(m, k) == [i \in 1..k |-> m + i]
NextUnits(k)    == UnitsFrom(Written, k)

(* The rotation order of names.                                            *)
Earlier(m, n) == m # n /\ m # Active /\ (n = Active \/ m < n)

(***************************************************************************)
(* The directory.  Two names never lead to one file; once the writer's     *)
(* open file has been renamed it is the newest backup; nothing is there    *)
(* before the writer has started; only copytruncate copies.                *)
(***************************************************************************)
Distinct == \A m, n \in Names : m # n /\ Exists(m) => dir[m] # dir[n]

Newest ==
  fd # None
    => \A n \in Names \ {Active} :
         dir[n] = fd => \A m \in Names : m > n => dir[m] = None

Unopened == wpc \in {"off", "start"} => \A n \in Names : dir[n] = None

CopyOnly == ~Copy => rpc \notin {"copyStart", "copy", "truncate"}

Directory == Distinct /\ Newest /\ Unopened /\ CopyOnly

(* How a step changes the directory.                                       *)
DirCreated(n) ==
  /\ ~Exists(n) /\ dir' \in [Names -> inodes' \cup {None}]
  /\ dir'[n] # None /\ dir'[n] # fd /\ data[dir'[n]] = <<>>
  /\ \A m \in Names : m # n => dir'[m] = dir[m] /\ dir'[m] # dir'[n]

DirMoved ==
  /\ rpc = "rename" /\ ordinal \in Names \ {Active} /\ ~Exists(ordinal)
  /\ \A m \in Names : m > ordinal => dir[m] = None
  /\ dir'[ordinal] = dir[Active] /\ dir'[Active] = None
  /\ \A m \in Names \ {Active, ordinal} : dir'[m] = dir[m]

DirExpired ==
  /\ rpc = "retention"
  /\ \A n \in Names : dir'[n] = IF n \in Expired THEN None ELSE dir[n]

(* The active log is a name.                                               *)
LEMMA ActiveIsName == Active \in Names
BY HostAssumption DEF Active, Names

(* A step of either writer opens the active log, or leaves the directory   *)
(* alone and its file too, unless it closes it.                            *)
LEMMA WriterDirectory ==
  ASSUME IndInv, GoNext \/ CppNext, UNCHANGED <<rotatorVars, harnessVars>>
  PROVE  /\ \/ dir' = dir /\ fd' \in {fd, None}
            \/ dir' = dir /\ Exists(Active) /\ fd' = dir[Active]
            \/ DirCreated(Active) /\ fd' = dir'[Active] /\ data' = data
         /\ wpc' \in {"off", "start"} => wpc = wpc' /\ dir' = dir
         /\ config' = config
<1>1. TypeOK /\ WriterEffect /\ config' = config /\ Fresh
  BY GoStepFacts, CppStepFacts DEF IndInv, Core
<1>2. CASE Quiet \/ Appends \/ Queues \/ Takes \/ Closes
  BY <1>1, <1>2 DEF Quiet, Appends, Queues, Takes, Closes, TakeReopen, Running
<1>3. CASE Opens
  <2>1. OpenActive /\ data' = data /\ wpc' \notin {"off", "start"}
    BY <1>3 DEF Opens, Running
  <2>2. CASE Exists(Active)
    BY <1>1, <2>1, <2>2 DEF OpenActive
  <2>3. CASE ~Exists(Active)
    <3>1. CreateFile(Active) /\ fd' = FreshInode
      BY <2>1, <2>3 DEF OpenActive
    <3>2. DirCreated(Active)
      BY <1>1, <2>1, <2>3, <3>1, ActiveIsName, CreateFileFacts DEF DirCreated
    <3>3. dir'[Active] = FreshInode
      BY <1>1, <3>1, ActiveIsName DEF CreateFile, TypeOK, HostTypeOK
    <3> QED
      BY <1>1, <2>1, <3>1, <3>2, <3>3
  <2> QED
    BY <2>2, <2>3
<1> QED
  BY <1>1, <1>2, <1>3 DEF WriterEffect

(* A step of the rotator creates, renames or unlinks as its strategy says. *)
LEMMA RotatorDirectory ==
  ASSUME IndInv, RotatorNext, UNCHANGED writerVars
  PROVE  /\ \/ dir' = dir
            \/ CopyStart /\ DirCreated(ordinal) /\ data' = data
            \/ CreateReplacement /\ DirCreated(Active) /\ data' = data
            \/ RenameActive /\ DirMoved /\ data' = data
            \/ EnforceRetention /\ DirExpired /\ data' = data
         /\ rpc # "off" /\ config' = config
         /\ CopyOnly => CopyOnly'
<1>0. /\ TypeOK /\ Fresh /\ Ordinals /\ Active \in Names
      /\ rpc \notin {"done", "killed"} => ordinal \in Names \ {Active}
  BY OrdinalInRange, ActiveIsName DEF IndInv, Core
<1>1. CASE \/ PollAgain \/ BaselineComplete \/ PollFull \/ RotateOnce \/ CopySync
           \/ RequestReopen \/ ReopenQueued \/ RotationDone \/ RotationFailed \/ PollFailed
           \/ Truncate \/ \E n \in 1..FileCap : CopyChunk(n)
  <2>1. dir' = dir /\ rpc # "off" /\ config' = config
    BY <1>1
    DEF PollAgain, BaselineComplete, PollFull, RotateOnce, CopySync, RequestReopen,
        ReopenQueued, RotationDone, RotationFailed, PollFailed, Truncate, CopyChunk, Fails,
        Rotating, hostVars
  <2>2. \/ rpc' \notin {"copyStart", "copy", "truncate"}
        \/ rpc' = "copyStart" /\ Copy
        \/ rpc \in {"copyStart", "copy", "truncate"}
        \/ rpc' = rpc
    BY <1>1
    DEF PollAgain, BaselineComplete, PollFull, RotateOnce, CopySync, RequestReopen,
        ReopenQueued, RotationDone, RotationFailed, PollFailed, Truncate, CopyChunk,
        rotatorVars
  <2> QED
    BY <2>1, <2>2 DEF CopyOnly, Copy
<1>2. CASE CopyStart
  <2>1. /\ rpc = "copyStart" /\ CreateFile(ordinal) /\ ~Exists(ordinal) /\ data' = data
        /\ config' = config
    BY <1>2 DEF CopyStart
  <2>2. DirCreated(ordinal)
    BY <1>0, <2>1, CreateFileFacts DEF DirCreated
  <2> QED
    BY <1>2, <2>1, <2>2 DEF CopyOnly, Copy
<1>3. CASE CreateReplacement
  <2>1. /\ rpc = "create" /\ CreateFile(Active) /\ ~Exists(Active) /\ data' = data
        /\ config' = config /\ rpc' = "request"
    BY <1>3 DEF CreateReplacement
  <2>2. DirCreated(Active)
    BY <1>0, <2>1, CreateFileFacts DEF DirCreated
  <2> QED
    BY <1>3, <2>1, <2>2 DEF CopyOnly, Copy
<1>4. CASE RenameActive
  <2>1. /\ rpc = "rename" /\ rpc' = "create" /\ data' = data /\ config' = config
        /\ dir' = [dir EXCEPT ![ordinal] = dir[Active], ![Active] = None]
        /\ ordinal \in Names \ {Active} /\ dir \in [Names -> inodes \cup {None}]
    BY <1>0, <1>4 DEF RenameActive, TypeOK, HostTypeOK
  <2>2. ~Exists(ordinal) /\ \A m \in Names : m > ordinal => dir[m] = None
    BY <1>0, <2>1 DEF Ordinals, Exists
  <2>3. DirMoved
    BY <1>0, <2>1, <2>2 DEF DirMoved
  <2> QED
    BY <1>4, <2>1, <2>3 DEF CopyOnly, Copy
<1>5. CASE EnforceRetention
  BY <1>5 DEF EnforceRetention, DirExpired, CopyOnly, Copy
<1> QED
  BY <1>1, <1>2, <1>3, <1>4, <1>5 DEF RotatorNext

(* What the harness does, and the death of the writer, leave the files     *)
(* alone.                                                                  *)
LEMMA HarnessDirectory ==
  ASSUME IndInv, HarnessNext \/ WriterKilled \/ UNCHANGED vars
  PROVE  /\ UNCHANGED <<dir, data, flushed, off, config, ordinal, reopenFailures, werr>>
         /\ \/ UNCHANGED <<wpc, fd>>
            \/ wpc = "off" /\ wpc' = "start" /\ fd' = fd
            \/ wpc' = "killed" /\ fd' = None
         /\ rpc' = rpc \/ (rpc = "off" /\ rpc' = "poll") \/ rpc' = "killed"
<1>1. CASE HarnessNext
  <2>1. hpc = "start" => wpc = "off"
    BY DEF IndInv, Core, Startup
  <2>2. hpc = "health" => rpc = "off"
    BY DEF IndInv, Core, Startup
  <2>3. CASE StartWriter
    BY <2>1, <2>3 DEF StartWriter, hostVars, rotatorVars
  <2>4. CASE Healthy
    BY <2>2, <2>4 DEF Healthy, hostVars, writerVars
  <2>5. CASE StartupFailed \/ RotatorReaped \/ ReopensAwaited
    BY <2>5 DEF StartupFailed, RotatorReaped, ReopensAwaited, hostVars, rotatorVars
  <2>6. CASE Aborted \/ WriterReaped \/ Collect
    BY <2>6 DEF Aborted, WriterReaped, Collect, hostVars, writerVars, rotatorVars
  <2>7. CASE Cancel
    BY <2>7 DEF Cancel, hostVars
  <2> QED
    BY <1>1, <2>3, <2>4, <2>5, <2>6, <2>7 DEF HarnessNext
<1>2. CASE WriterKilled
  BY <1>2 DEF WriterKilled, rotatorVars
<1>3. CASE UNCHANGED vars
  BY <1>3 DEF vars, hostVars, writerVars, rotatorVars
<1> QED
  BY <1>1, <1>2, <1>3

(* The directory keeps its shape: where a file is created nothing has its  *)
(* name and no open file is concerned, and only the active log is open     *)
(* when it is renamed.                                                     *)
LEMMA DirectoryKept ==
  ASSUME IndInv, Directory, [Next]_vars
  PROVE  Directory'
<1>0. /\ TypeOK /\ Startup /\ Ordinals /\ Linked /\ Active \in Names
      /\ Distinct /\ Newest /\ Unopened /\ CopyOnly
  BY ActiveIsName DEF IndInv, Core, Directory
<1>d. ASSUME NEW n \in Names, DirCreated(n) PROVE Distinct'
  BY <1>0, <1>d DEF DirCreated, Distinct, Exists
<1>1. CASE (GoNext \/ CppNext) /\ UNCHANGED <<rotatorVars, harnessVars>>
  <2>1. /\ \/ dir' = dir /\ fd' \in {fd, None}
           \/ dir' = dir /\ Exists(Active) /\ fd' = dir[Active]
           \/ DirCreated(Active) /\ fd' = dir'[Active] /\ data' = data
        /\ wpc' \in {"off", "start"} => wpc = wpc' /\ dir' = dir
        /\ config' = config /\ rpc' = rpc
    BY <1>1, WriterDirectory DEF rotatorVars
  <2>2. Distinct'
    BY <1>0, <1>d, <2>1 DEF Distinct, Exists
  <2>3. Newest'
    <3>1. CASE dir' = dir /\ fd' \in {fd, None}
      BY <1>0, <3>1 DEF Newest
    <3>2. CASE dir' = dir /\ Exists(Active) /\ fd' = dir[Active]
      BY <1>0, <3>2 DEF Newest, Distinct
    <3>3. CASE DirCreated(Active) /\ fd' = dir'[Active]
      BY <1>0, <3>3 DEF Newest, DirCreated
    <3> QED
      BY <2>1, <3>1, <3>2, <3>3
  <2>4. Unopened' /\ CopyOnly'
    BY <1>0, <2>1 DEF Unopened, CopyOnly, Copy
  <2> QED
    BY <2>2, <2>3, <2>4 DEF Directory
<1>2. CASE RotatorNext /\ UNCHANGED <<writerVars, harnessVars>>
  <2>1. /\ \/ dir' = dir
           \/ CopyStart /\ DirCreated(ordinal) /\ data' = data
           \/ CreateReplacement /\ DirCreated(Active) /\ data' = data
           \/ RenameActive /\ DirMoved /\ data' = data
           \/ EnforceRetention /\ DirExpired /\ data' = data
        /\ rpc # "off" /\ CopyOnly' /\ fd' = fd /\ wpc' = wpc
    BY <1>0, <1>2, RotatorDirectory DEF writerVars
  <2>2. Unopened'
    BY <1>0, <2>1 DEF Unopened, Startup
  <2>3. CASE dir' = dir
    BY <1>0, <2>1, <2>2, <2>3 DEF Directory, Distinct, Newest, Exists
  <2>4. CASE CopyStart /\ DirCreated(ordinal)
    <3>1. ordinal \in Names /\ (fd = None \/ fd = dir[Active]) /\ ordinal # Active
      BY <1>0, <2>4, OrdinalInRange DEF CopyStart, Linked
    <3>2. dir'[Active] = dir[Active] /\ dir'[Active] # dir'[ordinal]
      BY <1>0, <2>4, <3>1 DEF DirCreated
    <3>3. Distinct'
      BY <1>d, <2>4, <3>1
    <3>4. Newest'
      BY <1>0, <2>1, <3>1, <3>2, <3>3 DEF Newest, Distinct, Exists
    <3> QED
      BY <2>1, <2>2, <3>3, <3>4 DEF Directory
  <2>5. CASE DirCreated(Active)
    <3>1. Distinct'
      BY <1>0, <1>d, <2>5
    <3>2. \A n \in Names : n > Active => n # Active
      BY DEF Names, Active
    <3>3. Newest'
      BY <1>0, <2>1, <2>5 DEF Newest, DirCreated, Names, Active
    <3> QED
      BY <2>1, <2>2, <3>1, <3>3 DEF Directory
  <2>6. CASE DirMoved
    <3>1. /\ ordinal \in Names \ {Active} /\ ~Exists(ordinal)
          /\ \A m \in Names : m > ordinal => dir[m] = None
          /\ dir'[ordinal] = dir[Active] /\ dir'[Active] = None
          /\ \A m \in Names \ {Active, ordinal} : dir'[m] = dir[m]
          /\ rpc = "rename" /\ (fd = None \/ fd = dir[Active])
      BY <1>0, <2>6 DEF DirMoved, Linked
    <3>2. Distinct'
      BY <1>0, <3>1 DEF Distinct, Exists
    <3>3. \A m \in Names : m > ordinal => m # Active /\ m # ordinal
      BY <3>1 DEF Names, Active
    <3>4. ASSUME NEW n \in Names \ {Active}, dir'[n] = fd, fd # None
          PROVE  n = ordinal
      BY <1>0, <3>1, <3>4 DEF Distinct, Exists
    <3>5. Newest'
      BY <2>1, <3>1, <3>3, <3>4 DEF Newest
    <3> QED
      BY <2>1, <2>2, <3>2, <3>5 DEF Directory
  <2>7. CASE DirExpired
    <3>1. Distinct'
      BY <1>0, <2>7 DEF Distinct, DirExpired, Exists
    <3>2. Newest'
      BY <1>0, <2>1, <2>7 DEF Newest, DirExpired
    <3> QED
      BY <2>1, <2>2, <3>1, <3>2 DEF Directory
  <2> QED
    BY <2>1, <2>3, <2>4, <2>5, <2>6, <2>7
<1>3. CASE HarnessNext \/ WriterKilled \/ UNCHANGED vars
  <2>1. /\ UNCHANGED <<dir, config>> /\ fd' \in {fd, None}
        /\ wpc' \in {"off", "start"} => wpc \in {"off", "start"}
        /\ rpc' = rpc \/ rpc' \in {"poll", "killed"}
    BY <1>3, HarnessDirectory
  <2> QED
    BY <1>0, <2>1 DEF Directory, Distinct, Newest, Unopened, CopyOnly, Copy, Exists
<1> QED
  BY <1>1, <1>2, <1>3 DEF Next, Returned

-----------------------------------------------------------------------------
(***************************************************************************)
(* The contents.  As long as no write has failed, a step does one of six   *)
(* things to them.  (A failed write of the Go writer is followed by a      *)
(* flush of the whole buffer, and what had been written is repeated.)      *)
(***************************************************************************)
Clean == werr => "write" \notin Faults

(* A flush that has been begun is under way, and its file is open.         *)
MidFlush ==
  off # 0 => (wpc \in {"flush", "final"} /\ fd # None) \/ wpc = "killed"

(* A name whose file the writer has open.                                  *)
Open(n) == Exists(n) /\ dir[n] = fd

(* All names but those of S keep their contents; a file is opened when it  *)
(* is empty and closed between two flushes.                                *)
Stay(S) == \A n \in Names \ S : Contents(n)' = Contents(n)
OpenKept(S) ==
  \A n \in Names \ S :
    /\ Open(n)' => Open(n) \/ (Contents(n)' = <<>> /\ off' = 0)
    /\ Open(n)  => Open(n)' \/ off = 0 \/ wpc' = "killed" \/ Contents(n)' = <<>>

LogKept    == Written' = Written /\ Stay({}) /\ OpenKept({})
LogWritten ==
  \E w \in Names, k \in Nat \ {0} :
    /\ Open(w) /\ Open(w)' /\ Written' = Written + k
    /\ Contents(w)' = Contents(w) \o NextUnits(k)
    /\ Stay({w}) /\ OpenKept({})
LogCopied ==
  /\ rpc = "copy" /\ Written' = Written /\ ordinal \in Names \ {Active} /\ ordinal' = ordinal
  /\ \E t \in Seq(Unit) : Contents(ordinal)' = Contents(ordinal) \o t
  /\ \E k \in 0..Len(Contents(Active)) : Contents(ordinal)' = SubSeq(Contents(Active), 1, k)
  /\ ~Open(ordinal) /\ Stay({ordinal}) /\ OpenKept({})
LogDropped ==
  /\ rpc = "truncate" /\ Written' = Written
  /\ Contents(Active)' = <<>> /\ Stay({Active}) /\ OpenKept({Active})
LogMoved ==
  /\ rpc = "rename" /\ Written' = Written /\ ordinal \in Names \ {Active}
  /\ ordinal' = ordinal /\ \A m \in Names : m >= ordinal => Contents(m) = <<>>
  /\ Contents(ordinal)' = Contents(Active) /\ Contents(Active)' = <<>>
  /\ ~Open(Active)' /\ (Open(ordinal)' <=> Open(Active))
  /\ Stay({Active, ordinal}) /\ OpenKept({Active, ordinal})
LogExpired ==
  /\ rpc = "retention" /\ Written' = Written
  /\ \A n \in Names : Contents(n)' = IF n \in Expired THEN <<>> ELSE Contents(n)
  /\ OpenKept({})

LogEffect ==
  LogKept \/ LogWritten \/ LogCopied \/ LogDropped \/ LogMoved \/ LogExpired

(* Contents are sequences of units.                                        *)
LEMMA ContentsType ==
  ASSUME IndInv, NEW n \in Names
  PROVE  Contents(n) \in Seq(Unit) /\ (Exists(n) => dir[n] \in Inodes)
<1>1. dir[n] # None => dir[n] \in Inodes /\ data[dir[n]] \in Seq(Unit)
  BY DEF IndInv, TypeOK, HostTypeOK
<1>2. <<>> \in Seq(Unit)
  OBVIOUS
<1> QED
  BY <1>1, <1>2 DEF Contents, Exists

(* The writer's place in the stream is a number.                           *)
LEMMA WrittenType ==
  ASSUME IndInv
  PROVE  Written \in Nat /\ flushed \in Nat /\ off \in Nat
<1>1. flushed \in Nat /\ off \in Nat
  BY DEF IndInv, TypeOK, WriterTypeOK
<1> QED
  BY <1>1 DEF Written

(* Where neither the directory nor a file changes nothing does.            *)
LEMMA NothingMoves ==
  ASSUME UNCHANGED <<dir, data>>
  PROVE  Stay({})
BY DEF Stay, Contents, Exists

(* A file that is created holds nothing yet.                               *)
LEMMA CreatedHoldsNothing ==
  ASSUME NEW n \in Names, DirCreated(n), data' = data
  PROVE  Stay({}) /\ Contents(n)' = <<>>
BY DEF Stay, DirCreated, Contents, Exists

(* A write puts the next units of the stream, and nothing else, under the  *)
(* one name of the file that is open.                                      *)
LEMMA WriteAddsNext ==
  ASSUME IndInv, Distinct, NEW n \in Nat \ {0}, NEW after \in {"loop", "close"},
         WriteUnits(n, after), wpc \in {"flush", "final"}
  PROVE  LogWritten /\ (off' # 0 => wpc' = wpc /\ fd' # None)
<1>0. /\ TypeOK /\ fd # None /\ fd \in Inodes /\ dir' = dir /\ fd' = fd
      /\ flushed \in Nat /\ off \in Nat
      /\ data' = [data EXCEPT ![fd] = @ \o NextUnits(n)]
  BY DEF IndInv, TypeOK, HostTypeOK, WriterTypeOK, WriteUnits, NextUnits, UnitsFrom, Written
<1>1. Written' = Written + n /\ Written \in Nat
  <2>1. PICK total \in Nat : Buffered = total - flushed
    BY <1>0, GeneratedUnits
  <2>2. \/ flushed' = flushed + Buffered /\ off' = 0 /\ n = Buffered - off
        \/ flushed' = flushed /\ off' = off + n
    BY DEF WriteUnits
  <2> QED
    BY <1>0, <2>1, <2>2 DEF Written
<1>2. off' # 0 => wpc' = wpc /\ fd' # None
  BY <1>0 DEF WriteUnits
<1>3. PICK w \in Names : dir[w] = fd
  BY <1>0, OpenFileHasName DEF OpenFileStaysLinked
<1>4. Open(w) /\ Open(w)' /\ Contents(w) = data[fd] /\ Contents(w)' = data'[fd]
  BY <1>0, <1>3 DEF Open, Contents, Exists
<1>5. data'[fd] = data[fd] \o NextUnits(n)
  BY <1>0 DEF TypeOK, HostTypeOK
<1>6. ASSUME NEW m \in Names, m # w PROVE Contents(m)' = Contents(m)
  <2>1. dir[m] # fd
    BY <1>0, <1>3, <1>6 DEF Distinct, Exists
  <2>2. dir[m] # None => dir[m] \in Inodes /\ data'[dir[m]] = data[dir[m]]
    BY <1>0, <2>1 DEF TypeOK, HostTypeOK
  <2> QED
    BY <1>0, <2>2 DEF Contents, Exists
<1>7. OpenKept({})
  BY <1>0 DEF OpenKept, Open, Exists
<1>8. Stay({w})
  BY <1>6 DEF Stay
<1>9. Contents(w)' = Contents(w) \o NextUnits(n)
  BY <1>4, <1>5
<1> QED
  BY <1>1, <1>2, <1>4, <1>7, <1>8, <1>9 DEF LogWritten

(* A step of a writer that neither opens nor writes moves no unit.         *)
LEMMA IdleWriter ==
  ASSUME UNCHANGED <<dir, data, flushed, off>>,
         off = 0 \/ wpc' = "killed" \/ UNCHANGED <<wpc, fd>>, fd' \in {fd, None}, MidFlush
  PROVE  LogKept /\ MidFlush'
<1>1. Stay({}) /\ Written' = Written /\ MidFlush'
  BY NothingMoves DEF Written, MidFlush
<1>2. OpenKept({})
  BY DEF OpenKept, Open, Exists
<1> QED
  BY <1>1, <1>2 DEF LogKept

(* A step of a writer that opens the active log finds it empty.            *)
LEMMA OpeningWriter ==
  ASSUME IndInv, Directory, MidFlush, OpenActive, wpc \in {"start", "open"},
         UNCHANGED <<data, flushed, off>>
  PROVE  LogKept /\ MidFlush'
<1>0. /\ off = 0 /\ Active \in Names /\ Pending /\ TypeOK /\ Fresh
  BY ActiveIsName DEF MidFlush, IndInv, Core
<1>1. Written' = Written /\ MidFlush'
  BY <1>0 DEF Written, MidFlush
<1>2. CASE Exists(Active)
  <2>1. dir' = dir /\ fd' = dir[Active] /\ data[dir[Active]] = <<>>
    BY <1>0, <1>2
    DEF OpenActive, Pending, UnderWay, EmptyReplacement, Directory, Unopened, Exists
  <2>2. Stay({}) /\ Contents(Active)' = <<>>
    BY <1>2, <2>1, NothingMoves DEF Contents, Exists
  <2>3. ASSUME NEW n \in Names, Open(n)' PROVE n = Active
    BY <1>0, <1>2, <2>1, <2>3 DEF Open, Exists, Directory, Distinct
  <2>4. OpenKept({})
    BY <1>0, <2>2, <2>3 DEF OpenKept
  <2> QED
    BY <1>1, <2>2, <2>4 DEF LogKept
<1>3. CASE ~Exists(Active)
  <2>1. CreateFile(Active) /\ fd' = FreshInode
    BY <1>3 DEF OpenActive
  <2>2. DirCreated(Active) /\ fd' = dir'[Active]
    BY <1>0, <1>3, <2>1, CreateFileFacts DEF DirCreated, CreateFile, TypeOK, HostTypeOK
  <2>3. Stay({}) /\ Contents(Active)' = <<>>
    BY <1>0, <2>2, CreatedHoldsNothing
  <2>4. ASSUME NEW n \in Names, Open(n)' PROVE n = Active
    BY <1>0, <2>2, <2>4 DEF Open, Exists, DirCreated
  <2>5. OpenKept({})
    BY <1>0, <2>3, <2>4 DEF OpenKept
  <2> QED
    BY <1>1, <2>3, <2>5 DEF LogKept
<1> QED
  BY <1>2, <1>3

(* A step of either writer writes the next units of the stream or none.    *)
LEMMA WriterMoves ==
  ASSUME IndInv, Directory, MidFlush, Clean', GoNext \/ CppNext
  PROVE  (LogKept \/ LogWritten) /\ MidFlush'
<1>0. Distinct
  BY DEF Directory
<1>1. wpc \notin {"flush", "final", "killed"} \/ (fd = None /\ wpc # "killed") => off = 0
  BY DEF MidFlush
<1>2. ASSUME Start \/ (wpc = "open" /\ OpenActive /\ UNCHANGED <<data, flushed, off>>)
      PROVE  LogKept /\ MidFlush'
  BY <1>2, OpeningWriter DEF Start
<1>3. ASSUME StartFailure \/ HandleReopen \/ Exit
      PROVE  LogKept /\ MidFlush'
  <2>1. UNCHANGED <<dir, data, flushed, off>> /\ fd' \in {fd, None}
    BY <1>3 DEF StartFailure, HandleReopen, Exit, hostVars
  <2>2. off = 0 \/ UNCHANGED <<wpc, fd>>
    BY <1>1, <1>3 DEF StartFailure, HandleReopen, Exit
  <2> QED
    BY <2>1, <2>2, IdleWriter
<1>4. ASSUME NEW n \in 1..FileCap, NEW after \in {"loop", "close"}, WriteUnits(n, after),
             wpc \in {"flush", "final"}
      PROVE  LogWritten /\ MidFlush'
  <2>1. n \in Nat \ {0}
    BY HostAssumption
  <2>2. LogWritten /\ (off' # 0 => wpc' = wpc /\ fd' # None)
    BY <1>0, <1>4, <2>1, WriteAddsNext
  <2> QED
    BY <1>4, <2>2 DEF MidFlush
<1>5. CASE GoNext
  <2>1. CASE GoStart \/ GoOpen
    BY <1>2, <2>1 DEF GoStart, GoOpen
  <2>2. CASE GoStartFailure \/ GoHandleReopen \/ GoExit
    BY <1>3, <2>2 DEF GoStartFailure, GoHandleReopen, GoExit
  <2>3. CASE \/ GoStop \/ GoEncodeError \/ GoFlushTick \/ GoReopen \/ GoReopenError
             \/ \E n \in 1..Burst : GoTick(n)
    <3>1. /\ UNCHANGED <<dir, data, flushed, off>> /\ wpc \in {"loop", "open"}
          /\ fd' \in {fd, None}
      BY <2>3
      DEF GoStop, GoEncodeError, GoFlushTick, GoReopen, GoReopenError, GoTick, TakeReopen,
          hostVars
    <3> QED
      BY <1>1, <3>1, IdleWriter
  <2>4. ASSUME NEW n \in 1..FileCap, GoWrite(n)
        PROVE  LogWritten /\ MidFlush'
    BY <1>4, <2>4 DEF GoWrite
  <2>5. CASE GoWriteError
    <3>1. /\ UNCHANGED <<dir, data, flushed, fd>> /\ off' = 0 /\ wpc # "killed"
          /\ werr' /\ ("write" \in Faults \/ fd = None)
      BY <2>5 DEF GoWriteError, hostVars
    <3>2. off = 0
      BY <1>1, <3>1 DEF Clean
    <3> QED
      BY <3>1, <3>2, IdleWriter
  <2> QED
    BY <1>5, <2>1, <2>2, <2>3, <2>4, <2>5 DEF GoNext
<1>6. CASE CppNext
  <2>1. CASE CppStart \/ CppOpen
    BY <1>2, <2>1 DEF CppStart, CppOpen
  <2>2. CASE CppStartFailure \/ CppHandleReopen \/ CppExit
    BY <1>3, <2>2 DEF CppStartFailure, CppHandleReopen, CppExit
  <2>3. CASE \/ CppBegin \/ CppReopenError \/ CppStop
             \/ \E n \in 0..Burst, elapsed \in BOOLEAN : CppTick(n, elapsed)
    <3>1. /\ UNCHANGED <<dir, data, flushed, off>> /\ wpc \in {"loop", "open", "tick"}
          /\ fd' \in {fd, None}
      BY <2>3 DEF CppBegin, CppReopenError, CppStop, CppTick, TakeReopen, hostVars
    <3> QED
      BY <1>1, <3>1, IdleWriter
  <2>4. ASSUME NEW n \in 1..FileCap, CppWrite(n)
        PROVE  LogWritten /\ MidFlush'
    BY <1>4, <2>4 DEF CppWrite
  <2>5. ~CppWriteError
    BY DEF CppWriteError, Clean
  <2> QED
    BY <1>6, <2>1, <2>2, <2>3, <2>4, <2>5 DEF CppNext
<1> QED
  BY <1>5, <1>6

(* The backup that is being copied grows by a stretch of the active log.   *)
LEMMA CopyMoves ==
  ASSUME IndInv, IndInv', Distinct, NEW n \in Nat, CopyChunk(n), UNCHANGED writerVars
  PROVE  LogCopied
<1> DEFINE chunk == SubSeq(data[dir[Active]], copied + 1, copied + n)
<1>1. /\ rpc = "copy" /\ rpc' = "copy" /\ dir' = dir /\ ordinal' = ordinal
      /\ copied + n <= Len(data[dir[Active]]) /\ copied' = copied + n
      /\ data' = [data EXCEPT ![dir[ordinal]] = @ \o chunk]
      /\ Written' = Written /\ fd' = fd
  BY DEF CopyChunk, Size, writerVars, Written
<1>2. /\ TypeOK /\ Exists(Active) /\ Exists(ordinal) /\ dir[ordinal] # fd
      /\ ordinal \in Names /\ Active \in Names /\ ordinal # Active /\ copied \in Nat
  BY <1>1, OrdinalInRange
  DEF IndInv, Core, CopyView, RotatorView, TypeOK, RotatorTypeOK
<1>3. /\ dir[ordinal] \in Inodes /\ dir[Active] \in Inodes
      /\ data[dir[ordinal]] \in Seq(Unit) /\ data[dir[Active]] \in Seq(Unit)
  BY <1>2 DEF TypeOK, HostTypeOK, Exists
<1>4. chunk \in Seq(Unit)
  BY <1>1, <1>2, <1>3
<1> HIDE DEF chunk
<1>5. data'[dir[ordinal]] = data[dir[ordinal]] \o chunk
  BY <1>1, <1>2, <1>3 DEF TypeOK, HostTypeOK
<1>6. ASSUME NEW m \in Names, m # ordinal PROVE Contents(m)' = Contents(m)
  <2>1. dir[m] # dir[ordinal]
    BY <1>2, <1>6 DEF Distinct
  <2>2. dir[m] # None => dir[m] \in Inodes /\ data'[dir[m]] = data[dir[m]]
    BY <1>1, <1>2, <2>1 DEF TypeOK, HostTypeOK
  <2> QED
    BY <1>1, <2>2 DEF Contents, Exists
<1>7. /\ Contents(ordinal)' = data'[dir[ordinal]] /\ Contents(ordinal) = data[dir[ordinal]]
      /\ Contents(Active) = data[dir[Active]] /\ Contents(Active)' = data'[dir[Active]]
  BY <1>1, <1>2 DEF Contents, Exists
<1>8. Contents(Active)' = Contents(Active)
  BY <1>2, <1>6
<1>9. data'[dir[ordinal]] = SubSeq(data'[dir[Active]], 1, copied + n)
  <2>1. CopyIsPrefix'
    BY <1>1 DEF IndInv, Core, CopyView
  <2>2. data'[dir'[ordinal']] = SubSeq(data'[dir'[Active]], 1, copied')
    BY <1>1, <2>1 DEF CopyIsPrefix
  <2> QED
    BY <1>1, <2>2
<1>10. /\ Contents(ordinal)' = Contents(ordinal) \o chunk
       /\ Contents(ordinal)' = SubSeq(Contents(Active), 1, copied + n)
       /\ copied + n \in 0..Len(Contents(Active))
  <2>1. copied + n \in 0..Len(data[dir[Active]])
    BY <1>1, <1>2, <1>3
  <2> QED
    BY <1>5, <1>7, <1>8, <1>9, <2>1
<1>11. OpenKept({}) /\ ~Open(ordinal)
  BY <1>1, <1>2 DEF OpenKept, Open, Exists
<1> QED
  BY <1>1, <1>2, <1>4, <1>6, <1>10, <1>11 DEF LogCopied, Stay

(* The copied stretch is in two files only while the copy goes on, or when *)
(* the rotator has been stopped: otherwise the active log is emptied.      *)
Twice(m, n) ==
  \/ rpc \in {"failed", "killed"}
  \/ rpc \in {"copy", "truncate"} /\ m = ordinal /\ n = Active
CopyGoesOn ==
  /\ rpc \in {"failed", "killed"} => rpc' \in {"failed", "killed"}
  /\ rpc \in {"copy", "truncate"}
       => \/ rpc' \in {"copy", "truncate"} /\ ordinal' = ordinal
          \/ rpc' \in {"failed", "killed"}
          \/ LogDropped

(* A step of the rotator moves units as its strategy says.                 *)
LEMMA RotatorMoves ==
  ASSUME IndInv, IndInv', Directory, RotatorNext, UNCHANGED <<writerVars, harnessVars>>
  PROVE  LogEffect /\ CopyGoesOn
<1> USE DEF LogEffect
<1>0. /\ TypeOK /\ Ordinals /\ Linked /\ Active \in Names /\ Distinct
      /\ Written' = Written /\ fd' = fd /\ off' = off
      /\ rpc \notin {"done", "killed"} => ordinal \in Names \ {Active}
  BY OrdinalInRange, ActiveIsName DEF IndInv, Core, Directory, writerVars, Written
<1>o. ASSUME NEW n \in Names, DirCreated(n) PROVE OpenKept({})
  BY <1>0, <1>o DEF OpenKept, Open, Exists, DirCreated
<1>1. CASE \/ PollAgain \/ BaselineComplete \/ PollFull \/ RotateOnce \/ CopySync
           \/ RequestReopen \/ ReopenQueued \/ RotationDone \/ RotationFailed \/ PollFailed
  <2>1. UNCHANGED <<dir, data>>
    BY <1>1
    DEF PollAgain, BaselineComplete, PollFull, RotateOnce, CopySync, RequestReopen,
        ReopenQueued, RotationDone, RotationFailed, PollFailed, hostVars
  <2>2. OpenKept({})
    BY <1>0, <2>1 DEF OpenKept, Open, Exists
  <2>3. LogKept
    BY <1>0, <2>1, <2>2, NothingMoves DEF LogKept
  <2>4. \/ rpc \notin {"copy", "truncate", "failed", "killed"}
        \/ rpc' = "failed"
        \/ rpc = "copy" /\ rpc' = "truncate" /\ ordinal' = ordinal
    BY <1>1
    DEF PollAgain, BaselineComplete, PollFull, RotateOnce, CopySync, RequestReopen,
        ReopenQueued, RotationDone, RotationFailed, PollFailed
  <2> QED
    BY <2>3, <2>4 DEF CopyGoesOn
<1>2. CASE CopyStart \/ CreateReplacement
  <2>1. PICK n \in Names : DirCreated(n) /\ data' = data
    BY <1>0, <1>2, CreateFileFacts
    DEF DirCreated, CopyStart, CreateReplacement, IndInv, Core
  <2>2. LogKept
    BY <1>0, <1>o, <2>1, CreatedHoldsNothing DEF LogKept
  <2> QED
    BY <1>2, <2>2 DEF CopyGoesOn, CopyStart, CreateReplacement
<1>3. ASSUME NEW n \in 1..FileCap, CopyChunk(n)
      PROVE  LogEffect /\ CopyGoesOn
  <2>1. n \in Nat /\ rpc = "copy" /\ rpc' = "copy" /\ ordinal' = ordinal
    BY <1>3, HostAssumption DEF CopyChunk
  <2>2. LogCopied
    BY <1>0, <1>3, <2>1, CopyMoves
  <2> QED
    BY <2>1, <2>2 DEF CopyGoesOn
<1>4. CASE Truncate
  <2>1. /\ rpc = "truncate" /\ dir' = dir /\ Exists(Active)
        /\ data' = [data EXCEPT ![dir[Active]] = <<>>]
    BY <1>4 DEF Truncate, IndInv, Core, RotatorView
  <2>2. dir[Active] \in Inodes
    BY <1>0, <2>1 DEF TypeOK, HostTypeOK, Exists
  <2>3. Contents(Active)' = <<>>
    BY <1>0, <2>1, <2>2 DEF Contents, Exists, TypeOK, HostTypeOK
  <2>4. ASSUME NEW m \in Names, m # Active PROVE Contents(m)' = Contents(m)
    <3>1. dir[m] # dir[Active]
      BY <1>0, <2>1, <2>4 DEF Distinct
    <3>2. dir[m] # None => dir[m] \in Inodes /\ data'[dir[m]] = data[dir[m]]
      BY <1>0, <2>1, <3>1 DEF TypeOK, HostTypeOK
    <3> QED
      BY <2>1, <3>2 DEF Contents, Exists
  <2>5. OpenKept({Active})
    BY <1>0, <2>1 DEF OpenKept, Open, Exists
  <2>6. LogDropped
    BY <1>0, <2>1, <2>3, <2>4, <2>5 DEF LogDropped, Stay
  <2> QED
    BY <2>1, <2>6 DEF CopyGoesOn
<1>5. CASE RenameActive
  <2>1. /\ rpc = "rename" /\ rpc' = "create" /\ data' = data /\ Exists(Active)
        /\ ordinal' = ordinal
        /\ dir' = [dir EXCEPT ![ordinal] = dir[Active], ![Active] = None]
        /\ ordinal \in Names \ {Active} /\ dir \in [Names -> inodes \cup {None}]
    BY <1>0, <1>5 DEF RenameActive, TypeOK, HostTypeOK
  <2>2. ~Exists(ordinal) /\ \A m \in Names : m >= ordinal => Contents(m) = <<>>
    <3>1. \A m \in Names : m >= ordinal => m = ordinal \/ m > ordinal
      BY <2>1 DEF Names
    <3> QED
      BY <1>0, <2>1, <3>1 DEF Ordinals, Contents, Exists
  <2>3. /\ dir'[ordinal] = dir[Active] /\ dir'[Active] = None
        /\ \A m \in Names \ {Active, ordinal} : dir'[m] = dir[m]
    BY <1>0, <2>1
  <2>4. /\ Contents(ordinal)' = Contents(Active) /\ Contents(Active)' = <<>>
        /\ Stay({Active, ordinal})
    BY <2>1, <2>3 DEF Contents, Stay, Exists
  <2>5. /\ ~Open(Active)' /\ (Open(ordinal)' <=> Open(Active))
        /\ OpenKept({Active, ordinal})
    BY <1>0, <2>1, <2>3 DEF Open, OpenKept, Exists
  <2> QED
    BY <1>0, <2>1, <2>2, <2>4, <2>5 DEF LogMoved, CopyGoesOn
<1>6. CASE EnforceRetention
  <2>1. /\ rpc = "retention" /\ data' = data
        /\ \A n \in Names : dir'[n] = IF n \in Expired THEN None ELSE dir[n]
    BY <1>6 DEF EnforceRetention
  <2>2. \A n \in Names : Contents(n)' = IF n \in Expired THEN <<>> ELSE Contents(n)
    BY <2>1 DEF Contents, Exists
  <2>3. OpenKept({})
    BY <1>0, <2>1, <2>2 DEF OpenKept, Open, Exists
  <2> QED
    BY <1>0, <2>1, <2>2, <2>3 DEF LogExpired, CopyGoesOn
<1> QED
  BY <1>1, <1>2, <1>3, <1>4, <1>5, <1>6 DEF RotatorNext

(* Every step of the lab moves units in one of these ways.                 *)
LEMMA LabMoves ==
  ASSUME IndInv, Directory, MidFlush, Clean', [Next]_vars
  PROVE  /\ LogEffect /\ CopyGoesOn /\ MidFlush'
         /\ wpc = "killed" => wpc' = "killed"
<1>1. CASE (GoNext \/ CppNext) /\ UNCHANGED <<rotatorVars, harnessVars>>
  <2>1. (LogKept \/ LogWritten) /\ MidFlush'
    BY <1>1, WriterMoves
  <2>2. wpc = "killed" => wpc' = "killed"
    BY <1>1
    DEF GoNext, CppNext, GoStart, GoStartFailure, GoHandleReopen, GoStop, GoTick,
        GoEncodeError, GoFlushTick, GoReopen, GoOpen, GoReopenError, GoWrite,
        GoWriteError, GoExit, CppStart, CppStartFailure, CppHandleReopen, CppBegin,
        CppTick, CppOpen, CppReopenError, CppWrite, CppWriteError, CppStop, CppExit,
        Start, StartFailure, HandleReopen, Exit
  <2> QED
    BY <1>1, <2>1, <2>2 DEF LogEffect, CopyGoesOn, rotatorVars
<1>2. CASE RotatorNext /\ UNCHANGED <<writerVars, harnessVars>>
  BY <1>2, RotatorMoves, NextPreserves DEF writerVars, MidFlush
<1>3. CASE HarnessNext \/ WriterKilled \/ UNCHANGED vars
  <2>1. /\ UNCHANGED <<dir, data, flushed, off, ordinal>>
        /\ \/ UNCHANGED <<wpc, fd>>
           \/ wpc = "off" /\ wpc' = "start" /\ fd' = fd
           \/ wpc' = "killed" /\ fd' = None
        /\ rpc' = rpc \/ (rpc = "off" /\ rpc' = "poll") \/ rpc' = "killed"
    BY <1>3, HarnessDirectory
  <2>2. off = 0 \/ wpc' = "killed" \/ UNCHANGED <<wpc, fd>>
    BY <2>1 DEF MidFlush
  <2>3. fd' \in {fd, None}
    BY <2>1
  <2>4. LogKept /\ MidFlush'
    BY <2>1, <2>2, <2>3, IdleWriter
  <2> QED
    BY <2>1, <2>4 DEF LogEffect, CopyGoesOn
<1> QED
  BY <1>1, <1>2, <1>3 DEF Next, Returned

-----------------------------------------------------------------------------
(***************************************************************************)
(* The order of the units.  Every file holds an unbroken stretch of the    *)
(* stream, the open one up to where the writer is, and a file rotated      *)
(* before another holds earlier units only.                                *)
(***************************************************************************)
Consecutive(s) == \A i, j \in DOMAIN s : s[j] - s[i] = j - i

Contiguous == \A n \in Names : Consecutive(Contents(n))
Tip        == \A n \in Names : Open(n) /\ Contents(n) # <<>> => Last(Contents(n)) = Written
Ahead      == \A n \in Names : \A u \in Units(n) : u <= Written
InOrder    ==
  \A m, n \in Names :
    Earlier(m, n) => Twice(m, n) \/ \A u \in Units(m), v \in Units(n) : u < v

Order == Contiguous /\ Tip /\ Ahead /\ InOrder
Flow  == MidFlush /\ Order

(* A prefix of an unbroken stretch is one.                                 *)
LEMMA PrefixConsecutive ==
  ASSUME NEW s \in Seq(Unit), Consecutive(s), NEW k \in 0..Len(s)
  PROVE  /\ SubSeq(s, 1, k) \in Seq(Unit) /\ Consecutive(SubSeq(s, 1, k))
         /\ Range(SubSeq(s, 1, k)) \subseteq Range(s)
<1> DEFINE p == SubSeq(s, 1, k)
<1>1. p \in Seq(Unit) /\ DOMAIN p = 1..k /\ \A i \in 1..k : p[i] = s[i] /\ i \in DOMAIN s
  OBVIOUS
<1> HIDE DEF p
<1>2. Consecutive(p) /\ Range(p) \subseteq Range(s)
  BY <1>1 DEF Consecutive, Range
<1> QED
  BY <1>1, <1>2 DEF p

(* So is what the writer appends to, when the file's last unit is the one  *)
(* it wrote last.                                                          *)
EndsAt(s, W) == Consecutive(s) /\ (s # <<>> => Last(s) = W)
Extended(r, s, W, k) ==
  /\ r \in Seq(Unit) /\ Consecutive(r) /\ Last(r) = W + k
  /\ r # <<>> /\ Range(r) = Range(s) \cup (W + 1 .. W + k)
  /\ r[1] = IF s = <<>> THEN W + 1 ELSE s[1]

LEMMA ExtendedConsecutive ==
  ASSUME NEW s \in Seq(Unit), NEW W \in Nat, EndsAt(s, W), NEW k \in Nat \ {0}
  PROVE  Extended(s \o UnitsFrom(W, k), s, W, k)
<1> DEFINE t == UnitsFrom(W, k)
<1>0. Consecutive(s) /\ (s # <<>> => Last(s) = W)
  BY DEF EndsAt
<1>1. t \in Seq(Unit) /\ DOMAIN t = 1..k /\ Len(t) = k /\ \A i \in 1..k : t[i] = W + i
  BY DEF Unit, UnitsFrom
<1> HIDE DEF t
<1> DEFINE l == Len(s)
<1>2. l \in Nat /\ DOMAIN s = 1..l /\ (s = <<>> <=> l = 0)
  OBVIOUS
<1> HIDE DEF l
<1>3. \A i \in 1..l : s[i] \in Nat
  BY DEF Unit, l
<1>4. \A i \in 1..l : s[i] = W - l + i
  <2>1. SUFFICES ASSUME NEW i \in 1..l PROVE s[i] = W - l + i
    OBVIOUS
  <2>2. l \in 1..l /\ s[l] = W
    BY <1>0, <1>2 DEF Last, l
  <2>3. s[l] - s[i] = l - i
    BY <1>0, <1>2, <2>2 DEF Consecutive
  <2> QED
    BY <1>2, <1>3, <2>2, <2>3
<1>5. /\ s \o t \in Seq(Unit) /\ Len(s \o t) = l + k /\ DOMAIN (s \o t) = 1..l + k
      /\ \A i \in 1..l + k : (s \o t)[i] = IF i <= l THEN s[i] ELSE t[i - l]
  BY <1>1 DEF l
<1>6. Range(t) = W + 1 .. W + k
  <2>1. \A u \in W + 1 .. W + k : u - W \in 1..k /\ t[u - W] = u
    BY <1>1
  <2>2. \A i \in 1..k : t[i] \in W + 1 .. W + k
    BY <1>1
  <2>3. Range(t) \subseteq W + 1 .. W + k
    BY <1>1, <2>2, Zenon DEF Range
  <2>4. \A u \in W + 1 .. W + k : u \in Range(t)
    BY <1>1, <2>1, Zenon DEF Range
  <2> QED
    BY <2>3, <2>4
<1>7. Range(s \o t) = Range(s) \cup (W + 1 .. W + k)
  BY <1>1, <1>6, RangeConcatenation
<1>8. \A i \in 1..l + k : (s \o t)[i] = W - l + i
  <2>1. SUFFICES ASSUME NEW i \in 1..l + k PROVE (s \o t)[i] = W - l + i
    OBVIOUS
  <2>2. CASE i <= l
    <3>1. i \in 1..l
      BY <1>2, <2>2
    <3> QED
      BY <1>4, <1>5, <2>2, <3>1
  <2>3. CASE ~(i <= l)
    <3>1. i - l \in 1..k
      BY <1>2, <2>3
    <3>2. t[i - l] = W + (i - l)
      BY <1>1, <3>1
    <3>3. W + (i - l) = W - l + i
      BY <1>2
    <3> QED
      BY <1>5, <2>3, <3>2, <3>3, Zenon
  <2> QED
    BY <2>2, <2>3
<1>9. Consecutive(s \o t)
  <2>1. SUFFICES ASSUME NEW i \in 1..l + k, NEW j \in 1..l + k
                 PROVE  (s \o t)[j] - (s \o t)[i] = j - i
    BY <1>5, Zenon DEF Consecutive
  <2>2. (s \o t)[i] = W - l + i /\ (s \o t)[j] = W - l + j
    BY <1>8
  <2>3. (W - l + j) - (W - l + i) = j - i
    BY <1>2
  <2> QED
    BY <2>2, <2>3, Zenon
<1>10. Last(s \o t) = W + k
  <2>1. l + k \in 1..l + k /\ W - l + (l + k) = W + k
    BY <1>2
  <2>2. (s \o t)[l + k] = W - l + (l + k)
    BY <1>8, <2>1
  <2> QED
    BY <1>5, <2>1, <2>2, Zenon DEF Last
<1>11. s \o t # <<>>
  <2>1. l + k # 0
    BY <1>2
  <2> QED
    BY <1>5, <2>1
<1>12. (s \o t)[1] = IF s = <<>> THEN W + 1 ELSE s[1]
  <2>1. 1 \in 1..l + k
    BY <1>2
  <2>2. (s \o t)[1] = W - l + 1 /\ (l # 0 => s[1] = W - l + 1)
    <3>1. l # 0 => 1 \in 1..l
      BY <1>2
    <3> QED
      BY <1>4, <1>8, <2>1, <3>1
  <2>3. l = 0 => W - l + 1 = W + 1
    OBVIOUS
  <2> QED
    BY <1>2, <2>2, <2>3, Zenon
<1> QED
  BY <1>5, <1>7, <1>9, <1>10, <1>11, <1>12, Zenon DEF Extended, t

(* What follows the open file in rotation order is empty.                  *)
LEMMA NothingAfterOpen ==
  ASSUME IndInv, Directory, NEW w \in Names, Open(w), NEW n \in Names, Earlier(w, n)
  PROVE  Contents(n) = <<>>
<1>1. CASE n = Active
  <2>1. Exists(Active) => fd # dir[Active]
    BY <1>1, ActiveIsName DEF Open, Earlier, Directory, Distinct
  <2> QED
    BY <1>1, <2>1 DEF Open, Exists, Contents, IndInv, Core, OldFileOpen
<1>2. CASE n # Active
  BY <1>2 DEF Open, Earlier, Directory, Newest, Exists, Contents
<1> QED
  BY <1>1, <1>2

(* Units that are twice on disk are so afterwards, or the active log is    *)
(* empty.                                                                  *)
LEMMA TwiceStays ==
  ASSUME CopyGoesOn, NEW m, NEW n, Twice(m, n)
  PROVE  Twice(m, n)' \/ (n = Active /\ Units(n)' = {})
BY DEF CopyGoesOn, Twice, LogDropped, Units, Range

(* An empty file has no units, and a file that keeps its contents keeps    *)
(* its units.                                                              *)
LEMMA UnitsFollow ==
  ASSUME NEW n
  PROVE  /\ Contents(n) = <<>> => Units(n) = {}
         /\ Contents(n)' = <<>> => Units(n)' = {}
         /\ Contents(n)' = Contents(n) => Units(n)' = Units(n)
BY DEF Units, Range

(* Every step keeps the units in order.                                    *)
LEMMA OrderKept ==
  ASSUME IndInv, IndInv', Directory, Flow, Clean', [Next]_vars
  PROVE  Flow'
<1>0. /\ LogEffect /\ CopyGoesOn /\ MidFlush'
      /\ Contiguous /\ Tip /\ Ahead /\ InOrder /\ Active \in Names /\ Distinct
  BY LabMoves, ActiveIsName DEF Flow, Order, Directory
<1>t. ASSUME NEW n \in Names
      PROVE  Contents(n) \in Seq(Unit) /\ Consecutive(Contents(n))
  BY <1>0, ContentsType DEF Contiguous
<1>w. Written \in Nat
  BY WrittenType
<1>u. ASSUME NEW n \in Names, NEW u \in Units(n) PROVE u \in Nat /\ u <= Written
  <2>1. u \in Unit
    BY <1>t DEF Units, Range
  <2> QED
    BY <1>0, <2>1 DEF Ahead, Unit
<1> SUFFICES Order'
  BY <1>0 DEF Flow
<1>1. CASE LogKept
  <2>1. /\ Written' = Written /\ OpenKept({})
        /\ \A n \in Names : Contents(n)' = Contents(n)
    BY <1>1 DEF LogKept, Stay
  <2>2. \A n \in Names : Units(n)' = Units(n)
    BY <2>1, UnitsFollow
  <2>3. Contiguous' /\ Ahead'
    BY <1>0, <2>1, <2>2 DEF Contiguous, Ahead
  <2>4. Tip'
    BY <1>0, <2>1 DEF Tip, OpenKept
  <2>5. InOrder'
    BY <1>0, <2>2, TwiceStays DEF InOrder
  <2> QED
    BY <2>3, <2>4, <2>5 DEF Order
<1>2. CASE LogWritten
  <2>1. PICK w \in Names, k \in Nat \ {0} :
          /\ Open(w) /\ Written' = Written + k
          /\ Contents(w)' = Contents(w) \o NextUnits(k)
          /\ Stay({w}) /\ OpenKept({})
    BY <1>2 DEF LogWritten
  <2>2. /\ Consecutive(Contents(w)') /\ Last(Contents(w)') = Written'
        /\ Range(Contents(w)') = Range(Contents(w)) \cup (Written + 1 .. Written + k)
    <3>1. PICK s \in Seq(Unit), W \in Nat, l \in Nat \ {0} :
            s = Contents(w) /\ W = Written /\ l = k
      BY <1>t, <1>w, <2>1
    <3>2. EndsAt(s, W)
      BY <1>0, <1>t, <2>1, <3>1 DEF Tip, EndsAt
    <3>3. Extended(s \o UnitsFrom(W, l), s, W, l)
      BY <3>2, ExtendedConsecutive
    <3> QED
      BY <2>1, <3>1, <3>3, Zenon DEF NextUnits, Extended
  <2>3. \A n \in Names : n # w => Contents(n)' = Contents(n) /\ Units(n)' = Units(n)
    BY <2>1, UnitsFollow DEF Stay
  <2>4. Units(w)' = Units(w) \cup (Written + 1 .. Written + k)
    BY <2>2 DEF Units
  <2>5. Contiguous'
    BY <1>0, <2>2, <2>3 DEF Contiguous
  <2>6. Tip'
    <3>1. ASSUME NEW n \in Names, Open(n)', Contents(n)' # <<>> PROVE n = w
      BY <1>0, <2>1, <3>1 DEF OpenKept, Open, Distinct
    <3> QED
      BY <2>2, <3>1, Zenon DEF Tip
  <2>7. Ahead'
    <3>1. ASSUME NEW n \in Names, NEW u \in Units(n)' PROVE u <= Written + k
      BY <1>u, <1>w, <2>3, <2>4, <3>1
    <3> QED
      BY <2>1, <3>1 DEF Ahead
  <2>8. ASSUME NEW m \in Names, NEW n \in Names, Earlier(m, n), ~Twice(m, n)',
               NEW u \in Units(m)', NEW v \in Units(n)'
        PROVE  u < v
    <3>1. ~Twice(m, n) \/ Units(n)' = {}
      BY <1>0, <2>8, TwiceStays
    <3>2. m # w
      <4>1. m = w => Contents(n) = <<>> /\ n # w
        BY <2>1, <2>8, NothingAfterOpen DEF Earlier
      <4> QED
        BY <2>3, <2>8, <4>1, UnitsFollow
    <3>3. u \in Units(m) /\ u \in Nat /\ u <= Written
      BY <1>u, <2>3, <2>8, <3>2
    <3>4. CASE v \in Units(n)
      BY <1>0, <2>8, <3>1, <3>3, <3>4 DEF InOrder
    <3>5. CASE v \notin Units(n)
      <4>1. v \in Written + 1 .. Written + k
        BY <2>3, <2>4, <2>8, <3>5
      <4> QED
        BY <1>w, <3>3, <4>1
    <3> QED
      BY <3>4, <3>5
  <2>9. InOrder'
    BY <2>8 DEF InOrder
  <2> QED
    BY <2>5, <2>6, <2>7, <2>9 DEF Order
<1>3. CASE LogCopied
  <2>1. /\ rpc = "copy" /\ Written' = Written /\ ordinal \in Names \ {Active}
        /\ ordinal' = ordinal /\ ~Open(ordinal) /\ Stay({ordinal}) /\ OpenKept({})
    BY <1>3 DEF LogCopied
  <2>2. PICK k \in 0..Len(Contents(Active)) :
          Contents(ordinal)' = SubSeq(Contents(Active), 1, k)
    BY <1>3 DEF LogCopied
  <2>3. Consecutive(Contents(ordinal)') /\ Units(ordinal)' \subseteq Units(Active)
    <3>1. /\ Consecutive(SubSeq(Contents(Active), 1, k))
          /\ Range(SubSeq(Contents(Active), 1, k)) \subseteq Range(Contents(Active))
      BY <1>0, <1>t, PrefixConsecutive
    <3> QED
      BY <2>1, <2>2, <3>1 DEF Units
  <2>4. \A n \in Names : n # ordinal => Contents(n)' = Contents(n) /\ Units(n)' = Units(n)
    BY <2>1, UnitsFollow DEF Stay
  <2>5. Contiguous'
    <3>1. ASSUME NEW n \in Names PROVE Consecutive(Contents(n)')
      BY <1>0, <2>1, <2>3, <2>4 DEF Contiguous
    <3> QED
      BY <3>1, Zenon DEF Contiguous
  <2>6. Tip'
    BY <1>0, <2>1, <2>4 DEF Tip, OpenKept
  <2>7. Ahead'
    BY <1>0, <2>1, <2>3, <2>4 DEF Ahead
  <2>8. ASSUME NEW m \in Names, NEW n \in Names, Earlier(m, n), ~Twice(m, n)'
        PROVE  \A u \in Units(m)', v \in Units(n)' : u < v
    <3>1. m # ordinal \/ n # Active
      BY <1>0, <2>1, <2>8 DEF Twice, CopyGoesOn, LogDropped
    <3>2. CASE m = ordinal
      <4>1. n > ordinal /\ n # ordinal
        BY <2>8, <3>1, <3>2 DEF Earlier
      <4>2. Contents(n) = <<>>
        BY <4>1 DEF IndInv, Core, Ordinals, Contents, Exists
      <4> QED
        BY <2>4, <4>1, <4>2, UnitsFollow
    <3>3. CASE m # ordinal
      <4>1. m # Active /\ Earlier(m, Active) /\ ~Twice(m, Active) /\ ~Twice(m, n)
        BY <2>1, <2>8, <3>3 DEF Earlier, Twice
      <4>2. \A u \in Units(m), v \in Units(n) \cup Units(Active) : u < v
        BY <1>0, <2>8, <4>1 DEF InOrder
      <4>3. Units(m)' = Units(m)
        BY <2>4, <3>3
      <4>4. Units(n)' \subseteq Units(n) \cup Units(Active)
        <5>1. CASE n = ordinal
          BY <2>1, <2>3, <5>1
        <5>2. CASE n # ordinal
          BY <2>4, <5>2
        <5> QED
          BY <5>1, <5>2
      <4> QED
        BY <4>2, <4>3, <4>4
    <3> QED
      BY <3>2, <3>3
  <2>9. InOrder'
    BY <2>8 DEF InOrder
  <2> QED
    BY <2>5, <2>6, <2>7, <2>9 DEF Order
<1>4. CASE LogDropped
  <2>1. /\ rpc = "truncate" /\ Written' = Written /\ Contents(Active)' = <<>>
        /\ \A n \in Names : n # Active => Contents(n)' = Contents(n)
        /\ OpenKept({Active})
    BY <1>4 DEF LogDropped, Stay
  <2>2. Units(Active)' = {} /\ \A n \in Names : n # Active => Units(n)' = Units(n)
    BY <2>1, UnitsFollow
  <2>3. Contiguous'
    BY <1>0, <2>1 DEF Contiguous, Consecutive
  <2>4. Tip' /\ Ahead'
    BY <1>0, <2>1, <2>2 DEF Tip, OpenKept, Ahead
  <2>5. InOrder'
    BY <1>0, <2>1, <2>2 DEF InOrder, Earlier, Twice
  <2> QED
    BY <2>3, <2>4, <2>5 DEF Order
<1>5. CASE LogMoved
  <2>1. /\ rpc = "rename" /\ Written' = Written /\ ordinal \in Names \ {Active}
        /\ ordinal' = ordinal /\ \A m \in Names : m >= ordinal => Contents(m) = <<>>
        /\ Contents(ordinal)' = Contents(Active) /\ Contents(Active)' = <<>>
        /\ ~Open(Active)' /\ (Open(ordinal)' <=> Open(Active))
        /\ \A n \in Names : n \notin {Active, ordinal} => Contents(n)' = Contents(n)
        /\ OpenKept({Active, ordinal})
    BY <1>5 DEF LogMoved, Stay
  <2>2. /\ Units(Active)' = {} /\ Units(ordinal)' = Units(Active)
        /\ \A n \in Names : n \notin {Active, ordinal} => Units(n)' = Units(n)
    BY <2>1, UnitsFollow DEF Units
  <2>3. Contiguous' /\ Ahead'
    BY <1>0, <2>1, <2>2 DEF Contiguous, Consecutive, Ahead
  <2>4. Tip'
    BY <1>0, <2>1 DEF Tip, OpenKept
  <2>5. ASSUME NEW m \in Names, NEW n \in Names, Earlier(m, n)
        PROVE  \A u \in Units(m)', v \in Units(n)' : u < v
    <3>1. m # Active /\ Earlier(m, Active) /\ ~Twice(m, Active) /\ ~Twice(m, n)
      BY <2>1, <2>5 DEF Earlier, Twice
    <3>2. \A u \in Units(m), v \in Units(n) \cup Units(Active) : u < v
      BY <1>0, <2>5, <3>1 DEF InOrder
    <3>3. m = ordinal => Units(n)' = {}
      <4>1. m = ordinal /\ n # Active => n >= ordinal /\ n # ordinal
        BY <2>5 DEF Earlier, Names, Active
      <4> QED
        BY <2>1, <2>2, <4>1, UnitsFollow
    <3>4. CASE m = ordinal
      BY <3>3, <3>4
    <3>5. CASE m # ordinal
      <4>1. Units(m)' = Units(m)
        BY <2>2, <3>1, <3>5
      <4>2. Units(n)' \subseteq Units(n) \cup Units(Active)
        <5>1. CASE n = ordinal
          BY <2>1, <2>2, <5>1
        <5>2. CASE n = Active
          BY <2>2, <5>2
        <5>3. CASE n # ordinal /\ n # Active
          BY <2>2, <5>3
        <5> QED
          BY <5>1, <5>2, <5>3
      <4> QED
        BY <3>2, <4>1, <4>2
    <3> QED
      BY <3>4, <3>5
  <2>6. InOrder'
    BY <2>5 DEF InOrder
  <2> QED
    BY <2>3, <2>4, <2>6 DEF Order
<1>6. CASE LogExpired
  <2>1. /\ rpc = "retention" /\ Written' = Written /\ OpenKept({})
        /\ \A n \in Names : Contents(n)' = <<>> \/ Contents(n)' = Contents(n)
    BY <1>6 DEF LogExpired
  <2>2. \A n \in Names : Units(n)' = {} \/ Units(n)' = Units(n)
    BY <2>1, UnitsFollow
  <2>3. Contiguous'
    BY <1>0, <2>1 DEF Contiguous, Consecutive
  <2>4. Tip' /\ Ahead'
    BY <1>0, <2>1, <2>2 DEF Tip, OpenKept, Ahead
  <2>5. InOrder'
    <3>1. \A m, n \in Names : ~Twice(m, n)
      BY <2>1 DEF Twice
    <3> QED
      BY <1>0, <2>2, <3>1 DEF InOrder
  <2> QED
    BY <2>3, <2>4, <2>5 DEF Order
<1> QED
  BY <1>0, <1>1, <1>2, <1>3, <1>4, <1>5, <1>6 DEF LogEffect

(* An exit status that is to be non-zero stays so.                         *)
LEMMA CleanBefore ==
  ASSUME [Next]_vars, Clean'
  PROVE  Clean
<1>1. werr => werr'
  <2>1. CASE GoNext
    BY <2>1 DEF GoNext, GoStart, GoStartFailure, GoHandleReopen, GoStop, GoTick,
        GoEncodeError, GoFlushTick, GoReopen, GoOpen, GoReopenError, GoWrite,
        GoWriteError, GoExit, Start, StartFailure, HandleReopen, Exit, WriteUnits
  <2>2. CASE CppNext
    BY <2>2 DEF CppNext, CppStart, CppStartFailure, CppHandleReopen, CppBegin,
        CppTick, CppOpen, CppReopenError, CppWrite, CppWriteError, CppStop, CppExit,
        Start, StartFailure, HandleReopen, Exit, WriteUnits
  <2>3. CASE RotatorNext /\ UNCHANGED <<writerVars, harnessVars>>
    BY <2>3 DEF writerVars
  <2>4. CASE HarnessNext
    BY <2>4
    DEF HarnessNext, StartWriter, Healthy, StartupFailed, Aborted, RotatorReaped, Cancel,
        ReopensAwaited, WriterReaped, Collect, writerVars
  <2>5. CASE WriterKilled \/ UNCHANGED vars
    BY <2>5 DEF WriterKilled, vars, writerVars
  <2> QED
    BY <2>1, <2>2, <2>3, <2>4, <2>5 DEF Next, Returned
<1> QED
  BY <1>1 DEF Clean

(* The invariant about the log: the directory's shape always, the units'   *)
(* order as long as no write has failed.                                   *)
LogInv == IndInv /\ Directory /\ (Clean => Flow)

LEMMA LogInvInit == LabInit => LogInv
<1> SUFFICES ASSUME LabInit PROVE LogInv
  OBVIOUS
<1>1. /\ IndInv /\ \A n \in Names : dir[n] = None
      /\ fd = None /\ off = 0 /\ rpc = "off"
  BY InitEstablishes DEF LabInit, HostInit, WriterInit, RotatorInit
<1>2. \A n \in Names : Contents(n) = <<>> /\ Units(n) = {} /\ ~Open(n)
  BY <1>1, UnitsFollow DEF Contents, Open, Exists
<1>3. Directory
  BY <1>1 DEF Directory, Distinct, Newest, Unopened, CopyOnly, Exists
<1>4. Flow
  BY <1>1, <1>2 DEF Flow, MidFlush, Order, Contiguous, Consecutive, Tip, Ahead, InOrder
<1> QED
  BY <1>1, <1>3, <1>4 DEF LogInv

LEMMA LogInvNext == LogInv /\ [Next]_vars => LogInv'
BY NextPreserves, DirectoryKept, CleanBefore, OrderKept DEF LogInv

(* It holds in every state of every run.                                   *)
LEMMA LogInvariant == Spec => []LogInv
BY LogInvInit, LogInvNext, PTL DEF Spec

-----------------------------------------------------------------------------
(***************************************************************************)
(* The log as a whole.  Its pieces are the files in rotation order.        *)
(***************************************************************************)
Slot(k)   == IF k <= Rotations THEN k ELSE Active
Place(n)  == IF n = Active THEN Rotations + 1 ELSE n
Pieces    == [k \in 1..Rotations + 1 |-> Contents(IF k <= Rotations THEN k ELSE Active)]
PieceKinds == [1..Rotations + 1 -> Seq(Unit)]

(* The places of the names, in rotation order.                             *)
LEMMA Slots ==
  /\ Rotations + 1 \in Nat \ {0}
  /\ \A k \in 1..Rotations + 1 : Slot(k) \in Names /\ Place(Slot(k)) = k
  /\ \A n \in Names : Place(n) \in 1..Rotations + 1 /\ Slot(Place(n)) = n
  /\ \A j, k \in 1..Rotations + 1 : j < k <=> Earlier(Slot(j), Slot(k))
BY HostAssumption DEF Slot, Place, Names, Active, Earlier

LEMMA PiecesNow ==
  ASSUME IndInv
  PROVE  /\ Pieces \in PieceKinds /\ LogOnDisk = FlattenSeq(Pieces)
         /\ \A k \in 1..Rotations + 1 : Pieces[k] = Contents(Slot(k))
<1>1. \A k \in 1..Rotations + 1 : Pieces[k] = Contents(Slot(k))
  BY DEF Pieces, Slot
<1>2. \A k \in 1..Rotations + 1 : Contents(Slot(k)) \in Seq(Unit)
  BY Slots, ContentsType
<1>3. Pieces \in PieceKinds
  BY <1>1, <1>2 DEF Pieces, PieceKinds
<1> QED
  BY <1>1, <1>3 DEF LogOnDisk, Pieces

LEMMA PiecesAre ==
  ASSUME IndInv, IndInv'
  PROVE  /\ Pieces \in PieceKinds /\ Pieces' \in PieceKinds
         /\ \A k \in 1..Rotations + 1 : Pieces[k] = Contents(Slot(k))
         /\ \A k \in 1..Rotations + 1 : Pieces'[k] = Contents(Slot(k))'
         /\ LogOnDisk = FlattenSeq(Pieces) /\ LogOnDisk' = FlattenSeq(Pieces')
<1>1. \A k \in 1..Rotations + 1 : Pieces[k] = Contents(Slot(k))
  BY DEF Pieces, Slot
<1>2. \A k \in 1..Rotations + 1 : Pieces'[k] = Contents(Slot(k))'
  BY DEF Pieces, Slot
<1>3. \A k \in 1..Rotations + 1 : Contents(Slot(k)) \in Seq(Unit)
  BY Slots, ContentsType
<1>4. \A k \in 1..Rotations + 1 : Contents(Slot(k))' \in Seq(Unit)
  <2>1. ASSUME NEW n \in Names PROVE Contents(n)' \in Seq(Unit)
    <3>1. /\ dir' \in [Names -> inodes' \cup {None}] /\ data' \in [Inodes -> Seq(Unit)]
          /\ inodes' \subseteq Inodes
      BY DEF IndInv, TypeOK, HostTypeOK
    <3>2. CASE dir'[n] = None
      BY <3>2 DEF Contents, Exists
    <3>3. CASE dir'[n] # None
      <4>1. Contents(n)' = data'[dir'[n]] /\ dir'[n] \in Inodes
        BY <3>1, <3>3 DEF Contents, Exists
      <4> QED
        BY <3>1, <4>1
    <3> QED
      BY <3>2, <3>3
  <2> QED
    BY <2>1, Slots
<1>5. Pieces \in PieceKinds
  BY <1>1, <1>3 DEF Pieces, PieceKinds
<1>6. Pieces' \in PieceKinds
  BY <1>2, <1>4 DEF Pieces, PieceKinds
<1>7. LogOnDisk = FlattenSeq(Pieces) /\ LogOnDisk' = FlattenSeq(Pieces')
  BY DEF LogOnDisk, Pieces
<1> QED
  BY <1>1, <1>2, <1>5, <1>6, <1>7

(* Retention removes the oldest backups, up to some ordinal.               *)
LEMMA OldestExpire ==
  ASSUME TypeOK
  PROVE  \E k \in 0..Rotations :
           \A n \in Names \ {Active} : Exists(n) => (n \in Expired <=> n <= k)
<1>0. /\ Rotations \in Nat /\ Names = 0..Rotations /\ Active = 0
      /\ config.maxBackups \in Nat /\ IsFiniteSet(Names)
  BY HostAssumption, FS_Interval DEF Names, Active, TypeOK, HostTypeOK
<1> DEFINE T == {k \in Nat : \A n \in Expired : n <= k}
<1>1. Expired \subseteq Names \ {Active}
  BY DEF Expired, Backups
<1>2. Rotations \in T
  BY <1>0, <1>1
<1>3. PICK k \in T : \A x \in T : k <= x
  BY <1>2, LeastNatural
<1>4. k \in 0..Rotations /\ \A n \in Expired : n <= k
  BY <1>0, <1>2, <1>3
<1>5. ASSUME NEW n \in Expired, NEW m \in Names \ {Active}, Exists(m), m <= n
      PROVE  m \in Expired
  <2> DEFINE M == {x \in Backups : x >= m}
             L == {x \in Backups : x >= n}
  <2>1. L \subseteq M
    BY <1>0, <1>1, <1>5 DEF Backups
  <2>2. IsFiniteSet(M)
    BY <1>0, FS_Subset DEF Backups
  <2>3. Cardinality(L) <= Cardinality(M) /\ Cardinality(M) \in Nat /\ Cardinality(L) \in Nat
    BY <2>1, <2>2, FS_Subset, FS_CardinalityType
  <2>4. config.maxBackups > 0 /\ Cardinality(L) > config.maxBackups
    BY DEF Expired
  <2>5. m \in Backups
    BY <1>5 DEF Backups
  <2> HIDE DEF L
  <2>6. Cardinality(M) > config.maxBackups
    BY <1>0, <2>3, <2>4
  <2> QED
    BY <2>4, <2>5, <2>6 DEF Expired
<1>6. ASSUME NEW n \in Names \ {Active}, Exists(n), n <= k PROVE n \in Expired
  <2>1. k # 0 /\ k - 1 \in Nat /\ ~(k <= k - 1)
    BY <1>0, <1>4, <1>6
  <2>2. k - 1 \notin T
    BY <1>3, <2>1
  <2>3. PICK x \in Expired : ~(x <= k - 1)
    BY <2>1, <2>2
  <2>4. n <= x
    BY <1>0, <1>1, <1>4, <1>6, <2>1, <2>3
  <2> QED
    BY <1>5, <1>6, <2>4
<1> QED
  BY <1>4, <1>6

(* A step of a run that does not truncate: the whole grows at its end by   *)
(* what comes next in the stream, or loses a beginning, or stays.          *)
Grown ==
  \E k \in Nat \ {0} : Written' = Written + k /\ LogOnDisk' = LogOnDisk \o NextUnits(k)
Shrunk == Written' = Written /\ EndsWith(LogOnDisk, LogOnDisk', Unit)

LEMMA LogGrows ==
  ASSUME LogInv, LogInv', LogWritten
  PROVE  Grown
<1>1. PICK w \in Names, k \in Nat \ {0} :
        /\ Open(w) /\ Written' = Written + k
        /\ Contents(w)' = Contents(w) \o NextUnits(k) /\ Stay({w})
  BY DEF LogWritten
<1>2. PICK s, t, N, u :
        s = Pieces /\ t = Pieces' /\ N = Rotations + 1 /\ u = NextUnits(k)
  OBVIOUS
<1>3. /\ N \in Nat \ {0} /\ s \in [1..N -> Seq(Unit)] /\ t \in [1..N -> Seq(Unit)]
      /\ Place(w) \in 1..N /\ Slot(Place(w)) = w
      /\ LogOnDisk = FlattenSeq(s) /\ LogOnDisk' = FlattenSeq(t)
  BY <1>2, Slots, PiecesAre DEF PieceKinds, LogInv
<1>4. u \in Seq(Unit)
  <2>1. Written \in Nat
    BY WrittenType DEF LogInv, IndInv
  <2> QED
    BY <1>2, <2>1 DEF NextUnits, UnitsFrom, Unit
<1>5. s[Place(w)] = Contents(w) /\ t[Place(w)] = Contents(w)'
  BY <1>2, <1>3, PiecesAre DEF LogInv
<1>6. t[Place(w)] = s[Place(w)] \o u
  BY <1>1, <1>2, <1>5, Zenon
<1>7. \A j \in 1..N : j # Place(w) => t[j] = s[j]
  <2>1. ASSUME NEW j \in 1..N, j # Place(w) PROVE t[j] = s[j]
    <3>1. Slot(j) \in Names /\ Slot(j) # w
      BY <1>2, <2>1, Slots
    <3>2. s[j] = Contents(Slot(j)) /\ t[j] = Contents(Slot(j))'
      BY <1>2, PiecesAre DEF LogInv
    <3>3. Contents(Slot(j))' = Contents(Slot(j))
      BY <1>1, <3>1 DEF Stay
    <3> QED
      BY <3>2, <3>3
  <2> QED
    BY <2>1
<1>8. \A j \in Place(w) + 1..N : s[j] = <<>>
  <2>1. ASSUME NEW j \in Place(w) + 1..N PROVE s[j] = <<>>
    <3>1. j \in 1..N /\ Place(w) < j
      BY <1>3
    <3>2. Slot(j) \in Names /\ Earlier(w, Slot(j))
      BY <1>2, <1>3, <3>1, Slots
    <3>3. Contents(Slot(j)) = <<>>
      BY <1>1, <3>2, NothingAfterOpen DEF LogInv
    <3> QED
      BY <1>2, <3>1, <3>3, PiecesAre DEF LogInv
  <2> QED
    BY <2>1
<1>9. Parts(FlattenSeq(t), FlattenSeq(s), u)
  <2>1. Families(s, t, N, Unit) /\ Appended(s, t, N, Place(w), u)
    BY <1>3, <1>6, <1>7, <1>8, Zenon DEF Families, Appended
  <2> QED
    BY <1>3, <1>4, <2>1, FlattenAppend
<1> QED
  BY <1>1, <1>2, <1>3, <1>9, Zenon DEF Grown, Parts

LEMMA LogMoves ==
  ASSUME LogInv, LogInv', LogMoved
  PROVE  LogOnDisk' = LogOnDisk
<1>1. /\ ordinal \in Names \ {Active} /\ ordinal' = ordinal
      /\ \A m \in Names : m >= ordinal => Contents(m) = <<>>
      /\ Contents(ordinal)' = Contents(Active) /\ Contents(Active)' = <<>>
      /\ \A n \in Names : n \notin {Active, ordinal} => Contents(n)' = Contents(n)
  BY DEF LogMoved, Stay
<1>2. PICK s, t, N, k : s = Pieces /\ t = Pieces' /\ N = Rotations + 1 /\ k = ordinal
  OBVIOUS
<1>3. /\ N \in Nat \ {0} /\ s \in [1..N -> Seq(Unit)] /\ t \in [1..N -> Seq(Unit)]
      /\ LogOnDisk = FlattenSeq(s) /\ LogOnDisk' = FlattenSeq(t)
  BY <1>2, Slots, PiecesAre DEF PieceKinds, LogInv
<1>4. /\ k \in 1..N - 1 /\ Slot(k) = k /\ Slot(N) = Active /\ N \in 1..N
      /\ \A j \in 1..N - 1 : Slot(j) = j /\ j \in Names /\ j # Active /\ j \in 1..N
  BY <1>1, <1>2, HostAssumption DEF Slot, Names, Active
<1>5. \A j \in 1..N : s[j] = Contents(Slot(j)) /\ t[j] = Contents(Slot(j))'
  BY <1>2, PiecesAre DEF LogInv
<1>6. t[k] = s[N]
  BY <1>1, <1>2, <1>4, <1>5
<1>7. \A j \in k..N - 1 : s[j] = <<>> /\ j \in 1..N - 1 /\ j >= k
  BY <1>1, <1>2, <1>4, <1>5
<1>8. \A j \in 1..k - 1 : s[j] = t[j]
  <2>1. ASSUME NEW j \in 1..k - 1 PROVE s[j] = t[j]
    <3>1. j \in 1..N - 1 /\ j # k
      BY <1>3, <1>4
    <3>2. Contents(j)' = Contents(j)
      BY <1>1, <1>2, <1>4, <3>1
    <3> QED
      BY <1>4, <1>5, <3>1, <3>2
  <2> QED
    BY <2>1
<1>9. \A j \in k + 1..N : t[j] = <<>>
  <2>1. ASSUME NEW j \in k + 1..N PROVE t[j] = <<>>
    <3>1. CASE j = N
      BY <1>1, <1>4, <1>5, <3>1
    <3>2. CASE j # N
      <4>1. j \in 1..N - 1 /\ j # k /\ j >= k
        BY <1>3, <1>4, <3>2
      <4>2. Contents(j)' = Contents(j) /\ Contents(j) = <<>>
        BY <1>1, <1>2, <1>4, <4>1
      <4> QED
        BY <1>4, <1>5, <4>1, <4>2
    <3> QED
      BY <3>1, <3>2
  <2> QED
    BY <2>1
<1>10. FlattenSeq(t) = FlattenSeq(s)
  <2>1. Families(s, t, N, Unit) /\ Moved(s, t, N, k)
    BY <1>3, <1>6, <1>7, <1>8, <1>9 DEF Families, Moved
  <2> QED
    BY <1>3, <1>4, <2>1, FlattenMove
<1> QED
  BY <1>3, <1>10

LEMMA LogShrinks ==
  ASSUME LogInv, LogInv', LogExpired
  PROVE  Shrunk
<1>1. \A n \in Names : Contents(n)' = IF n \in Expired THEN <<>> ELSE Contents(n)
  BY DEF LogExpired
<1>2. PICK s, t, N : s = Pieces /\ t = Pieces' /\ N = Rotations + 1
  OBVIOUS
<1>3. /\ N \in Nat \ {0} /\ s \in [1..N -> Seq(Unit)] /\ t \in [1..N -> Seq(Unit)]
      /\ LogOnDisk = FlattenSeq(s) /\ LogOnDisk' = FlattenSeq(t)
  BY <1>2, Slots, PiecesAre DEF PieceKinds, LogInv
<1>4. /\ Slot(N) = Active
      /\ \A j \in 1..N - 1 : Slot(j) = j /\ j \in Names /\ j # Active /\ j \in 1..N
  BY <1>2, HostAssumption DEF Slot, Names, Active
<1>5. \A j \in 1..N : s[j] = Contents(Slot(j)) /\ t[j] = Contents(Slot(j))'
  BY <1>2, PiecesAre DEF LogInv
<1>6. PICK k \in 0..Rotations :
        \A n \in Names \ {Active} : Exists(n) => (n \in Expired <=> n <= k)
  BY OldestExpire DEF LogInv, IndInv
<1>7. \A j \in 1..k : t[j] = <<>>
  <2>1. ASSUME NEW j \in 1..k PROVE t[j] = <<>>
    <3>1. j \in 1..N - 1 /\ j <= k
      BY <1>2, <1>3, HostAssumption
    <3>2. Exists(j) => j \in Expired
      BY <1>4, <1>6, <3>1
    <3>3. Contents(j)' = <<>>
      BY <1>1, <1>4, <3>1, <3>2 DEF Contents
    <3> QED
      BY <1>4, <1>5, <3>1, <3>3
  <2> QED
    BY <2>1
<1>8. \A j \in k + 1..N : s[j] = t[j]
  <2>1. ASSUME NEW j \in k + 1..N PROVE s[j] = t[j]
    <3>1. j \in 1..N /\ (j # N => j \in 1..N - 1) /\ ~(j <= k) /\ Slot(j) \in Names
      BY <1>2, <1>3, <2>1, Slots
    <3>2. Slot(j) \notin Expired
      BY <1>4, <1>6, <3>1 DEF Expired, Backups
    <3>3. Contents(Slot(j))' = Contents(Slot(j))
      BY <1>1, <3>1, <3>2
    <3> QED
      BY <1>5, <3>1, <3>3
  <2> QED
    BY <2>1
<1>9. k \in 0..N
  BY <1>2, <1>3, HostAssumption
<1>10. EndsWith(FlattenSeq(s), FlattenSeq(t), Unit)
  <2>1. Families(s, t, N, Unit) /\ Emptied(s, t, N, k)
    BY <1>3, <1>7, <1>8 DEF Families, Emptied
  <2> QED
    BY <1>3, <1>9, <2>1, FlattenRest
<1>11. Written' = Written
  BY DEF LogExpired
<1> QED
  BY <1>3, <1>10, <1>11, Zenon DEF Shrunk

(* The command line never changes.                                         *)
LEMMA ConfigKept ==
  ASSUME IndInv, [Next]_vars
  PROVE  config' = config
<1>1. CASE (GoNext \/ CppNext) /\ UNCHANGED <<rotatorVars, harnessVars>>
  BY <1>1, WriterDirectory
<1>2. CASE RotatorNext /\ UNCHANGED <<writerVars, harnessVars>>
  BY <1>2, RotatorDirectory
<1>3. CASE HarnessNext \/ WriterKilled \/ UNCHANGED vars
  BY <1>3, HarnessDirectory
<1> QED
  BY <1>1, <1>2, <1>3 DEF Next, Returned

(* Every step of a run that does not truncate changes the whole so.        *)
LEMMA WholeFollows ==
  ASSUME LogInv, LogInv', Clean', [Next]_vars, ~Copy
  PROVE  Grown \/ Shrunk \/ (Written' = Written /\ LogOnDisk' = LogOnDisk)
<1>1. LogEffect
  BY LabMoves, CleanBefore DEF LogInv, Flow
<1>2. ~LogCopied /\ ~LogDropped
  BY DEF LogInv, Directory, CopyOnly, LogCopied, LogDropped
<1>3. CASE LogKept
  <2>1. Written' = Written /\ \A n \in Names : Contents(n)' = Contents(n)
    BY <1>3 DEF LogKept, Stay
  <2>2. \A k \in 1..Rotations + 1 : Contents(Slot(k))' = Contents(Slot(k))
    BY <2>1, Slots
  <2>3. Pieces' = Pieces
    <3>1. PICK s, t, N : s = Pieces /\ t = Pieces' /\ N = Rotations + 1
      OBVIOUS
    <3>2. s \in [1..N -> Seq(Unit)] /\ t \in [1..N -> Seq(Unit)]
      BY <3>1, PiecesAre DEF LogInv, PieceKinds
    <3>3. \A k \in 1..N : s[k] = t[k]
      BY <2>2, <3>1, PiecesAre DEF LogInv
    <3>4. s = t
      <4>1. s = [k \in 1..N |-> s[k]] /\ t = [k \in 1..N |-> t[k]]
        BY <3>2, Zenon
      <4>2. [k \in 1..N |-> s[k]] = [k \in 1..N |-> t[k]]
        BY <3>3, Zenon
      <4> QED
        BY <4>1, <4>2
    <3> QED
      BY <3>1, <3>4
  <2> QED
    BY <2>1, <2>3, PiecesAre DEF LogInv
<1>4. CASE LogMoved
  BY <1>4, LogMoves DEF LogMoved
<1> QED
  BY <1>1, <1>2, <1>3, <1>4, LogGrows, LogShrinks DEF LogEffect

(* So it is a step of the abstract stream.                                 *)
LEMMA StreamStep ==
  ASSUME LogInv, LogInv', Clean', [Next]_vars
  PROVE  [Stream!Extend \/ Stream!Expire]_<<IF Copy THEN <<>> ELSE LogOnDisk,
                                            IF Copy THEN 0 ELSE flushed + off>>
<1>0. Copy' = Copy
  BY ConfigKept DEF LogInv, Copy
<1>1. CASE Copy
  BY <1>0, <1>1
<1>2. CASE ~Copy
  <2>1. Written = flushed + off /\ Written' = flushed' + off' /\ Written \in Nat
    BY WrittenType DEF LogInv, Written
  <2>2. CASE Grown
    <3>1. PICK k \in Nat \ {0} :
            Written' = Written + k /\ LogOnDisk' = LogOnDisk \o NextUnits(k)
      BY <2>2 DEF Grown
    <3>2. Written' > Written /\ Written' - Written = k
      BY <2>1, <3>1
    <3>3. LogOnDisk' = LogOnDisk \o [i \in 1..Written' - Written |-> Written + i]
      BY <3>1, <3>2, Zenon DEF NextUnits, UnitsFrom
    <3>4. Stream!Extend
      BY <1>0, <1>2, <2>1, <3>2, <3>3, Zenon DEF Stream!Extend
    <3> QED
      BY <3>4
  <2>3. CASE Shrunk
    <3>1. PICK p \in Seq(Unit) : LogOnDisk = p \o LogOnDisk'
      BY <2>3 DEF Shrunk, EndsWith, Parts
    <3>2. LogOnDisk \in Seq(Unit) /\ LogOnDisk' \in Seq(Unit)
      BY Slots, PiecesAre, FlattenType DEF LogInv, PieceKinds
    <3>3. CASE p = <<>>
      BY <1>0, <1>2, <2>1, <2>3, <3>1, <3>2, <3>3 DEF Shrunk
    <3>4. CASE p # <<>>
      <4>1. PICK s, t : s = LogOnDisk /\ t = LogOnDisk'
        OBVIOUS
      <4>2. Len(p) \in 1..Len(s) /\ t = SubSeq(s, Len(p) + 1, Len(s))
        BY <3>1, <3>2, <3>4, <4>1
      <4>3. Stream!Expire
        BY <1>0, <1>2, <2>1, <2>3, <4>1, <4>2 DEF Stream!Expire, Shrunk
      <4> QED
        BY <4>3
    <3> QED
      BY <3>3, <3>4
  <2>4. CASE Written' = Written /\ LogOnDisk' = LogOnDisk
    BY <1>0, <1>2, <2>1, <2>4
  <2> QED
    BY <1>2, <2>2, <2>3, <2>4, WholeFollows
<1> QED
  BY <1>1, <1>2

(* It begins empty.                                                        *)
LEMMA EmptyAtFirst ==
  ASSUME LabInit
  PROVE  LogOnDisk = <<>> /\ Written = 0
<1>1. /\ \A n \in Names : Contents(n) = <<>>
      /\ flushed = 0 /\ off = 0
  BY DEF LabInit, HostInit, WriterInit, Contents, Exists
<1>2. PICK s, N : s = Pieces /\ N = Rotations + 1
  OBVIOUS
<1>3. LogOnDisk = FlattenSeq(s) /\ N \in Nat \ {0} /\ s = [k \in 1..N |-> <<>>]
  BY <1>1, <1>2, Slots DEF LogOnDisk, Pieces, Slot
<1>4. FlattenSeq(s) = <<>>
  BY <1>3, FlattenEmpty
<1> QED
  BY <1>1, <1>3, <1>4 DEF Written

(* The baseline and rename-reopen keep an unbroken stream: nothing is lost, *)
(* repeated or reordered across the rotations, except what retention        *)
(* removes from the beginning.  (After a failed write the Go writer flushes *)
(* its whole buffer again, so the promise is void then.)                    *)
THEOREM StreamIsKept ==
  ASSUME "write" \notin Faults
  PROVE  Spec => KeepsStream
<1>1. LabInit => Stream!Init
  BY EmptyAtFirst DEF Written, LabInit, WriterInit, Stream!Init
<1>2. LogInv /\ LogInv' /\ [Next]_vars
        => [Stream!Extend \/ Stream!Expire]_<<IF Copy THEN <<>> ELSE LogOnDisk,
                                               IF Copy THEN 0 ELSE flushed + off>>
  BY StreamStep DEF Clean
<1> QED
  BY <1>1, <1>2, LogInvariant, PTL DEF Spec, KeepsStream, Stream!Spec
(* The pieces are in order, outside the window in which two files share    *)
(* what is being copied.                                                   *)
LEMMA PiecesInOrder ==
  ASSUME LogInv, Flow, rpc \notin {"copy", "truncate", "failed", "killed"}
  PROVE  \A j, k \in 1..Rotations + 1 :
           j < k => Below(Contents(Slot(j)), Contents(Slot(k)))
BY Slots DEF Flow, Order, InOrder, Twice, Units, Below

(* Copytruncate may lose units but, outside the window between copy and     *)
(* truncate, no unit is on disk twice or behind a later one.                *)
THEOREM CopytruncateInOrder ==
  ASSUME "write" \notin Faults
  PROVE  Spec => []CopytruncateKeepsOrder
<1>1. LogInv => CopytruncateKeepsOrder
  <2> SUFFICES ASSUME LogInv, rpc \notin {"copy", "truncate", "failed", "killed"}
               PROVE  \A i \in 1..Len(LogOnDisk) - 1 : LogOnDisk[i] < LogOnDisk[i + 1]
    BY DEF CopytruncateKeepsOrder
  <2>1. Flow
    BY DEF LogInv, Clean
  <2>2. PICK s, N : s = Pieces /\ N = Rotations + 1
    OBVIOUS
  <2>3. /\ N \in Nat \ {0} /\ s \in [1..N -> Seq(Unit)] /\ LogOnDisk = FlattenSeq(s)
        /\ \A k \in 1..N : s[k] = Contents(Slot(k))
    BY <2>2, Slots, PiecesNow DEF PieceKinds, LogInv
  <2>4. s \in [1..N -> Seq(Nat)]
    BY <2>3 DEF Unit
  <2>5. Ascending(s, N)
    <3>1. ASSUME NEW k \in 1..N PROVE Increasing(s[k])
      <4>1. Slot(k) \in Names
        BY <2>2, Slots
      <4>2. Consecutive(s[k])
        BY <2>1, <2>3, <4>1 DEF Flow, Order, Contiguous
      <4>3. s[k] \in Seq(Nat)
        BY <2>4
      <4>4. \A i, j \in DOMAIN s[k] : s[k][j] \in Nat /\ s[k][i] \in Nat /\ i \in Nat /\ j \in Nat
        BY <4>3
      <4> QED
        BY <4>2, <4>4 DEF Consecutive, Increasing
    <3>2. \A j, k \in 1..N : j < k => Below(s[j], s[k])
      BY <2>1, <2>2, <2>3, PiecesInOrder
    <3> QED
      BY <3>1, <3>2 DEF Ascending
  <2>6. Increasing(FlattenSeq(s)) /\ FlattenSeq(s) \in Seq(Nat)
    BY <2>3, <2>4, <2>5, FlattenIncreasing, FlattenType
  <2>7. PICK f \in Seq(Nat) : f = LogOnDisk /\ Increasing(f)
    BY <2>3, <2>6
  <2>8. \A i \in 1..Len(f) - 1 : i \in DOMAIN f /\ i + 1 \in DOMAIN f /\ i < i + 1
    OBVIOUS
  <2>9. \A i \in 1..Len(f) - 1 : f[i] < f[i + 1]
    BY <2>7, <2>8 DEF Increasing
  <2> QED
    BY <2>7, <2>9
<1> QED
  BY <1>1, LogInvariant, PTL

-----------------------------------------------------------------------------
(***************************************************************************)
(* What the integrity analyzer finds in the files of a judged run, for     *)
(* every record, buffer and file size and every number of rotations: no    *)
(* record twice and none out of order, ranges that follow the rotations,   *)
(* and a verdict that is exact.                                            *)
(***************************************************************************)
-----------------------------------------------------------------------------
(* What kind of unit follows which.                                        *)
LEMMA UnitFollows ==
  ASSUME NEW u \in Nat
  PROVE  /\ IsNewline(u) <=> IsRunID(u + 1)
         /\ IsRunID(u) <=> IsSequence(u + 1)
         /\ IsRunID(u) => ~IsNewline(u)
<1>1. RecordBytes \in Nat \ {0} /\ RecordBytes >= 3
  BY HostAssumption
<1>2. PICK r, t :
        r \in 0..RecordBytes - 1 /\ r = u % RecordBytes /\ t = (u + 1) % RecordBytes
        /\ t = IF r = RecordBytes - 1 THEN 0 ELSE r + 1
  BY <1>1, NextResidue
<1>3. (r = 0 <=> t = 1) /\ (r = 1 <=> t = 2)
  BY <1>1, <1>2
<1> QED
  BY <1>2, <1>3 DEF IsNewline, IsRunID, IsSequence

(* The first unit of a record, and the record a first unit is of.          *)
First(s) == RecordBytes * (s - 1) + 1

LEMMA FirstUnits ==
  ASSUME NEW s \in Nat \ {0}
  PROVE  First(s) \in Unit /\ IsRunID(First(s)) /\ RecordOf(First(s) + 1) = s
<1>1. RecordBytes \in Nat \ {0} /\ RecordBytes >= 3 /\ s - 1 \in Nat
  BY HostAssumption
<1>2. PICK d \in Nat \ {0}, q \in Nat : d = RecordBytes /\ q = s - 1 /\ d >= 3
  BY <1>1
<1>3. d * q \in Nat
  BY <1>2
<1>4. (d * q + 1) % d = 1 /\ (d * q + 1) \div d = q
  <2>1. 1 \in 0..d - 1
    BY <1>2
  <2> QED
    BY <2>1, Quotient
<1>5. (d * q + 1) + 1 - 1 = d * q + 1
  BY <1>3
<1> QED
  BY <1>2, <1>3, <1>4, <1>5 DEF First, Unit, IsRunID, RecordOf

LEMMA FirstUnitOf ==
  ASSUME NEW u \in Unit, IsRunID(u)
  PROVE  RecordOf(u + 1) \in Nat \ {0} /\ u = First(RecordOf(u + 1))
<1>1. PICK d \in Nat \ {0} : d = RecordBytes
  BY HostAssumption
<1>2. PICK q \in Nat, r \in 0..d - 1 : q = u \div d /\ r = u % d /\ u = d * q + r
  BY Division DEF Unit
<1>3. r = 1 /\ u + 1 - 1 = u
  BY <1>1, <1>2 DEF IsRunID, Unit
<1>4. RecordOf(u + 1) = q + 1
  BY <1>1, <1>2, <1>3 DEF RecordOf
<1>5. (q + 1) - 1 = q
  OBVIOUS
<1> QED
  BY <1>1, <1>2, <1>3, <1>4, <1>5 DEF First

LEMMA FirstOrder ==
  ASSUME NEW s \in Nat \ {0}, NEW t \in Nat \ {0}
  PROVE  s < t <=> First(s) < First(t)
<1>1. PICK d \in Nat \ {0} : d = RecordBytes
  BY HostAssumption
<1>2. ASSUME NEW a \in Nat, NEW b \in Nat, a < b PROVE d * a + 1 < d * b + 1
  BY <1>2
<1>3. s - 1 \in Nat /\ t - 1 \in Nat
  OBVIOUS
<1>4. CASE s < t
  <2>1. s - 1 < t - 1
    BY <1>4
  <2> QED
    BY <1>1, <1>2, <1>3, <1>4, <2>1 DEF First
<1>5. CASE s = t
  <2>1. First(s) \in Int
    BY <1>1, <1>3 DEF First
  <2> QED
    BY <1>5, <2>1
<1>6. CASE t < s
  <2>1. t - 1 < s - 1
    BY <1>6
  <2>2. First(t) < First(s) /\ First(s) \in Int /\ First(t) \in Int
    BY <1>1, <1>2, <1>3, <2>1 DEF First
  <2> QED
    BY <1>6, <2>2
<1> QED
  BY <1>4, <1>5, <1>6

-----------------------------------------------------------------------------
(* A line goes on to the first newline, or to the end of its file.         *)
EndOfLine(f, i, e) ==
  /\ e \in i..Len(f)
  /\ \A j \in i..e - 1 : ~IsNewline(f[j])
  /\ e = Len(f) \/ IsNewline(f[e])

LEMMA LineEnds ==
  ASSUME NEW f \in Seq(Unit), NEW i \in DOMAIN f
  PROVE  EndOfLine(f, i, LineEnd(f, i))
<1> DEFINE T == {j \in i..Len(f) : IsNewline(f[j])} \cup {Len(f)}
<1>1. Len(f) \in Nat /\ i \in 1..Len(f)
  OBVIOUS
<1>2. T \in SUBSET Nat /\ T # {} /\ T \subseteq i..Len(f)
  BY <1>1
<1>3. \A j \in T : j = Len(f) \/ IsNewline(f[j])
  OBVIOUS
<1>4. \A j \in i..Len(f) : IsNewline(f[j]) => j \in T
  OBVIOUS
<1>5. LineEnd(f, i) = Min(T)
  BY DEF LineEnd
<1> HIDE DEF T
<1>6. \E x \in T : \A y \in T : x <= y
  BY <1>2, LeastNatural
<1>7. Min(T) \in T /\ \A y \in T : Min(T) <= y
  BY <1>6, Zenon DEF Min
<1>8. PICK e \in i..Len(f) : e = Min(T) /\ e \in T /\ \A y \in T : e <= y
  BY <1>2, <1>7
<1>9. \A j \in i..e - 1 : j \in i..Len(f) /\ ~(e <= j)
  BY <1>1, <1>8
<1>10. \A j \in i..e - 1 : ~IsNewline(f[j])
  BY <1>4, <1>8, <1>9
<1> QED
  BY <1>3, <1>5, <1>8, <1>10 DEF EndOfLine

LEMMA LineShape ==
  ASSUME NEW f \in Seq(Unit), NEW i \in DOMAIN f, NEW e, EndOfLine(f, i, e)
  PROVE  LET l == SubSeq(f, i, e)
         IN  l \in Seq(Unit) /\ Len(l) = e - i + 1
             /\ \A k \in 1..e - i + 1 : l[k] = f[i + k - 1]
BY DEF EndOfLine

(* A line parses if and only if it begins with a run id whose sequence     *)
(* number has been written too.                                            *)
LEMMA LineParses ==
  ASSUME NEW f \in Seq(Unit), Consecutive(f), NEW i \in DOMAIN f
  PROVE  /\ Parses(Line(f, i)) <=> IsRunID(f[i]) /\ i + 1 \in DOMAIN f
         /\ Line(f, i)[1] = f[i]
         /\ Parses(Line(f, i)) => Line(f, i)[2] = f[i] + 1
<1> DEFINE l == Line(f, i)
<1>1. PICK n \in Nat, e \in Nat :
        n = Len(f) /\ e = LineEnd(f, i) /\ EndOfLine(f, i, e)
  <2>1. EndOfLine(f, i, LineEnd(f, i))
    BY LineEnds
  <2>2. Len(f) \in Nat /\ LineEnd(f, i) \in Nat
    BY <2>1 DEF EndOfLine
  <2> QED
    BY <2>1, <2>2
<1>2. /\ Len(l) = e - i + 1
      /\ \A k \in 1..e - i + 1 : l[k] = f[i + k - 1]
  BY <1>1, LineShape DEF Line
<1>3. i \in 1..n /\ e \in i..n /\ DOMAIN f = 1..n
  BY <1>1 DEF EndOfLine
<1>4. /\ \A j \in i..e - 1 : ~IsNewline(f[j])
      /\ e = n \/ IsNewline(f[e])
  BY <1>1 DEF EndOfLine
<1>5. \A j \in 1..n : f[j] \in Nat
  BY <1>3 DEF Unit
<1>6. \A j \in 1..n - 1 : f[j + 1] = f[j] + 1
  <2> SUFFICES ASSUME NEW j \in 1..n - 1 PROVE f[j + 1] = f[j] + 1
    OBVIOUS
  <2>1. j \in 1..n /\ j + 1 \in 1..n
    BY <1>1
  <2>2. f[j + 1] - f[j] = (j + 1) - j
    BY <1>3, <2>1, Zenon DEF Consecutive
  <2>3. f[j] \in Nat /\ f[j + 1] \in Nat
    BY <1>5, <2>1
  <2> QED
    BY <2>1, <2>2, <2>3
<1> HIDE DEF l
<1>7. l[1] = f[i]
  <2>1. 1 \in 1..e - i + 1 /\ i + 1 - 1 = i
    BY <1>3
  <2> QED
    BY <1>2, <2>1
<1>8. ASSUME Parses(l)
      PROVE  IsRunID(f[i]) /\ i + 1 \in DOMAIN f
  <2>1. PICK p \in 1..Len(l) - 1 : IsSequence(l[p + 1])
    BY <1>8 DEF Parses
  <2>2. p \in 1..e - i /\ p \in 1..e - i + 1 /\ p + 1 \in 1..e - i + 1
    BY <1>2, <1>3
  <2>3. PICK j \in 1..n - 1 : j = i + p - 1 /\ j \in i..e - 1 /\ j + 1 = i + (p + 1) - 1
    BY <1>3, <2>2
  <2>4. l[p + 1] = f[j + 1]
    BY <1>2, <2>2, <2>3
  <2>5. j \in 1..n /\ f[j] \in Nat /\ f[j + 1] = f[j] + 1
    <3>1. j \in 1..n
      BY <1>1
    <3> QED
      BY <1>5, <1>6, <3>1
  <2>6. IsRunID(f[j])
    <3>1. IsSequence(f[j] + 1) /\ f[j] \in Nat
      BY <2>1, <2>4, <2>5
    <3> QED
      BY <3>1, UnitFollows
  <2>7. j = i
    <3> SUFFICES ASSUME j # i PROVE FALSE
      OBVIOUS
    <3>1. PICK h \in i..e - 1 : h \in 1..n - 1 /\ h + 1 = j /\ h \in 1..n
      <4>1. i \in Nat /\ e \in Nat /\ n \in Nat /\ j \in Nat /\ i >= 1 /\ e <= n
        BY <1>1, <1>3
      <4>2. i <= j /\ j <= e - 1
        BY <2>3
      <4>3. j - 1 \in i..e - 1 /\ j - 1 \in 1..n - 1 /\ (j - 1) + 1 = j /\ j - 1 \in 1..n
        BY <4>1, <4>2
      <4> QED
        BY <4>3
    <3>2. f[j] = f[h] + 1 /\ f[h] \in Nat /\ ~IsNewline(f[h])
      BY <1>4, <1>5, <1>6, <3>1
    <3> QED
      BY <2>6, <3>2, UnitFollows
  <2>8. i + 1 \in 1..n
    BY <1>1, <2>3, <2>7
  <2> QED
    BY <1>3, <2>6, <2>7, <2>8
<1>9. ASSUME IsRunID(f[i]), i + 1 \in DOMAIN f
      PROVE  Parses(l) /\ l[2] = f[i] + 1
  <2>1. ~IsNewline(f[i]) /\ IsSequence(f[i] + 1)
    BY <1>3, <1>5, <1>9, UnitFollows
  <2>2. i \in 1..n - 1 /\ e # i
    <3>1. i + 1 \in 1..n
      BY <1>3, <1>9
    <3>2. i # n
      BY <1>1, <3>1
    <3> QED
      BY <1>1, <1>3, <1>4, <2>1, <3>2
  <2>3. 2 \in 1..e - i + 1 /\ i + 2 - 1 = i + 1 /\ 1 \in 1..Len(l) - 1
    BY <1>1, <1>2, <1>3, <2>2
  <2>4. l[2] = f[i] + 1
    BY <1>2, <1>6, <2>2, <2>3
  <2>5. Spaced(l[1]) /\ IsSequence(l[1 + 1])
    BY <1>7, <1>9, <2>1, <2>4 DEF Spaced
  <2>6. \A j \in 1..1 - 1 : ~Spaced(l[j])
    OBVIOUS
  <2>7. Parses(l)
    BY <2>3, <2>5, <2>6, Zenon DEF Parses
  <2> QED
    BY <2>4, <2>7
<1> QED
  BY <1>7, <1>8, <1>9 DEF l

-----------------------------------------------------------------------------
(***************************************************************************)
(* The lines of all files.                                                 *)
(***************************************************************************)
Lead(x) == Contents(x[1])[x[2]]

LEMMA LinesAre ==
  ASSUME IndInv
  PROVE  /\ \A x \in Lines : /\ x[1] \in Names /\ x[2] \in LineStarts(Contents(x[1]))
                             /\ x = <<x[1], x[2]>>
                             /\ LineAt(x) = Line(Contents(x[1]), x[2])
         /\ \A n \in Names : \A i \in LineStarts(Contents(n)) : <<n, i>> \in Lines
<1>1. ASSUME NEW x \in Lines
      PROVE  /\ x[1] \in Names /\ x[2] \in LineStarts(Contents(x[1]))
             /\ x = <<x[1], x[2]>>
             /\ LineAt(x) = Line(Contents(x[1]), x[2])
  <2>1. PICK n \in Names : Exists(n) /\ x \in {n} \X LineStarts(data[dir[n]])
    BY <1>1 DEF Lines
  <2>2. x[1] = n /\ x[2] \in LineStarts(data[dir[n]]) /\ x = <<x[1], x[2]>>
    BY <2>1
  <2>3. Contents(n) = data[dir[n]]
    BY <2>1 DEF Contents
  <2> QED
    BY <2>2, <2>3 DEF LineAt
<1>2. ASSUME NEW n \in Names, NEW i \in LineStarts(Contents(n))
      PROVE  <<n, i>> \in Lines
  <2>1. Exists(n)
    BY DEF LineStarts, Contents
  <2>2. i \in LineStarts(data[dir[n]])
    BY <2>1 DEF Contents
  <2> QED
    BY <2>1, <2>2 DEF Lines
<1> QED
  BY <1>1, <1>2

LEMMA LineFacts ==
  ASSUME IndInv, Contiguous, NEW x \in Lines
  PROVE  /\ x[1] \in Names /\ x[2] \in DOMAIN Contents(x[1]) /\ x = <<x[1], x[2]>>
         /\ Lead(x) \in Unit /\ Lead(x) \in Units(x[1])
         /\ LineAt(x)[1] = Lead(x)
         /\ Parses(LineAt(x)) <=> IsRunID(Lead(x)) /\ x[2] + 1 \in DOMAIN Contents(x[1])
         /\ Parses(LineAt(x)) => LineAt(x)[2] = Lead(x) + 1
<1>1. /\ x[1] \in Names /\ x[2] \in LineStarts(Contents(x[1])) /\ x = <<x[1], x[2]>>
      /\ LineAt(x) = Line(Contents(x[1]), x[2])
  BY LinesAre
<1>2. PICK f, i :
        f = Contents(x[1]) /\ i = x[2] /\ Consecutive(f) /\ f \in Seq(Unit)
  BY <1>1, ContentsType DEF Contiguous
<1>3. i \in DOMAIN f
  BY <1>1, <1>2 DEF LineStarts
<1>4. /\ Parses(Line(f, i)) <=> IsRunID(f[i]) /\ i + 1 \in DOMAIN f
      /\ Line(f, i)[1] = f[i]
      /\ Parses(Line(f, i)) => Line(f, i)[2] = f[i] + 1
  BY <1>2, <1>3, LineParses
<1>5. f[i] \in Unit /\ f[i] \in Range(f)
  BY <1>2, <1>3 DEF Range
<1> QED
  BY <1>1, <1>2, <1>3, <1>4, <1>5 DEF Lead, Units

(* Whatever parses begins with the run id of the run.                      *)
LEMMA NothingForeign ==
  ASSUME IndInv, Contiguous
  PROVE  /\ WrongRunID = 0
         /\ \A x \in Lines : x \in ValidLines <=> Parses(LineAt(x))
<1>1. \A x \in Lines : Parses(LineAt(x)) => OwnRunID(LineAt(x))
  BY LineFacts DEF OwnRunID
<1>2. {x \in Lines : Parses(LineAt(x)) /\ ~OwnRunID(LineAt(x))} = {}
  BY <1>1
<1> QED
  BY <1>1, <1>2, FS_EmptySet DEF WrongRunID, ValidLines

LEMMA ValidFacts ==
  ASSUME IndInv, Contiguous, NEW x \in ValidLines
  PROVE  /\ x \in Lines /\ x[1] \in Names /\ x[2] \in DOMAIN Contents(x[1])
         /\ Sequence(x) \in Nat \ {0} /\ Lead(x) = First(Sequence(x))
         /\ Lead(x) \in Units(x[1])
<1>1. x \in Lines /\ Parses(LineAt(x))
  BY DEF ValidLines
<1>2. Lead(x) \in Unit /\ IsRunID(Lead(x)) /\ LineAt(x)[2] = Lead(x) + 1
  BY <1>1, LineFacts
<1> QED
  BY <1>1, <1>2, LineFacts, FirstUnitOf DEF Sequence

-----------------------------------------------------------------------------
(***************************************************************************)
(* Once the rotator is done every unit is in one place only.               *)
(***************************************************************************)
Settled == LogInv /\ Flow /\ rpc = "done"

LEMMA SettledFacts ==
  ASSUME Settled
  PROVE  /\ IndInv /\ Contiguous /\ Written \in Nat
         /\ \A n \in Names : Units(n) \subseteq 1..Written
         /\ \A m, n \in Names : Earlier(m, n) => Below(Contents(m), Contents(n))
<1>1. IndInv /\ Contiguous /\ Ahead /\ InOrder /\ rpc = "done"
  BY DEF Settled, LogInv, Flow, Order
<1>2. Written \in Nat
  BY <1>1, WrittenType
<1>3. ASSUME NEW n \in Names, NEW u \in Units(n) PROVE u \in 1..Written
  <2>1. Contents(n) \in Seq(Unit)
    BY <1>1, ContentsType
  <2>2. u \in Unit
    BY <2>1 DEF Units, Range
  <2> QED
    BY <1>1, <1>2, <2>2 DEF Ahead, Unit
<1>4. \A m, n \in Names : Earlier(m, n) => Below(Contents(m), Contents(n))
  BY <1>1 DEF InOrder, Twice, Units, Below
<1> QED
  BY <1>1, <1>2, <1>3, <1>4

LEMMA UnitOnce ==
  ASSUME Settled, NEW m \in Names, NEW n \in Names,
         NEW u \in Units(m), u \in Units(n)
  PROVE  m = n
<1>1. m # n => Earlier(m, n) \/ Earlier(n, m)
  BY DEF Earlier, Names, Active
<1>2. u \in Nat
  BY SettledFacts
<1> QED
  BY <1>1, <1>2, SettledFacts DEF Below, Units

LEMMA PositionOnce ==
  ASSUME NEW f \in Seq(Unit), Consecutive(f), NEW i \in DOMAIN f, NEW j \in DOMAIN f
  PROVE  i < j <=> f[i] < f[j]
<1>1. f[j] - f[i] = j - i /\ f[i] \in Nat /\ f[j] \in Nat /\ i \in Nat /\ j \in Nat
  BY DEF Consecutive, Unit
<1> QED
  BY <1>1

LEMMA StartOnce ==
  ASSUME Settled, NEW x \in Lines, NEW y \in Lines, Lead(x) = Lead(y)
  PROVE  x = y
<1>1. /\ IndInv /\ Contiguous
      /\ x[1] \in Names /\ x[2] \in DOMAIN Contents(x[1]) /\ x = <<x[1], x[2]>>
      /\ y[1] \in Names /\ y[2] \in DOMAIN Contents(y[1]) /\ y = <<y[1], y[2]>>
      /\ Lead(x) \in Units(x[1]) /\ Lead(y) \in Units(y[1])
  BY SettledFacts, LineFacts
<1>2. x[1] = y[1]
  BY <1>1, UnitOnce
<1>3. PICK f, i, j :
        f = Contents(x[1]) /\ i = x[2] /\ j = y[2] /\ Consecutive(f) /\ f \in Seq(Unit)
  BY <1>1, ContentsType DEF Contiguous
<1>4. i \in DOMAIN f /\ j \in DOMAIN f /\ f[i] = f[j]
  BY <1>1, <1>2, <1>3 DEF Lead
<1>5. f[j] - f[i] = j - i /\ i \in Nat /\ j \in Nat /\ f[i] \in Nat
  BY <1>3, <1>4 DEF Consecutive, Unit
<1>6. i = j
  BY <1>4, <1>5
<1> QED
  BY <1>1, <1>2, <1>3, <1>6

LEMMA LinesFinite ==
  ASSUME Settled
  PROVE  IsFiniteSet(Lines) /\ IsFiniteSet(ValidLines)
<1> DEFINE f == [x \in Lines |-> Lead(x)]
<1>1. \A x \in Lines : Lead(x) \in 1..Written
  BY SettledFacts, LineFacts
<1>2. Injects(f, Lines, 1..Written)
  BY <1>1, StartOnce DEF Injects
<1>3. IsFiniteSet(1..Written)
  BY SettledFacts, FS_Interval
<1>4. IsFiniteSet(Lines)
  BY <1>2, <1>3, CountInto
<1> QED
  BY <1>4, FS_Subset DEF ValidLines

(* No record is in two lines.                                              *)
LEMMA SequenceOnce ==
  ASSUME Settled, NEW x \in ValidLines, NEW y \in ValidLines, Sequence(x) = Sequence(y)
  PROVE  x = y
BY SettledFacts, ValidFacts, StartOnce

LEMMA NothingTwice ==
  ASSUME Settled
  PROVE  Duplicates = 0
<1> DEFINE f == [x \in ValidLines |-> Sequence(x)]
<1>1. Seen = {Sequence(x) : x \in ValidLines}
  BY DEF Seen, Sequence
<1>2. Injects(f, ValidLines, Seen) /\ Covers(f, ValidLines, Seen)
  BY <1>1, SequenceOnce DEF Injects, Covers
<1>3. IsFiniteSet(ValidLines)
  BY LinesFinite
<1>4. Cardinality(Seen) = Cardinality(ValidLines) /\ Cardinality(ValidLines) \in Nat
  BY <1>2, <1>3, CountOnto, FS_CardinalityType
<1> QED
  BY <1>4 DEF Duplicates

(* In a file the records come in order.                                    *)
LEMMA InFileOrder ==
  ASSUME Settled, NEW x \in ValidLines, NEW y \in ValidLines, x[1] = y[1]
  PROVE  y[2] < x[2] <=> Sequence(y) < Sequence(x)
<1>1. /\ IndInv /\ Contiguous
      /\ x[1] \in Names /\ x[2] \in DOMAIN Contents(x[1]) /\ y[2] \in DOMAIN Contents(x[1])
      /\ Sequence(x) \in Nat \ {0} /\ Lead(x) = First(Sequence(x))
      /\ Sequence(y) \in Nat \ {0} /\ Lead(y) = First(Sequence(y))
  BY SettledFacts, ValidFacts
<1>2. PICK f \in Seq(Unit) : f = Contents(x[1]) /\ Consecutive(f)
  BY <1>1, ContentsType DEF Contiguous
<1>3. y[2] < x[2] <=> f[y[2]] < f[x[2]]
  BY <1>1, <1>2, PositionOnce
<1>4. f[y[2]] = First(Sequence(y)) /\ f[x[2]] = First(Sequence(x))
  BY <1>1, <1>2 DEF Lead
<1> QED
  BY <1>1, <1>3, <1>4, FirstOrder

LEMMA NothingDescends ==
  ASSUME Settled
  PROVE  DescendingTransitions = 0
<1>1. ASSUME NEW x \in ValidLines, NEW p \in Previous(x) PROVE ~(Sequence(x) < Sequence(p))
  <2>1. p \in ValidLines /\ p[1] = x[1] /\ p[2] < x[2]
    BY DEF Previous
  <2>2. Sequence(p) < Sequence(x) /\ Sequence(p) \in Nat /\ Sequence(x) \in Nat
    BY <2>1, InFileOrder, SettledFacts, ValidFacts
  <2> QED
    BY <2>2
<1>2. {x \in ValidLines :
         \E p \in Previous(x) : /\ Previous(x) = Previous(p) \cup {p}
                                /\ Sequence(x) < Sequence(p)} = {}
  BY <1>1
<1> QED
  BY <1>2, FS_EmptySet DEF DescendingTransitions

(* A record does not begin before its number.                              *)
LEMMA FirstBeyond ==
  ASSUME NEW s \in Nat \ {0}
  PROVE  s <= First(s)
<1>1. PICK d \in Nat \ {0}, q \in Nat : d = RecordBytes /\ q = s - 1
  BY HostAssumption
<1>2. d * q >= q
  BY <1>1
<1>3. d * q \in Nat
  BY <1>1
<1>4. q + 1 <= d * q + 1
  BY <1>1, <1>2, <1>3
<1> QED
  BY <1>1, <1>4 DEF First

-----------------------------------------------------------------------------
(***************************************************************************)
(* A run is judged when its rotator is done and its writer has exited with *)
(* status zero; from then on nothing changes the files.                    *)
(***************************************************************************)
Judged ==
  /\ hpc \in {"collect", "done"} => rpc = "done" /\ wpc = "exited" /\ ~werr
  /\ summary # "none" => hpc = "done"

LEMMA ExitedIsStill ==
  ASSUME GoNext \/ CppNext \/ WriterKilled, wpc = "exited"
  PROVE  UNCHANGED <<config, dir, data, wpc, fd, generated, flushed, off, reopenFailures,
                     werr, stateFile>>
<1>1. CASE GoNext
  <2>1. ~(GoStart \/ GoStartFailure \/ GoStop \/ GoEncodeError \/ GoFlushTick \/ GoReopen)
    BY DEF GoStart, GoStartFailure, GoStop, GoEncodeError, GoFlushTick, GoReopen, Start,
           StartFailure
  <2>2. ~(GoOpen \/ GoReopenError \/ GoWriteError \/ GoExit)
    BY DEF GoOpen, GoReopenError, GoWriteError, GoExit, Exit
  <2>3. ASSUME NEW n \in Nat PROVE ~GoTick(n) /\ ~GoWrite(n)
    BY DEF GoTick, GoWrite
  <2> QED
    BY <1>1, <2>1, <2>2, <2>3, HostAssumption DEF GoNext, GoHandleReopen, HandleReopen
<1>2. CASE CppNext
  <2>1. ~(CppStart \/ CppStartFailure \/ CppBegin \/ CppOpen \/ CppReopenError)
    BY DEF CppStart, CppStartFailure, CppBegin, CppOpen, CppReopenError, Start, StartFailure
  <2>2. ~(CppWriteError \/ CppStop \/ CppExit)
    BY DEF CppWriteError, CppStop, CppExit, Exit
  <2>3. ASSUME NEW n \in Nat PROVE ~CppWrite(n) /\ \A b \in BOOLEAN : ~CppTick(n, b)
    BY DEF CppTick, CppWrite
  <2> QED
    BY <1>2, <2>1, <2>2, <2>3, HostAssumption DEF CppNext, CppHandleReopen, HandleReopen
<1>3. CASE WriterKilled
  BY <1>3 DEF WriterKilled
<1> QED
  BY <1>1, <1>2, <1>3

LEMMA JudgedKept ==
  ASSUME Judged, [Next]_vars
  PROVE  Judged'
<1> USE DEF Judged
<1>1. CASE (GoNext \/ CppNext \/ WriterKilled) /\ UNCHANGED <<rotatorVars, harnessVars>>
  BY <1>1, ExitedIsStill DEF rotatorVars, harnessVars
<1>2. CASE RotatorNext /\ UNCHANGED <<writerVars, harnessVars>>
  BY <1>2, RotatorRuns DEF writerVars, harnessVars, RotatorExited
<1>3. CASE StartWriter \/ Healthy \/ StartupFailed \/ Aborted \/ RotatorReaped \/ Cancel
           \/ ReopensAwaited
  BY <1>3 DEF StartWriter, Healthy, StartupFailed, Aborted, RotatorReaped, Cancel,
              ReopensAwaited
<1>4. CASE WriterReaped
  <2>1. PICK monitorOK \in BOOLEAN :
          hpc' = IF rpc = "done" /\ wpc = "exited" /\ ~werr /\ monitorOK
                 THEN "collect" ELSE "error"
    BY <1>4 DEF WriterReaped, Outcome
  <2>2. hpc' = "collect" => rpc = "done" /\ wpc = "exited" /\ ~werr
    BY <2>1
  <2>3. hpc' \in {"collect", "error"}
    BY <2>1
  <2> QED
    BY <1>4, <2>2, <2>3 DEF WriterReaped, writerVars, rotatorVars
<1>5. CASE Collect
  BY <1>5 DEF Collect, writerVars, rotatorVars
<1>6. CASE UNCHANGED vars
  BY <1>6 DEF vars, writerVars, rotatorVars, harnessVars
<1> QED
  BY <1>1, <1>2, <1>3, <1>4, <1>5, <1>6 DEF Next, HarnessNext, Returned, WriterKilled

LEMMA JudgedInvariant == Spec => []Judged
<1>1. LabInit => Judged
  BY DEF LabInit, Judged
<1>2. Judged /\ [Next]_vars => Judged'
  BY JudgedKept
<1> QED
  BY <1>1, <1>2, PTL DEF Spec

LEMMA JudgedIsSettled ==
  ASSUME LogInv, Judged, hpc \in {"collect", "done"}
  PROVE  Settled
BY DEF Judged, LogInv, Clean, Settled

(* Loss is all a judged run can show, whatever its strategy, its retention *)
(* and the faults it met: no record twice, none behind a later one and     *)
(* none under a foreign run id.                                            *)
THEOREM JudgedRunsOnlyLose == Spec => []OnlyLossIsReported
<1>1. LogInv /\ Judged => OnlyLossIsReported
  <2> SUFFICES ASSUME LogInv, Judged, summary # "none"
               PROVE  Duplicates = 0 /\ WrongRunID = 0 /\ DescendingTransitions = 0
    BY DEF OnlyLossIsReported
  <2>1. Settled
    BY JudgedIsSettled DEF Judged
  <2> QED
    BY <2>1, NothingTwice, NothingForeign, NothingDescends, SettledFacts
<1> QED
  BY <1>1, LogInvariant, JudgedInvariant, PTL

-----------------------------------------------------------------------------
(***************************************************************************)
(* The ranges of the files.                                                *)
(***************************************************************************)
ValidIn(n)     == {x \in ValidLines : x[1] = n}
SequencesIn(n) == {Sequence(x) : x \in ValidIn(n)}

LEMMA RangeFacts ==
  ASSUME Settled, NEW n \in Names, FileSet(n).records > 0
  PROVE  /\ FileSet(n).records = Cardinality(SequencesIn(n))
         /\ FileSet(n).min \in SequencesIn(n) /\ FileSet(n).max \in SequencesIn(n)
         /\ \A s \in SequencesIn(n) : FileSet(n).min <= s /\ s <= FileSet(n).max
         /\ SequencesIn(n) \subseteq Nat \ {0}
<1> DEFINE V == ValidIn(n)
           S == SequencesIn(n)
           f == [x \in V |-> Sequence(x)]
<1>1. IsFiniteSet(V) /\ V \subseteq ValidLines
  BY LinesFinite, FS_Subset DEF ValidIn
<1>2. Injects(f, V, S) /\ Covers(f, V, S)
  BY <1>1, SequenceOnce DEF Injects, Covers, SequencesIn
<1>3. IsFiniteSet(S) /\ Cardinality(S) = Cardinality(V)
  BY <1>1, <1>2, CountOnto
<1>4. S \subseteq Nat \ {0}
  BY <1>1, SettledFacts, ValidFacts DEF SequencesIn
<1>5. /\ FileSet(n).records = Cardinality(V)
      /\ FileSet(n).min = IF S = {} THEN 0 ELSE Min(S)
      /\ FileSet(n).max = IF S = {} THEN 0 ELSE Max(S)
  BY DEF FileSet, ValidIn, SequencesIn
<1>6. S # {}
  <2>1. Cardinality(V) # 0
    BY <1>5
  <2>2. V # {}
    BY <2>1, FS_EmptySet
  <2> QED
    BY <2>2 DEF SequencesIn
<1> HIDE DEF S, V, f
<1>7. \E x \in S : \A y \in S : x <= y
  BY <1>4, <1>6, LeastNatural
<1>8. \E x \in S : \A y \in S : x >= y
  <2>1. \A s \in S : s <= Written
    <3>1. ASSUME NEW x \in V PROVE Sequence(x) <= Written
      <4>1. /\ Sequence(x) \in Nat \ {0} /\ Lead(x) = First(Sequence(x))
            /\ Lead(x) \in 1..Written
        BY <1>1, SettledFacts, ValidFacts
      <4>2. Sequence(x) <= First(Sequence(x))
        BY <4>1, FirstBeyond
      <4> QED
        BY <4>1, <4>2, SettledFacts
    <3> QED
      BY <3>1 DEF S, SequencesIn, V
  <2> QED
    BY <1>4, <1>6, <2>1, SettledFacts, GreatestNatural
<1>9. Min(S) \in S /\ \A y \in S : Min(S) <= y
  BY <1>7, Zenon DEF Min
<1>10. Max(S) \in S /\ \A y \in S : Max(S) >= y
  BY <1>8, Zenon DEF Max
<1>11. /\ FileSet(n).min \in S /\ FileSet(n).max \in S
       /\ \A s \in S : FileSet(n).min <= s /\ FileSet(n).max >= s
  BY <1>5, <1>6, <1>9, <1>10, Zenon
<1>12. FileSet(n).records = Cardinality(S)
  BY <1>3, <1>5
<1>13. \A s \in S : FileSet(n).max >= s => s <= FileSet(n).max
  BY <1>4, <1>11
<1> QED
  BY <1>4, <1>11, <1>12, <1>13 DEF S

(* A record whose first two units are in a file is found there.            *)
LEMMA RecordFound ==
  ASSUME IndInv, Contiguous, NEW n \in Names, NEW s \in Nat \ {0}, NEW k,
         k \in DOMAIN Contents(n), k + 1 \in DOMAIN Contents(n), Contents(n)[k] = First(s)
  PROVE  s \in SequencesIn(n)
<1>1. PICK f, v :
        f = Contents(n) /\ v = First(s) /\ f \in Seq(Unit) /\ Consecutive(f) /\ f[k] = v
  BY ContentsType DEF Contiguous
<1>2. PICK l \in Nat : l = Len(f) /\ DOMAIN f = 1..l /\ k \in 1..l /\ k + 1 \in 1..l
  BY <1>1
<1>3. \A p, q \in 1..l : f[q] - f[p] = q - p /\ f[p] \in Nat /\ f[q] \in Nat
  <2>1. \A p \in 1..l : f[p] \in Nat
    BY <1>1, <1>2 DEF Unit
  <2>2. \A p, q \in 1..l : f[q] - f[p] = q - p
    BY <1>1, <1>2, Zenon DEF Consecutive
  <2> QED
    BY <2>1, <2>2
<1>4. k \in LineStarts(f)
  <2>1. k \in DOMAIN f
    BY <1>2
  <2>2. CASE k = 1
    BY <2>1, <2>2 DEF LineStarts
  <2>3. CASE k # 1
    <3>1. PICK h \in 1..l : h = k - 1 /\ h + 1 = k
      BY <1>2, <2>3
    <3>2. f[k] - f[h] = k - h /\ f[h] \in Nat /\ f[k] \in Nat
      BY <1>2, <1>3
    <3>3. v = f[h] + 1
      BY <1>1, <1>2, <3>1, <3>2
    <3>4. IsRunID(v)
      BY <1>1, FirstUnits
    <3>5. IsNewline(f[h])
      BY <3>2, <3>3, <3>4, UnitFollows
    <3> QED
      BY <2>1, <3>1, <3>5 DEF LineStarts
  <2> QED
    BY <2>2, <2>3
<1> DEFINE z == <<n, k>>
<1>5. z \in Lines /\ z[1] = n /\ z[2] = k
  BY <1>1, <1>4, LinesAre
<1>6. Lead(z) = First(s) /\ z[2] + 1 \in DOMAIN Contents(z[1])
  BY <1>5 DEF Lead
<1> HIDE DEF z
<1>7. IsRunID(Lead(z)) /\ RecordOf(Lead(z) + 1) = s
  BY <1>6, FirstUnits
<1>8. Parses(LineAt(z)) /\ LineAt(z)[2] = Lead(z) + 1
  BY <1>5, <1>6, <1>7, LineFacts
<1>9. z \in ValidLines /\ Sequence(z) = s
  BY <1>5, <1>7, <1>8, NothingForeign DEF Sequence
<1> QED
  BY <1>5, <1>9 DEF SequencesIn, ValidIn

(* A file holds every record between two that it holds.                    *)
LEMMA NothingSkipped ==
  ASSUME Settled, NEW n \in Names, NEW a \in SequencesIn(n), NEW b \in SequencesIn(n),
         NEW s \in Nat \ {0}, a <= s, s <= b
  PROVE  s \in SequencesIn(n)
<1> SUFFICES ASSUME s # b PROVE s \in SequencesIn(n)
  OBVIOUS
<1>1. PICK x \in ValidLines, y \in ValidLines :
        x[1] = n /\ y[1] = n /\ Sequence(x) = a /\ Sequence(y) = b
  BY DEF SequencesIn, ValidIn
<1>2. /\ IndInv /\ Contiguous
      /\ x[2] \in DOMAIN Contents(n) /\ y[2] \in DOMAIN Contents(n)
      /\ a \in Nat \ {0} /\ b \in Nat \ {0} /\ Lead(x) = First(a) /\ Lead(y) = First(b)
  BY <1>1, SettledFacts, ValidFacts
<1>3. PICK f, i, j :
        /\ f \in Seq(Unit)
        /\ f = Contents(n) /\ Consecutive(f) /\ i = x[2] /\ j = y[2]
        /\ i \in DOMAIN f /\ j \in DOMAIN f /\ f[i] = First(a) /\ f[j] = First(b)
  BY <1>1, <1>2, ContentsType DEF Contiguous, Lead
<1>4. PICK u \in Unit, v \in Unit, w \in Unit :
        u = First(a) /\ v = First(s) /\ w = First(b) /\ u <= v /\ v < w
  <2>1. First(a) \in Unit /\ First(s) \in Unit /\ First(b) \in Unit
    BY <1>2, FirstUnits
  <2>2. s < b
    BY <1>2
  <2>3. First(s) < First(b)
    BY <1>2, <2>2, FirstOrder
  <2>4. First(a) <= First(s)
    <3>1. a < s \/ a = s
      BY <1>2
    <3>2. a < s => First(a) < First(s)
      BY <1>2, FirstOrder
    <3> QED
      BY <2>1, <3>1, <3>2 DEF Unit
  <2> QED
    BY <2>1, <2>3, <2>4
<1>5. PICK l \in Nat : l = Len(f) /\ DOMAIN f = 1..l /\ i \in 1..l /\ j \in 1..l
  BY <1>3
<1>6. \A p, q \in 1..l : f[q] - f[p] = q - p /\ f[p] \in Nat /\ f[q] \in Nat
  <2>1. \A p \in 1..l : f[p] \in Nat
    BY <1>3, <1>5 DEF Unit
  <2>2. \A p, q \in 1..l : f[q] - f[p] = q - p
    BY <1>3, <1>5, Zenon DEF Consecutive
  <2> QED
    BY <2>1, <2>2
<1>7. PICK k \in 1..l : k = i + (v - u) /\ k + 1 \in 1..l
  <2>1. w - u = j - i /\ u \in Nat /\ v \in Nat /\ w \in Nat
    <3>1. f[j] - f[i] = j - i
      BY <1>5, <1>6
    <3> QED
      BY <1>3, <1>4, <3>1 DEF Unit
  <2>2. i \in Nat /\ j \in Nat /\ l \in Nat /\ 1 <= i /\ j <= l
    BY <1>5
  <2>3. i + (v - u) \in 1..l /\ i + (v - u) + 1 \in 1..l
    <3>1. v - u < j - i /\ v - u \in Nat
      BY <1>4, <2>1
    <3> QED
      BY <2>2, <3>1
  <2> QED
    BY <2>3
<1>8. f[k] = v
  <2>1. f[k] - f[i] = k - i /\ f[k] \in Nat
    BY <1>5, <1>6
  <2>2. u \in Nat /\ v \in Nat /\ f[i] = u
    BY <1>3, <1>4 DEF Unit
  <2> QED
    BY <1>5, <1>7, <2>1, <2>2
<1>9. k \in DOMAIN f /\ k + 1 \in DOMAIN f
  BY <1>5, <1>7
<1> QED
  BY <1>2, <1>3, <1>4, <1>8, <1>9, RecordFound

(* The per-file ranges of a judged run follow the rotations, and a file    *)
(* holds its whole range: the rotations never leave a gap within a file.   *)
THEOREM RangesAreRotations == Spec => []RangesFollowRotations
<1>1. ASSUME Settled, NEW n \in Names, NEW m \in Names,
             FileSet(n).records > 0, FileSet(m).records > 0,
             n # Active, n < m \/ m = Active
      PROVE  FileSet(n).max < FileSet(m).min
  <2>1. PICK x \in ValidLines, y \in ValidLines :
          /\ x[1] = n /\ y[1] = m /\ Sequence(x) = FileSet(n).max
          /\ Sequence(y) = FileSet(m).min
    <3>1. FileSet(n).max \in SequencesIn(n)
      BY <1>1, RangeFacts
    <3>2. FileSet(m).min \in SequencesIn(m)
      BY <1>1, RangeFacts
    <3> QED
      BY <3>1, <3>2 DEF SequencesIn, ValidIn
  <2>2. Earlier(n, m)
    BY <1>1 DEF Earlier, Names
  <2>3. /\ Lead(x) \in Units(n) /\ Lead(y) \in Units(m)
        /\ Lead(x) = First(Sequence(x)) /\ Lead(y) = First(Sequence(y))
        /\ Sequence(x) \in Nat \ {0} /\ Sequence(y) \in Nat \ {0}
    BY <1>1, <2>1, SettledFacts, ValidFacts
  <2>4. Lead(x) < Lead(y)
    BY <1>1, <2>2, <2>3, SettledFacts DEF Below, Units
  <2> QED
    BY <2>1, <2>3, <2>4, FirstOrder
<1>2. ASSUME Settled, NEW n \in Names, FileSet(n).records > 0
      PROVE  FileSet(n).records = FileSet(n).max - FileSet(n).min + 1
  <2>1. PICK a, b : a = FileSet(n).min /\ b = FileSet(n).max
    OBVIOUS
  <2>2. /\ a \in SequencesIn(n) /\ b \in SequencesIn(n) /\ SequencesIn(n) \subseteq Nat \ {0}
        /\ \A s \in SequencesIn(n) : a <= s /\ s <= b
    BY <1>2, <2>1, RangeFacts
  <2>3. \A s \in a..b : s \in SequencesIn(n)
    BY <1>2, <2>2, NothingSkipped
  <2>4. SequencesIn(n) = a..b
    <3>1. \A s \in SequencesIn(n) : s \in a..b
      BY <2>2
    <3> QED
      BY <2>3, <3>1
  <2>5. Cardinality(a..b) = b - a + 1
    BY <2>2, FS_Interval
  <2> QED
    BY <1>2, <2>1, <2>4, <2>5, RangeFacts
<1>3. LogInv /\ Judged => RangesFollowRotations
  <2> SUFFICES ASSUME LogInv, Judged, summary # "none"
               PROVE  RangesFollowRotations
    BY DEF RangesFollowRotations
  <2>1. Settled
    BY JudgedIsSettled DEF Judged
  <2> QED
    BY <1>1, <1>2, <2>1 DEF RangesFollowRotations
<1> QED
  BY <1>3, LogInvariant, JudgedInvariant, PTL
-----------------------------------------------------------------------------
(***************************************************************************)
(* The frame of the files.  The baseline and rename-reopen change the file *)
(* the writer has open only between two flushes, and a flush that has been *)
(* completed ends with a record: every file begins with a record and ends  *)
(* with one.                                                               *)
(***************************************************************************)
Counters ==
  /\ IsNewline(flushed)
  /\ reopenFailures > 0 => werr

Framed ==
  \A n \in Names : Contents(n) # <<>> =>
    /\ IsRunID(Contents(n)[1])
    /\ IsNewline(Last(Contents(n))) \/ Open(n) \/ wpc = "killed"

MidFile == off # 0 /\ fd # None => data[fd] # <<>>

Whole == EndsAt(LogOnDisk, Written)

Records == Counters /\ (Clean /\ ~Copy => MidFile /\ Framed /\ Whole)

(* Whole records end with a newline.                                       *)
LEMMA WholeRecords ==
  ASSUME NEW g \in Nat
  PROVE  IsNewline(g * RecordBytes)
<1>1. PICK d \in Nat \ {0} : d = RecordBytes
  BY HostAssumption
<1>2. 0 \in 0..d - 1 /\ d * g + 0 = g * d
  OBVIOUS
<1>3. (d * g + 0) % d = 0
  BY <1>2, Quotient
<1> QED
  BY <1>1, <1>2, <1>3 DEF IsNewline

(* A completed flush has written everything generated; a reopen that fails *)
(* makes the exit status non-zero.                                         *)
LEMMA CountersFollow ==
  ASSUME TypeOK, [Next]_vars
  PROVE  /\ flushed' = flushed \/ flushed' = generated * RecordBytes
         /\ werr => werr'
         /\ reopenFailures' = reopenFailures \/ werr'
<1>1. ASSUME NEW n, NEW after, WriteUnits(n, after)
      PROVE  /\ flushed' = flushed \/ flushed' = generated * RecordBytes
             /\ werr' = werr /\ reopenFailures' = reopenFailures
  <2>1. flushed + Buffered = generated * RecordBytes
    <3>1. Buffered = generated * RecordBytes - flushed /\ flushed \in Nat
          /\ generated * RecordBytes \in Nat
      BY GeneratedUnits
    <3> QED
      BY <3>1
  <2> QED
    BY <1>1, <2>1 DEF WriteUnits
<1>e. ASSUME Exit
      PROVE  flushed' = flushed /\ (werr => werr') /\ reopenFailures' = reopenFailures
  <2>1. PICK closed, saved : werr' = (werr \/ ~closed \/ ~saved)
    BY <1>e DEF Exit
  <2> QED
    BY <1>e, <2>1 DEF Exit
<1>2. CASE GoNext
  <2>1. CASE \E n \in 1..FileCap : GoWrite(n)
    BY <1>1, <2>1 DEF GoWrite
  <2>2. CASE GoReopenError \/ GoEncodeError \/ GoWriteError
    BY <2>2 DEF GoReopenError, GoEncodeError, GoWriteError
  <2>3. CASE \/ GoStart \/ GoStartFailure \/ GoHandleReopen \/ GoStop \/ GoFlushTick
             \/ GoReopen \/ GoOpen \/ \E n \in 1..Burst : GoTick(n)
    BY <2>3
    DEF GoStart, GoStartFailure, GoHandleReopen, GoStop, GoFlushTick, GoReopen, GoOpen,
        GoTick, Start, StartFailure, HandleReopen
  <2>4. CASE GoExit
    BY <1>e, <2>4 DEF GoExit
  <2> QED
    BY <1>2, <2>1, <2>2, <2>3, <2>4 DEF GoNext
<1>3. CASE CppNext
  <2>1. CASE \E n \in 1..FileCap : CppWrite(n)
    BY <1>1, <2>1 DEF CppWrite
  <2>2. CASE CppReopenError \/ CppWriteError
    BY <2>2 DEF CppReopenError, CppWriteError
  <2>3. CASE \/ CppStart \/ CppStartFailure \/ CppHandleReopen \/ CppBegin \/ CppOpen
             \/ CppStop
             \/ \E n \in 0..Burst, elapsed \in BOOLEAN : CppTick(n, elapsed)
    BY <2>3
    DEF CppStart, CppStartFailure, CppHandleReopen, CppBegin, CppOpen, CppStop, CppTick,
        Start, StartFailure, HandleReopen
  <2>4. CASE CppExit
    BY <1>e, <2>4 DEF CppExit
  <2> QED
    BY <1>3, <2>1, <2>2, <2>3, <2>4 DEF CppNext
<1>4. CASE RotatorNext /\ UNCHANGED <<writerVars, harnessVars>>
  BY <1>4 DEF writerVars
<1>5. CASE HarnessNext
  BY <1>5
  DEF HarnessNext, StartWriter, Healthy, StartupFailed, Aborted, RotatorReaped, Cancel,
      ReopensAwaited, WriterReaped, Collect, writerVars
<1>6. CASE WriterKilled \/ UNCHANGED vars
  BY <1>6 DEF WriterKilled, vars, writerVars
<1> QED
  BY <1>2, <1>3, <1>4, <1>5, <1>6 DEF Next, Returned

LEMMA CountersKept ==
  ASSUME TypeOK, TypeOK', Counters, [Next]_vars
  PROVE  Counters'
<1>1. IsNewline(flushed')
  <2>1. IsNewline(generated * RecordBytes)
    BY WholeRecords DEF TypeOK, WriterTypeOK
  <2> QED
    BY <2>1, CountersFollow DEF Counters
<1> QED
  BY <1>1, CountersFollow DEF Counters, IsNewline

(* A flush that is under way has written to the file that is open.         *)
LEMMA MidFileKept ==
  ASSUME LogInv, MidFlush, ~Copy, MidFile, [Next]_vars
  PROVE  MidFile'
<1>0. /\ IndInv /\ CopyOnly /\ off \in Nat
      /\ fd # None => fd \in Inodes /\ data[fd] \in Seq(Unit)
      /\ data = [data EXCEPT ![fd] = data[fd]]
  BY WrittenType DEF LogInv, Directory, IndInv, TypeOK, HostTypeOK, WriterTypeOK
<1>1. ASSUME data' = data, fd' = fd \/ fd' = None \/ off' = 0, off' = off \/ off' = 0
      PROVE  MidFile'
  BY <1>1 DEF MidFile
<1>2. ASSUME NEW n \in Nat \ {0}, NEW after, WriteUnits(n, after)
      PROVE  MidFile'
  <2>1. /\ fd # None /\ fd' = fd
        /\ data' = [data EXCEPT ![fd] = @ \o [i \in 1..n |-> flushed + off + i]]
    BY <1>2 DEF WriteUnits
  <2>2. data'[fd] = data[fd] \o [i \in 1..n |-> flushed + off + i]
    BY <1>0, <2>1 DEF IndInv, TypeOK, HostTypeOK
  <2>3. \A s \in Seq(Unit), t \in Seq(Int) : Len(t) = n => s \o t # <<>>
    <3> SUFFICES ASSUME NEW s \in Seq(Unit), NEW t \in Seq(Int), Len(t) = n
                 PROVE  s \o t # <<>>
      OBVIOUS
    <3>1. Len(s \o t) = Len(s) + n /\ Len(s) \in Nat
      OBVIOUS
    <3>2. Len(s) + n # 0
      BY <3>1
    <3> QED
      BY <3>1, <3>2
  <2>4. /\ [i \in 1..n |-> flushed + off + i] \in Seq(Int)
        /\ Len([i \in 1..n |-> flushed + off + i]) = n
    <3>1. \A i \in 1..n : flushed + off + i \in Int
      BY <1>0, WrittenType
    <3> QED
      BY <3>1
  <2>5. data[fd] \o [i \in 1..n |-> flushed + off + i] # <<>>
    BY <1>0, <2>1, <2>3, <2>4, Zenon
  <2> QED
    BY <2>1, <2>2, <2>5, Zenon DEF MidFile
<1>3. CASE GoNext
  <2>1. CASE \E n \in 1..FileCap : GoWrite(n)
    BY <1>2, <2>1 DEF GoWrite
  <2>2. CASE GoOpen \/ GoStart
    <3>1. data' = data /\ off' = off /\ wpc \in {"open", "start"}
      BY <2>2 DEF GoOpen, GoStart, Start
    <3> QED
      BY <1>1, <3>1 DEF MidFlush
  <2>3. CASE \/ GoStartFailure \/ GoHandleReopen \/ GoStop \/ GoFlushTick
             \/ GoReopen \/ GoExit \/ GoReopenError \/ GoEncodeError \/ GoWriteError
             \/ \E n \in 1..Burst : GoTick(n)
    <3>1. data' = data /\ (fd' = fd \/ fd' = None) /\ (off' = off \/ off' = 0)
      BY <2>3
      DEF GoStartFailure, GoHandleReopen, GoStop, GoFlushTick, GoReopen, GoExit, GoTick,
          GoReopenError, GoEncodeError, GoWriteError, StartFailure, HandleReopen, Exit,
          TakeReopen, hostVars
    <3> QED
      BY <1>1, <3>1
  <2> QED
    BY <1>3, <2>1, <2>2, <2>3 DEF GoNext
<1>4. CASE CppNext
  <2>1. CASE \E n \in 1..FileCap : CppWrite(n)
    BY <1>2, <2>1 DEF CppWrite
  <2>2. CASE CppOpen \/ CppStart
    <3>1. data' = data /\ off' = off /\ wpc \in {"open", "start"}
      BY <2>2 DEF CppOpen, CppStart, Start
    <3> QED
      BY <1>1, <3>1 DEF MidFlush
  <2>3. CASE \/ CppStartFailure \/ CppHandleReopen \/ CppBegin \/ CppStop
             \/ CppExit \/ CppReopenError \/ CppWriteError
             \/ \E n \in 0..Burst, elapsed \in BOOLEAN : CppTick(n, elapsed)
    <3>1. data' = data /\ (fd' = fd \/ fd' = None) /\ off' = off
      BY <2>3
      DEF CppStartFailure, CppHandleReopen, CppBegin, CppStop, CppExit, CppTick,
          CppReopenError, CppWriteError, StartFailure, HandleReopen, Exit, TakeReopen,
          hostVars
    <3> QED
      BY <1>1, <3>1
  <2> QED
    BY <1>4, <2>1, <2>2, <2>3 DEF CppNext
<1>5. CASE RotatorNext /\ UNCHANGED <<writerVars, harnessVars>>
  <2>1. rpc \notin {"copyStart", "copy", "truncate"}
    BY <1>0 DEF CopyOnly
  <2>2. data' = data
    BY <1>5, <2>1
    DEF RotatorNext, PollAgain, BaselineComplete, PollFull, RotateOnce, CopyStart,
        CopyChunk, CopySync, Truncate, RenameActive, CreateReplacement, RequestReopen,
        ReopenQueued, EnforceRetention, RotationDone, RotationFailed, PollFailed, Fails,
        Rotating, hostVars
  <2> QED
    BY <1>1, <1>5, <2>2 DEF writerVars
<1>6. CASE HarnessNext \/ WriterKilled \/ UNCHANGED vars
  BY <1>0, <1>1, <1>6, HarnessDirectory
<1> QED
  BY <1>3, <1>4, <1>5, <1>6 DEF Next, Returned
(* A file ends with a record when its writer turns away from it.           *)
Kept(n) ==
  /\ IsNewline(Last(Contents(n))) \/ Open(n) \/ wpc = "killed"
  /\ IsRunID(Contents(n)[1])

LEMMA StaysFramed ==
  ASSUME LogInv, Flow, Counters, [Next]_vars, wpc = "killed" => wpc' = "killed",
         NEW n \in Names, Contents(n) # <<>>, Kept(n), Contents(n)' = Contents(n),
         Open(n) => Open(n)' \/ off = 0 \/ wpc' = "killed" \/ Contents(n)' = <<>>
  PROVE  Kept(n)'
<1>1. CASE Open(n) /\ off = 0
  <2>1. Last(Contents(n)) = flushed
    BY <1>1, WrittenType DEF LogInv, Flow, Order, Tip, Written
  <2> QED
    BY <2>1 DEF Kept, Counters
<1>2. CASE ~(Open(n) /\ off = 0)
  BY <1>2 DEF Kept
<1> QED
  BY <1>1, <1>2

LEMMA FramedKept ==
  ASSUME LogInv, LogInv', Clean', Counters, ~Copy, MidFile, Framed, [Next]_vars
  PROVE  Framed'
<1>0. /\ Clean /\ Flow /\ LogEffect /\ (wpc = "killed" => wpc' = "killed")
      /\ IndInv /\ Contiguous /\ Tip /\ Active \in Names
  BY CleanBefore, LabMoves, ActiveIsName DEF LogInv, Flow, Order
<1>f. \A n \in Names : Contents(n) # <<>> => Kept(n)
  BY DEF Framed, Kept
<1>s. ASSUME \A n \in Names : Contents(n)' # <<>> => Kept(n)'
      PROVE  Framed'
  BY <1>s DEF Framed, Kept
<1>k. ASSUME NEW S, Stay(S), OpenKept(S), NEW n \in Names \ S, Contents(n)' # <<>>
      PROVE  Kept(n)'
  <2>1. Contents(n)' = Contents(n)
    BY <1>k DEF Stay
  <2>2. Open(n) => Open(n)' \/ off = 0 \/ wpc' = "killed" \/ Contents(n)' = <<>>
    BY <1>k DEF OpenKept
  <2>3. Contents(n) # <<>> /\ Kept(n)
    BY <1>f, <1>k, <2>1
  <2> QED
    BY <1>0, <2>1, <2>2, <2>3, StaysFramed
<1>1. CASE LogKept
  <2>1. Stay({}) /\ OpenKept({})
    BY <1>1 DEF LogKept
  <2>2. \A n \in Names \ {} : Contents(n)' # <<>> => Kept(n)'
    BY <1>k, <2>1
  <2> QED
    BY <1>s, <2>2
<1>2. CASE LogWritten
  <2>1. PICK w \in Names, k \in Nat \ {0} :
          /\ Open(w) /\ Open(w)' /\ Contents(w)' = Contents(w) \o NextUnits(k)
          /\ Stay({w}) /\ OpenKept({})
    BY <1>2 DEF LogWritten
  <2>2. OpenKept({w})
    BY <2>1 DEF OpenKept
  <2>3. \A n \in Names \ {w} : Contents(n)' # <<>> => Kept(n)'
    BY <1>k, <2>1, <2>2
  <2>4. PICK s \in Seq(Unit), W \in Nat, l \in Nat \ {0} :
          s = Contents(w) /\ W = Written /\ l = k
    BY <1>0, <2>1, ContentsType, WrittenType
  <2>5. EndsAt(s, W)
    BY <1>0, <2>1, <2>4 DEF Contiguous, Tip, EndsAt
  <2>6. Extended(s \o UnitsFrom(W, l), s, W, l)
    BY <2>5, ExtendedConsecutive
  <2>7. Contents(w)'[1] = IF Contents(w) = <<>> THEN Written + 1 ELSE Contents(w)[1]
    BY <2>1, <2>4, <2>6, Zenon DEF Extended, NextUnits
  <2>8. IsRunID(Contents(w)'[1])
    <3>1. CASE Contents(w) = <<>>
      <4>1. off = 0 /\ flushed \in Nat
        BY <1>0, <2>1, <3>1, WrittenType DEF MidFile, Open, Exists, Contents
      <4>2. Written = flushed
        BY <4>1 DEF Written
      <4>3. IsRunID(flushed + 1)
        BY <4>1, UnitFollows DEF Counters
      <4> QED
        BY <2>7, <3>1, <4>2, <4>3
    <3>2. CASE Contents(w) # <<>>
      BY <1>f, <2>7, <3>2 DEF Kept
    <3> QED
      BY <3>1, <3>2
  <2>9. Kept(w)'
    BY <2>1, <2>8 DEF Kept
  <2> QED
    BY <1>s, <2>3, <2>9
<1>3. CASE LogMoved
  <2>1. PICK o \in Names \ {Active} :
          /\ o = ordinal /\ ordinal' = o /\ Contents(o)' = Contents(Active)
          /\ Contents(Active)' = <<>> /\ (Open(o)' <=> Open(Active))
          /\ Stay({Active, o}) /\ OpenKept({Active, o})
    <3>1. PICK o : o = ordinal
      OBVIOUS
    <3>2. ordinal' = o /\ o \in Names \ {Active} /\ Stay({Active, o}) /\ OpenKept({Active, o})
      BY <1>3, <3>1 DEF LogMoved, Stay, OpenKept
    <3>3. Contents(ordinal)' = Contents(o)' /\ (Open(ordinal)' <=> Open(o)')
      BY <3>1, <3>2 DEF Contents, Open, Exists
    <3> QED
      BY <1>3, <3>1, <3>2, <3>3 DEF LogMoved
  <2>2. \A n \in Names \ {Active, o} : Contents(n)' # <<>> => Kept(n)'
    BY <1>k, <2>1
  <2>3. Contents(o)' # <<>> => Kept(o)'
    BY <1>0, <1>f, <2>1 DEF Kept
  <2> QED
    BY <1>s, <2>1, <2>2, <2>3
<1>4. CASE LogExpired
  <2>1. OpenKept({}) /\ \A n \in Names : Contents(n)' = <<>> \/ Contents(n)' = Contents(n)
    BY <1>4 DEF LogExpired
  <2>2. ASSUME NEW n \in Names, Contents(n)' # <<>> PROVE Kept(n)'
    <3>1. Contents(n)' = Contents(n) /\ Contents(n) # <<>> /\ Kept(n)
      BY <1>f, <2>1, <2>2
    <3>2. Open(n) => Open(n)' \/ off = 0 \/ wpc' = "killed" \/ Contents(n)' = <<>>
      BY <2>1 DEF OpenKept
    <3> QED
      BY <1>0, <3>1, <3>2, StaysFramed
  <2> QED
    BY <1>s, <2>2
<1>5. ~LogCopied /\ ~LogDropped
  BY DEF LogInv, Directory, CopyOnly, LogCopied, LogDropped
<1> QED
  BY <1>0, <1>1, <1>2, <1>3, <1>4, <1>5 DEF LogEffect

(* What a stretch ends with is a stretch that ends where it does.          *)
LEMMA SuffixEndsAt ==
  ASSUME NEW s \in Seq(Unit), NEW a \in Seq(Unit), NEW b \in Seq(Unit), Parts(s, a, b),
         NEW W, EndsAt(s, W)
  PROVE  EndsAt(b, W)
<1>1. PICK k \in Nat, l \in Nat : k = Len(a) /\ l = Len(b)
  OBVIOUS
<1>2. /\ DOMAIN s = 1..k + l /\ DOMAIN b = 1..l /\ Len(s) = k + l
      /\ \A i \in 1..l : k + i \in 1..k + l /\ s[k + i] = b[i]
  <2>1. /\ DOMAIN s = 1..k + l /\ DOMAIN b = 1..l /\ Len(s) = k + l
        /\ \A i \in 1..k + l : s[i] = IF i <= k THEN a[i] ELSE b[i - k]
    BY <1>1 DEF Parts
  <2>2. ASSUME NEW i \in 1..l PROVE k + i \in 1..k + l /\ s[k + i] = b[i]
    <3>1. k + i \in 1..k + l /\ ~(k + i <= k) /\ (k + i) - k = i
      BY <1>1
    <3> QED
      BY <2>1, <3>1
  <2> QED
    BY <2>1, <2>2
<1>3. Consecutive(b)
  <2>1. SUFFICES ASSUME NEW i \in 1..l, NEW j \in 1..l PROVE b[j] - b[i] = j - i
    BY <1>2, Zenon DEF Consecutive
  <2>2. s[k + j] - s[k + i] = (k + j) - (k + i)
    BY <1>2, Zenon DEF EndsAt, Consecutive
  <2>3. (k + j) - (k + i) = j - i
    BY <1>1
  <2> QED
    BY <1>2, <2>2, <2>3
<1>4. ASSUME b # <<>> PROVE Last(b) = W
  <2>1. l \in 1..l /\ s # <<>>
    BY <1>1, <1>2, <1>4
  <2>2. s[k + l] = b[l]
    BY <1>2, <2>1
  <2> QED
    BY <1>1, <1>2, <2>1, <2>2 DEF EndsAt, Last
<1> QED
  BY <1>3, <1>4 DEF EndsAt

(* The whole log is a stretch that ends where the writer is.               *)
LEMMA WholeKept ==
  ASSUME LogInv, LogInv', Clean', ~Copy, Whole, [Next]_vars
  PROVE  Whole'
<1>1. PICK s, t, W :
        s = LogOnDisk /\ t = LogOnDisk' /\ W = Written /\ EndsAt(s, W)
        /\ s \in Seq(Unit) /\ t \in Seq(Unit) /\ W \in Nat
  BY Slots, PiecesAre, FlattenType, WrittenType DEF LogInv, PieceKinds, Whole
<1>2. CASE Grown
  <2>1. PICK k \in Nat \ {0} : Written' = W + k /\ t = s \o UnitsFrom(W, k)
    BY <1>1, <1>2 DEF Grown, NextUnits
  <2>2. Extended(s \o UnitsFrom(W, k), s, W, k)
    BY <1>1, <2>1, ExtendedConsecutive
  <2>3. EndsAt(t, W + k)
    BY <2>1, <2>2, Zenon DEF Extended, EndsAt
  <2> QED
    BY <1>1, <2>1, <2>3, Zenon DEF Whole
<1>3. CASE Shrunk
  <2>1. EndsWith(s, t, Unit) /\ Written' = W
    BY <1>1, <1>3 DEF Shrunk
  <2>2. PICK a \in Seq(Unit) : Parts(s, a, t)
    BY <2>1 DEF EndsWith
  <2>3. EndsAt(t, W)
    BY <1>1, <2>2, SuffixEndsAt
  <2> QED
    BY <1>1, <2>1, <2>3 DEF Whole
<1>4. CASE Written' = Written /\ LogOnDisk' = LogOnDisk
  BY <1>1, <1>4 DEF Whole
<1> QED
  BY <1>2, <1>3, <1>4, WholeFollows

LEMMA RecordsInvariant == Spec => []Records
<1>1. LabInit => Records
  <2> SUFFICES ASSUME LabInit PROVE Records
    OBVIOUS
  <2>1. /\ flushed = 0 /\ off = 0 /\ reopenFailures = 0
        /\ \A n \in Names : Contents(n) = <<>>
    BY DEF LabInit, HostInit, WriterInit, Contents, Exists
  <2>2. IsNewline(0 * RecordBytes) /\ 0 * RecordBytes = 0
    BY WholeRecords, HostAssumption
  <2>3. Whole
    BY EmptyAtFirst DEF Whole, EndsAt, Consecutive
  <2> QED
    BY <2>1, <2>2, <2>3 DEF Records, Counters, MidFile, Framed
<1>2. LogInv /\ LogInv' /\ Records /\ [Next]_vars => Records'
  <2> SUFFICES ASSUME LogInv, LogInv', Records, [Next]_vars PROVE Records'
    OBVIOUS
  <2>1. Counters'
    BY CountersKept DEF LogInv, IndInv, Records
  <2>2. ASSUME Clean', ~Copy PROVE MidFile' /\ Framed' /\ Whole'
    <3>1. Clean /\ MidFlush /\ MidFile /\ Framed /\ Whole /\ Counters
      BY <2>2, CleanBefore DEF LogInv, Flow, Records
    <3> QED
      BY <2>2, <3>1, MidFileKept, FramedKept, WholeKept
  <2>3. Copy' = Copy
    BY ConfigKept DEF LogInv, Copy
  <2> QED
    BY <2>1, <2>2, <2>3 DEF Records
<1> QED
  BY <1>1, <1>2, LogInvariant, PTL DEF Spec

-----------------------------------------------------------------------------
(***************************************************************************)
(* The verdict.                                                            *)
(***************************************************************************)

(* The log is made of the units of the files.                              *)
LEMMA LogIs ==
  ASSUME IndInv
  PROVE  /\ LogOnDisk \in Seq(Unit)
         /\ \A u : u \in Range(LogOnDisk) <=> \E n \in Names : u \in Units(n)
<1>1. /\ Pieces \in PieceKinds /\ LogOnDisk = FlattenSeq(Pieces)
      /\ \A k \in 1..Rotations + 1 : Pieces[k] = Contents(Slot(k))
  BY PiecesNow
<1>2. PICK N, s :
        /\ N \in Nat \ {0} /\ s \in [1..N -> Seq(Unit)]
        /\ N = Rotations + 1 /\ s = Pieces /\ LogOnDisk = FlattenSeq(s)
  BY <1>1, Slots DEF PieceKinds
<1>3. FlattenSeq(s) \in Seq(Unit)
  BY <1>2, FlattenType
<1>4. Range(FlattenSeq(s)) = UNION {Range(s[k]) : k \in 1..N}
  BY <1>2, FlattenElements
<1>5. ASSUME NEW k \in 1..N PROVE Slot(k) \in Names /\ Range(s[k]) = Units(Slot(k))
  BY <1>1, <1>2, Slots DEF Units
<1>6. ASSUME NEW n \in Names PROVE \E k \in 1..N : Range(s[k]) = Units(n)
  BY <1>2, <1>5, Slots
<1> QED
  BY <1>2, <1>3, <1>4, <1>5, <1>6

(* The records generated begin within what was generated.                  *)
LEMMA FirstWithin ==
  ASSUME NEW g \in Nat, NEW s \in 1..g
  PROVE  First(s) \in 1..g * RecordBytes
<1>1. PICK d \in Nat \ {0}, q \in Nat, e \in Nat :
        d = RecordBytes /\ q = s - 1 /\ e = g - s
  BY HostAssumption
<1>2. g = q + 1 + e
  BY <1>1
<1>3. d * g = d * q + d + d * e
  BY <1>2
<1>4. d * q \in Nat /\ d * e \in Nat
  OBVIOUS
<1>5. d * q + 1 \in 1..d * g
  BY <1>3, <1>4
<1>6. d * g = g * d
  BY <1>1
<1> QED
  BY <1>1, <1>5, <1>6 DEF First

(* A stretch that has the first unit and ends with the last is the whole.  *)
LEMMA Stretch ==
  ASSUME NEW s \in Seq(Unit), NEW W \in Nat, EndsAt(s, W)
  PROVE  /\ W = 0 => s = <<>>
         /\ 1 \in Range(s) => s = [i \in 1..W |-> i]
<1>1. PICK l \in Nat : l = Len(s) /\ DOMAIN s = 1..l
  OBVIOUS
<1>2. /\ \A i \in 1..l : s[i] \in Nat \ {0}
      /\ \A i, j \in 1..l : s[j] - s[i] = j - i
      /\ l # 0 => s[l] = W
  <2>1. \A i \in 1..l : s[i] \in Nat \ {0}
    BY <1>1 DEF Unit
  <2>2. \A i, j \in 1..l : s[j] - s[i] = j - i
    BY <1>1, Zenon DEF EndsAt, Consecutive
  <2>3. l # 0 => s[l] = W
    BY <1>1 DEF EndsAt, Last
  <2> QED
    BY <2>1, <2>2, <2>3
<1>3. ASSUME W = 0 PROVE s = <<>>
  <2>1. l = 0
    <3>1. l # 0 => l \in 1..l
      BY <1>1
    <3> QED
      BY <1>2, <1>3, <3>1
  <2> QED
    BY <1>1, <2>1
<1>4. ASSUME 1 \in Range(s) PROVE s = [i \in 1..W |-> i]
  <2>1. PICK k \in 1..l : s[k] = 1
    BY <1>1, <1>4 DEF Range
  <2>2. k = 1
    <3>1. 1 \in 1..l /\ s[1] \in Nat \ {0} /\ s[k] - s[1] = k - 1
      BY <1>1, <1>2, <2>1
    <3> QED
      BY <2>1, <3>1
  <2>3. \A i \in 1..l : s[i] = i
    <3> SUFFICES ASSUME NEW i \in 1..l PROVE s[i] = i
      OBVIOUS
    <3>1. s[i] - s[k] = i - k /\ s[i] \in Nat
      BY <1>2
    <3> QED
      BY <2>1, <2>2, <3>1
  <2>4. W = l
    <3>1. l \in 1..l /\ l # 0
      BY <1>1, <2>1
    <3> QED
      BY <1>2, <2>3, <3>1
  <2>5. s = [i \in 1..l |-> s[i]]
    BY <1>1
  <2>6. s = [i \in 1..l |-> i]
    BY <2>3, <2>5
  <2> QED
    BY <2>4, <2>6
<1> QED
  BY <1>3, <1>4

(* Every file begins and ends with a record.                               *)
Complete ==
  \A n \in Names : Contents(n) # <<>> =>
    IsRunID(Contents(n)[1]) /\ IsNewline(Last(Contents(n)))

(* The unit before the end of a line is not the last of its file.          *)
LEMMA GoesOn ==
  ASSUME IndInv, Complete, NEW n \in Names, NEW k \in DOMAIN Contents(n),
         IsRunID(Contents(n)[k])
  PROVE  k + 1 \in DOMAIN Contents(n)
<1>1. PICK f, l : f = Contents(n) /\ f \in Seq(Unit) /\ l = Len(f) /\ l \in Nat
                  /\ DOMAIN f = 1..l
  BY ContentsType
<1>2. k \in 1..l /\ f[k] \in Nat /\ f # <<>>
  BY <1>1 DEF Unit
<1>3. IsNewline(f[l])
  BY <1>1, <1>2 DEF Complete, Last
<1>4. ~IsNewline(f[k])
  BY <1>1, <1>2, UnitFollows
<1>5. k # l
  BY <1>3, <1>4
<1>6. k + 1 \in 1..l
  BY <1>1, <1>2, <1>5
<1> QED
  BY <1>1, <1>6

(* Then every line parses.                                                 *)
LEMMA NothingMalformed ==
  ASSUME IndInv, Contiguous, Complete
  PROVE  Malformed = 0
<1>1. ASSUME NEW x \in Lines PROVE Parses(LineAt(x))
  <2>1. /\ x[1] \in Names /\ x[2] \in DOMAIN Contents(x[1])
        /\ Parses(LineAt(x)) <=> IsRunID(Lead(x)) /\ x[2] + 1 \in DOMAIN Contents(x[1])
    BY LineFacts
  <2>2. x[2] \in LineStarts(Contents(x[1]))
    BY LinesAre
  <2>3. PICK n, k, f, l :
          /\ n = x[1] /\ k = x[2] /\ f = Contents(n) /\ l = Len(f)
          /\ n \in Names /\ f \in Seq(Unit) /\ Consecutive(f) /\ l \in Nat
          /\ DOMAIN f = 1..l /\ k \in 1..l
    BY <2>1, ContentsType DEF Contiguous
  <2>4. IsRunID(f[k])
    <3>1. k = 1 \/ IsNewline(f[k - 1])
      BY <2>2, <2>3 DEF LineStarts
    <3>2. CASE k = 1
      <4>1. f # <<>>
        BY <2>3
      <4> QED
        BY <2>3, <3>2, <4>1 DEF Complete
    <3>3. CASE k # 1
      <4>1. k - 1 \in 1..l
        BY <2>3, <3>3
      <4>2. f[k] - f[k - 1] = k - (k - 1)
        BY <2>3, <4>1, Zenon DEF Consecutive
      <4>3. f[k - 1] \in Nat /\ f[k] \in Nat
        BY <2>3, <4>1 DEF Unit
      <4>4. f[k] = f[k - 1] + 1
        <5>1. k \in Int
          BY <2>3
        <5>2. k - (k - 1) = 1
          BY <5>1
        <5> QED
          BY <4>2, <4>3, <5>2
      <4>5. IsNewline(f[k - 1])
        BY <3>1, <3>3
      <4> QED
        BY <4>3, <4>4, <4>5, UnitFollows
    <3> QED
      BY <3>2, <3>3
  <2>5. k + 1 \in DOMAIN Contents(n)
    BY <2>3, <2>4, GoesOn
  <2> QED
    BY <2>1, <2>3, <2>4, <2>5 DEF Lead
<1>2. {x \in Lines : ~Parses(LineAt(x))} = {}
  BY <1>1
<1> QED
  BY <1>2, FS_EmptySet DEF Malformed

(* And a record is seen if its first unit is on disk.                      *)
LEMMA SeenIs ==
  ASSUME IndInv, Contiguous, Complete, NEW s \in Nat \ {0}
  PROVE  s \in Seen <=> First(s) \in Range(LogOnDisk)
<1>1. ASSUME s \in Seen PROVE First(s) \in Range(LogOnDisk)
  <2>1. PICK x \in ValidLines : s = Sequence(x)
    BY <1>1 DEF Seen, Sequence
  <2>2. x[1] \in Names /\ First(s) \in Units(x[1])
    BY <2>1, ValidFacts
  <2> QED
    BY <2>2, LogIs
<1>2. ASSUME First(s) \in Range(LogOnDisk) PROVE s \in Seen
  <2>1. PICK n \in Names : First(s) \in Units(n)
    BY <1>2, LogIs
  <2>2. PICK k \in DOMAIN Contents(n) : Contents(n)[k] = First(s)
    BY <2>1 DEF Units, Range
  <2>3. k + 1 \in DOMAIN Contents(n)
    BY <2>2, FirstUnits, GoesOn
  <2>4. s \in SequencesIn(n)
    BY <2>2, <2>3, RecordFound
  <2> QED
    BY <2>4 DEF SequencesIn, ValidIn, Seen, Sequence
<1> QED
  BY <1>1, <1>2

(* The verdict of a run that has ended well and must not lose anything:    *)
(* the writer has written everything, so the files end with a record.      *)
Exact == Success <=> LogOnDisk = [i \in 1..generated * RecordBytes |-> i]

LEMMA VerdictFollows ==
  ASSUME Settled, Records, EndInv, ~Copy, wpc = "exited", ~werr
  PROVE  Exact
<1> DEFINE W == generated * RecordBytes
<1>1. /\ IndInv /\ Contiguous /\ MidFlush /\ Tip /\ TypeOK /\ flushed = W
      /\ IsNewline(flushed) /\ (reopenFailures > 0 => werr)
      /\ Framed /\ EndsAt(LogOnDisk, Written)
  BY DEF Settled, LogInv, Flow, Order, IndInv, Records, Counters, Whole, Clean, EndInv,
         BufferDrained
<1>2. generated \in Nat /\ W \in Nat /\ reopenFailures \in Nat
  <2>1. generated \in Nat /\ reopenFailures \in Nat /\ RecordBytes \in Nat
    BY <1>1, HostAssumption DEF TypeOK, WriterTypeOK
  <2> QED
    BY <2>1
<1> HIDE DEF W
<1>3. off = 0 /\ Written = W
  <2>1. off = 0
    BY <1>1 DEF MidFlush
  <2> QED
    BY <1>1, <1>2, <2>1 DEF Written
<1>4. Complete
  <2> SUFFICES ASSUME NEW n \in Names, Contents(n) # <<>>
               PROVE  IsRunID(Contents(n)[1]) /\ IsNewline(Last(Contents(n)))
    BY DEF Complete
  <2>1. Open(n) => Last(Contents(n)) = flushed
    BY <1>1, <1>3 DEF Tip
  <2> QED
    BY <1>1, <2>1 DEF Framed
<1>5. reopenFailures = 0 /\ Malformed = 0 /\ Duplicates = 0
  BY <1>1, <1>2, <1>4, NothingMalformed, NothingTwice
<1>6. Success <=> \A s \in 1..generated : s \in Seen
  <2> DEFINE M == 1..generated \ Seen
  <2>1. IsFiniteSet(M)
    <3>1. IsFiniteSet(1..generated)
      BY <1>2, FS_Interval
    <3> QED
      BY <3>1, FS_Subset
  <2>2. Cardinality(M) = 0 <=> M = {}
    BY <2>1, FS_EmptySet
  <2>3. M = {} <=> \A s \in 1..generated : s \in Seen
    OBVIOUS
  <2>4. Missing(generated) = Cardinality(M)
    BY DEF Missing
  <2> HIDE DEF M
  <2> QED
    BY <1>5, <2>2, <2>3, <2>4 DEF Success
<1>7. \A s \in 1..generated : s \in Seen <=> First(s) \in Range(LogOnDisk)
  BY <1>1, <1>2, <1>4, SeenIs
<1>8. PICK log \in Seq(Unit) : log = LogOnDisk /\ EndsAt(log, W)
  BY <1>1, <1>3, LogIs
<1>9. ASSUME log = [i \in 1..W |-> i] PROVE \A s \in 1..generated : s \in Seen
  <2> SUFFICES ASSUME NEW s \in 1..generated PROVE s \in Seen
    OBVIOUS
  <2>1. First(s) \in 1..W
    BY <1>2, FirstWithin DEF W
  <2>2. First(s) \in Range(log)
    BY <1>9, <2>1 DEF Range
  <2> QED
    BY <1>7, <1>8, <2>2
<1>10. ASSUME \A s \in 1..generated : s \in Seen PROVE log = [i \in 1..W |-> i]
  <2>1. CASE generated = 0
    <3>1. W = 0
      BY <2>1, HostAssumption DEF W
    <3>2. log = <<>>
      BY <1>2, <1>8, <3>1, Stretch
    <3> QED
      BY <3>1, <3>2
  <2>2. CASE generated # 0
    <3>1. 1 \in 1..generated
      BY <1>2, <2>2
    <3>2. First(1) = 1
      BY HostAssumption DEF First
    <3>3. 1 \in Range(log)
      BY <1>7, <1>8, <1>10, <3>1, <3>2
    <3> QED
      BY <1>2, <1>8, <3>3, Stretch
  <2> QED
    BY <2>1, <2>2
<1> QED
  BY <1>6, <1>8, <1>9, <1>10 DEF Exact, W

(* Nothing changes the files after the verdict.                            *)
LEMMA DoneIsStill ==
  ASSUME Judged, hpc = "done", [Next]_vars
  PROVE  UNCHANGED <<config, dir, data, generated, summary>>
<1>1. rpc = "done" /\ wpc = "exited"
  BY DEF Judged
<1>2. CASE (GoNext \/ CppNext \/ WriterKilled) /\ UNCHANGED harnessVars
  BY <1>1, <1>2, ExitedIsStill DEF harnessVars
<1>3. ~RotatorNext
  BY <1>1, RotatorRuns DEF RotatorExited
<1>4. ~HarnessNext
  BY DEF HarnessNext, StartWriter, Healthy, StartupFailed, Aborted, RotatorReaped, Cancel,
         ReopensAwaited, WriterReaped, Collect
<1>5. CASE UNCHANGED vars
  BY <1>5 DEF vars, hostVars, writerVars, harnessVars
<1> QED
  BY <1>2, <1>3, <1>4, <1>5 DEF Next, Returned, WriterKilled

LEMMA StillExact ==
  ASSUME UNCHANGED <<config, dir, data, generated, summary>>, VerdictIsExact
  PROVE  VerdictIsExact'
BY DEF VerdictIsExact, LogOnDisk, Contents, Exists, Copy

LEMMA VerdictKept ==
  ASSUME LogInv, Judged, Records, EndInv, VerdictIsExact, [Next]_vars
  PROVE  VerdictIsExact'
<1>1. CASE hpc = "done"
  BY <1>1, DoneIsStill, StillExact
<1>2. CASE hpc # "done" /\ ~Collect
  <2>1. summary = "none"
    BY <1>2 DEF Judged
  <2>2. summary' = summary
    <3>1. CASE HarnessNext
      BY <1>2, <3>1
      DEF HarnessNext, StartWriter, Healthy, StartupFailed, Aborted, RotatorReaped, Cancel,
          ReopensAwaited, WriterReaped
    <3>2. CASE \/ GoNext /\ UNCHANGED <<rotatorVars, harnessVars>>
               \/ CppNext /\ UNCHANGED <<rotatorVars, harnessVars>>
               \/ RotatorNext /\ UNCHANGED <<writerVars, harnessVars>>
               \/ WriterKilled \/ UNCHANGED vars
      BY <3>2 DEF WriterKilled, harnessVars, vars
    <3> QED
      BY <3>1, <3>2 DEF Next, Returned
  <2> QED
    BY <2>1, <2>2 DEF VerdictIsExact
<1>3. CASE Collect
  <2>1. hpc = "collect" /\ UNCHANGED <<config, dir, data, generated>>
    BY <1>3 DEF Collect, hostVars, writerVars
  <2>2. Settled /\ wpc = "exited" /\ ~werr /\ summary = "none"
    BY <2>1, JudgedIsSettled DEF Judged
  <2>3. summary' # "none" => (summary' = "pass" <=> Success)
    BY <1>3, <2>2 DEF Collect
  <2>4. ~Copy => Exact
    BY <2>2, VerdictFollows
  <2>5. Copy' = Copy /\ LogOnDisk' = LogOnDisk /\ generated' = generated
    BY <2>1 DEF Copy, LogOnDisk, Contents, Exists
  <2> QED
    BY <2>3, <2>4, <2>5 DEF VerdictIsExact, Exact
<1> QED
  BY <1>1, <1>2, <1>3

(* The verdict of a run that must not lose anything is exact: it passes if *)
(* and only if the files hold every unit of every generated record once    *)
(* and in order.  The analyzer looks at the first two fields of a line and *)
(* never at the payload: a run that is judged has files that begin and end *)
(* with a record, and nothing is missing inside of one.                    *)
THEOREM VerdictAlwaysExact == Spec => []VerdictIsExact
<1>1. LabInit => VerdictIsExact
  BY DEF LabInit, VerdictIsExact
<1>2. LogInv /\ Judged /\ Records /\ EndInv /\ VerdictIsExact /\ [Next]_vars
        => VerdictIsExact'
  BY VerdictKept
<1> QED
  BY <1>1, <1>2, LogInvariant, JudgedInvariant, RecordsInvariant, EndInductive, PTL DEF Spec
=============================================================================
