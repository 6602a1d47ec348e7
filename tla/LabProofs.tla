----------------------------- MODULE LabProofs ------------------------------
(***************************************************************************)
(* Theorems about one run of the lab, for every number of rotations, every *)
(* file, record and buffer size, every set of faults, both writers and all *)
(* three strategies.                                                       *)
(***************************************************************************)
EXTENDS Lab, FiniteSetTheorems, TLAPS

(***************************************************************************)
(* The inductive invariant.  Its heart is Pending: as long as a reopen is  *)
(* under way (requested, queued or being carried out) the active log is    *)
(* the empty replacement, which the writer does not have open.  So the     *)
(* rotator's size test cannot succeed, and the next rotation waits for a   *)
(* reopen that nothing in the rotator waits for.                           *)
(***************************************************************************)
UnderWay == reopen \/ http = "sent" \/ wpc = "open"

EmptyReplacement ==
  Exists(Active) /\ data[dir[Active]] = <<>> /\ fd # dir[Active]

Startup ==
  /\ wpc \in {"off", "start"}
       => hpc \in {"start", "health", "abort"} /\ rpc = "off" /\ fd = None
  /\ served => wpc \notin {"off", "start"}
  /\ hpc = "start" => wpc = "off"
  /\ hpc \in {"start", "health"} => rpc = "off"

Ordinals ==
  /\ rpc = "off" => ordinal = 1
  /\ ordinal > Rotations => rpc \in {"done", "killed"}
  /\ \A n \in Names : n > ordinal => dir[n] = None
  /\ rpc \in {"off", "poll", "rotate", "copyStart", "rename"} /\ ordinal \in Names
       => dir[ordinal] = None

Fresh == \A i \in Inodes \ inodes : data[i] = <<>>

Pending ==
  UnderWay => EmptyReplacement
              /\ rpc \in {"await", "retention", "retained", "poll", "done", "failed",
                      "killed"}

OneRequest ==
  /\ ~(reopen /\ http = "sent")
  /\ ~(reopen /\ wpc = "open")
  /\ ~(http = "sent" /\ wpc = "open")
  /\ http # "busy"

OldFileOpen ==
  fd # None /\ Exists(Active) /\ fd # dir[Active] => data[dir[Active]] = <<>>

RotatorView ==
  /\ rpc \in {"rotate", "copyStart", "copy", "truncate", "rename"}
       => Exists(Active) /\ data[dir[Active]] # <<>>
  /\ rpc = "create" => ~Exists(Active)
  /\ rpc = "request" => EmptyReplacement

CopyView ==
  rpc \in {"copy", "truncate"}
    => /\ Exists(ordinal)
       /\ dir[ordinal] # dir[Active]
       /\ dir[ordinal] # fd
       /\ copied <= Size(Active)
       /\ CopyIsPrefix

Linked ==
  fd # None
    => \/ fd = dir[Active]
       \/ rpc \in {"create", "request", "await", "retention", "retained"}
            /\ fd = dir[ordinal]
       \/ rpc \in {"poll", "done"} /\ ordinal > 1 /\ fd = dir[ordinal - 1]
       \/ rpc \in {"failed", "killed"} /\ \E n \in Names : fd = dir[n]

(* Reopens asked for so far: taken, queued, or still in the request. *)
Asked == reopenRequests + (IF reopen THEN 1 ELSE 0) + (IF http = "sent" THEN 1 ELSE 0)

Counted ==
  Rename
    => /\ rpc \notin {"copyStart", "copy", "truncate"}
       /\ rpc = "off" => Asked = 0
       /\ rpc \in {"poll", "rotate", "rename", "create", "request"} => Asked = ordinal - 1
       /\ rpc \in {"await", "retention", "retained"} => Asked = ordinal

Core ==
  /\ Startup
  /\ Ordinals
  /\ Fresh
  /\ Pending
  /\ OneRequest
  /\ OldFileOpen
  /\ RotatorView
  /\ CopyView
  /\ Linked
  /\ Counted

IndInv == TypeOK /\ Core

-----------------------------------------------------------------------------
(* Facts about the file system's operators and the writers' shared steps.  *)

(* Appending to a sequence leaves its prefixes as they are. *)
LEMMA PrefixOfConcat ==
  ASSUME NEW S, NEW s \in Seq(S), NEW t \in Seq(S), NEW k \in Nat, k <= Len(s)
  PROVE  k <= Len(s \o t) /\ SubSeq(s \o t, 1, k) = SubSeq(s, 1, k)
OBVIOUS

(* Two adjacent stretches of a sequence make one. *)
LEMMA PrefixExtends ==
  ASSUME NEW S, NEW s \in Seq(S), NEW c \in Nat, NEW n \in Nat, c + n <= Len(s)
  PROVE  SubSeq(s, 1, c) \o SubSeq(s, c + 1, c + n) = SubSeq(s, 1, c + n)
OBVIOUS

(* A created file is new. *)
LEMMA FreshInodeFacts ==
  ASSUME inodes \subseteq Inodes, inodes # Inodes
  PROVE  FreshInode \in Inodes /\ FreshInode \notin inodes
BY DEF FreshInode

(* After open(O_CREAT) the active name exists and is what is open; an      *)
(* existing active log and all backups stay where they are.                *)
LEMMA OpenActiveFacts ==
  ASSUME HostTypeOK, OpenActive
  PROVE  /\ dir' \in [Names -> inodes' \cup {None}]
         /\ inodes \subseteq inodes' /\ inodes' \subseteq Inodes
         /\ fd' \in inodes'
         /\ fd' = dir'[Active]
         /\ Exists(Active) => dir' = dir /\ inodes' = inodes
         /\ \A n \in Names \ {Active} : dir'[n] = dir[n]
<1> USE HostAssumption DEF HostTypeOK, OpenActive, CreateFile, Exists, Names, Active
<1>1. CASE dir[Active] # None
  BY <1>1
<1>2. CASE dir[Active] = None
  BY <1>2, FreshInodeFacts
<1> QED
  BY <1>1, <1>2

(* A write keeps the types of what it changes. *)
LEMMA WriteUnitsFacts ==
  ASSUME TypeOK, NEW n \in Nat, NEW after \in WriterPCs, WriteUnits(n, after)
  PROVE  /\ data' \in [Inodes -> Seq(Unit)]
         /\ flushed' \in Nat /\ off' \in Nat
         /\ wpc' \in WriterPCs
         /\ wpc' \in {wpc, after}
         /\ \E units \in Seq(Unit) : data' = [data EXCEPT ![fd] = @ \o units]
<1>1. fd \in Inodes
  BY DEF TypeOK, WriterTypeOK, HostTypeOK, WriteUnits
<1>2. [i \in 1..n |-> flushed + off + i] \in Seq(Unit)
  BY DEF TypeOK, WriterTypeOK, Unit
<1>3. data' = [data EXCEPT ![fd] = @ \o [i \in 1..n |-> flushed + off + i]]
  BY DEF WriteUnits
<1>4. data' \in [Inodes -> Seq(Unit)]
  BY <1>1, <1>2, <1>3 DEF TypeOK, HostTypeOK
<1>5. generated * RecordBytes \in Nat
  BY HostAssumption DEF TypeOK, WriterTypeOK
<1>6. \E units \in Seq(Unit) : data' = [data EXCEPT ![fd] = @ \o units]
  BY <1>2, <1>3
<1>7. \/ flushed' = flushed + Buffered /\ off' = 0 /\ wpc' = after
      \/ flushed' = flushed /\ off' = off + n /\ wpc' = wpc
  BY DEF WriteUnits
<1>8. flushed \in Nat /\ off \in Nat /\ wpc \in WriterPCs
  BY DEF TypeOK, WriterTypeOK
<1>9. flushed + Buffered = generated * RecordBytes
  BY <1>5, <1>8 DEF Buffered
<1>10. flushed' \in Nat /\ off' \in Nat /\ wpc' \in {wpc, after} /\ wpc' \in WriterPCs
  BY <1>5, <1>7, <1>8, <1>9
<1> QED
  BY <1>4, <1>6, <1>10

-----------------------------------------------------------------------------
(* What a step of either writer can do to the state the invariant reads.   *)
Running(pc) == pc \in WriterPCs \ {"off", "start", "open"}

Quiet ==
  /\ wpc # "off" /\ Running(wpc')
  /\ UNCHANGED <<dir, data, inodes, http, served, fd, reopen, reopenRequests>>
Opens ==
  /\ wpc \in {"start", "open"} /\ Running(wpc')
  /\ OpenActive
  /\ UNCHANGED <<data, http, reopen, reopenRequests>>
Appends ==
  /\ wpc \in {"flush", "final"} /\ Running(wpc')
  /\ fd # None
  /\ \E units \in Seq(Unit) : data' = [data EXCEPT ![fd] = @ \o units]
  /\ UNCHANGED <<dir, inodes, http, served, fd, reopen, reopenRequests>>
Queues ==
  /\ http = "sent" /\ served
  /\ http' = IF reopen THEN "busy" ELSE "ok"
  /\ reopen' = TRUE
  /\ UNCHANGED <<dir, data, inodes, served, fd, wpc, reopenRequests>>
Takes ==
  /\ Running(wpc)
  /\ TakeReopen
  /\ UNCHANGED <<dir, data, inodes, http, served>>
Closes ==
  /\ wpc # "off" /\ Running(wpc')
  /\ fd' = None
  /\ served' = FALSE
  /\ UNCHANGED <<dir, data, inodes, http, reopen, reopenRequests>>

WriterEffect == Quiet \/ Opens \/ Appends \/ Queues \/ Takes \/ Closes

(* A writer step that leaves the host alone and changes the writer's own   *)
(* variables within their types preserves TypeOK.                          *)
LEMMA HostUnchangedType ==
  ASSUME TypeOK, UNCHANGED <<hostVars, rotatorVars, harnessVars>>, WriterTypeOK'
  PROVE  TypeOK'
BY DEF TypeOK, HostTypeOK, RotatorTypeOK, hostVars, rotatorVars, harnessVars

(* Start, of either writer, opens the active log and nothing else. *)
LEMMA StartFacts ==
  ASSUME TypeOK, Start, UNCHANGED <<rotatorVars, harnessVars>>
  PROVE  TypeOK' /\ Opens /\ config' = config
<1>1. HostTypeOK /\ OpenActive
  BY DEF TypeOK, Start
<1>2. HostTypeOK'
  BY <1>1, OpenActiveFacts DEF HostTypeOK, Start
<1>3. WriterTypeOK'
  BY <1>1, OpenActiveFacts DEF TypeOK, WriterTypeOK, Start, WriterPCs
<1> QED
  BY <1>2, <1>3
  DEF TypeOK, RotatorTypeOK, Start, Opens, Running, WriterPCs, rotatorVars, harnessVars

(* The open after a queued reopen keeps every variable's type. *)
LEMMA ReopenFacts ==
  ASSUME TypeOK, wpc = "open", OpenActive, wpc' \in {"flush", "loop"},
         UNCHANGED <<config, data, http, served, generated, flushed, off,
                     reopen, reopenRequests, reopenFailures, stopping, werr,
                     stateFile>>,
         UNCHANGED <<rotatorVars, harnessVars>>
  PROVE  TypeOK' /\ Opens /\ config' = config
<1>1. HostTypeOK
  BY DEF TypeOK
<1>2. HostTypeOK'
  BY <1>1, OpenActiveFacts DEF HostTypeOK
<1>3. WriterTypeOK'
  BY <1>1, OpenActiveFacts DEF TypeOK, WriterTypeOK, WriterPCs
<1> QED
  BY <1>2, <1>3
  DEF TypeOK, RotatorTypeOK, Opens, Running, WriterPCs, rotatorVars, harnessVars

(* Answering POST /reopen-logs keeps every variable's type. *)
LEMMA HandleReopenFacts ==
  ASSUME TypeOK, HandleReopen, UNCHANGED <<rotatorVars, harnessVars>>
  PROVE  TypeOK' /\ Queues /\ config' = config
<1>1. HostTypeOK'
  BY DEF TypeOK, HostTypeOK, HandleReopen, HttpStates
<1>2. WriterTypeOK'
  BY DEF TypeOK, WriterTypeOK, HandleReopen
<1> QED
  BY <1>1, <1>2 DEF TypeOK, RotatorTypeOK, HandleReopen, Queues, rotatorVars, harnessVars

(* A write(2) of either writer only appends units to the open file. *)
LEMMA AppendFacts ==
  ASSUME TypeOK, NEW n \in Nat, NEW after \in WriterPCs, Running(after),
         wpc \in {"flush", "final"},
         WriteUnits(n, after), UNCHANGED <<rotatorVars, harnessVars>>
  PROVE  TypeOK' /\ Appends /\ config' = config
<1>1. HostTypeOK'
  BY WriteUnitsFacts DEF TypeOK, HostTypeOK, WriteUnits
<1>2. WriterTypeOK'
  BY WriteUnitsFacts DEF TypeOK, WriterTypeOK, WriteUnits
<1>3. Appends
  BY WriteUnitsFacts DEF Appends, WriteUnits, Running, WriterPCs
<1> QED
  BY <1>1, <1>2, <1>3 DEF TypeOK, RotatorTypeOK, WriteUnits, rotatorVars, harnessVars

(* Leaving closes the log and stops the server. *)
LEMMA ExitFacts ==
  ASSUME TypeOK, Exit, UNCHANGED <<rotatorVars, harnessVars>>
  PROVE  TypeOK' /\ Closes /\ config' = config
<1>1. HostTypeOK'
  BY DEF TypeOK, HostTypeOK, Exit
<1>2. werr' \in BOOLEAN /\ stateFile' \in BOOLEAN
  BY DEF TypeOK, WriterTypeOK, Exit, Outcome
<1>3. WriterTypeOK'
  BY <1>2 DEF TypeOK, WriterTypeOK, Exit, WriterPCs
<1> QED
  BY <1>1, <1>3
  DEF TypeOK, RotatorTypeOK, Exit, Closes, Running, WriterPCs, rotatorVars, harnessVars

(* Taking the queued reopen keeps every variable's type. *)
LEMMA TakeReopenFacts ==
  ASSUME TypeOK, TakeReopen, Running(wpc), generated' \in Nat,
         UNCHANGED <<hostVars, flushed, off, reopenFailures, stopping, werr, stateFile>>,
         UNCHANGED <<rotatorVars, harnessVars>>
  PROVE  TypeOK' /\ Takes /\ config' = config
<1>0. WriterTypeOK
  BY DEF TypeOK
<1>1. WriterTypeOK'
  <2>1. wpc' \in WriterPCs /\ fd' = None /\ reopen' = FALSE
    BY DEF TakeReopen, WriterPCs
  <2>2. reopenRequests' \in Nat
    BY <1>0 DEF TakeReopen, WriterTypeOK
  <2> QED
    BY <1>0, <2>1, <2>2 DEF WriterTypeOK
<1>2. TypeOK'
  BY <1>1, HostUnchangedType
<1> QED
  BY <1>2 DEF Takes, hostVars

(* Every step of the Go writer keeps the types and is one of the effects. *)
LEMMA GoStepFacts ==
  ASSUME TypeOK, GoNext, UNCHANGED <<rotatorVars, harnessVars>>
  PROVE  TypeOK' /\ WriterEffect /\ config' = config
<1> USE DEF WriterEffect
<1>1. ASSUME GoStart PROVE TypeOK' /\ Opens /\ config' = config
  BY <1>1, StartFacts DEF GoStart
<1>2. ASSUME GoStartFailure PROVE TypeOK' /\ Quiet /\ config' = config
  BY <1>2, HostUnchangedType
  DEF GoStartFailure, StartFailure, TypeOK, WriterTypeOK, Quiet, Running, WriterPCs, hostVars
<1>3. ASSUME GoHandleReopen PROVE TypeOK' /\ Queues /\ config' = config
  BY <1>3, HandleReopenFacts DEF GoHandleReopen
<1>4. ASSUME GoStop PROVE TypeOK' /\ Quiet /\ config' = config
  BY <1>4, HostUnchangedType
  DEF GoStop, GoFinish, TypeOK, WriterTypeOK, Quiet, Running, WriterPCs, hostVars
<1>5. ASSUME NEW n \in 1..Burst, GoTick(n) PROVE TypeOK' /\ Quiet /\ config' = config
  BY <1>5, HostUnchangedType, HostAssumption
  DEF GoTick, TypeOK, WriterTypeOK, Quiet, Running, WriterPCs, hostVars
<1>6. ASSUME GoFlushTick PROVE TypeOK' /\ Quiet /\ config' = config
  BY <1>6, HostUnchangedType
  DEF GoFlushTick, TypeOK, WriterTypeOK, Quiet, Running, WriterPCs, hostVars
<1>7. ASSUME GoReopen PROVE TypeOK' /\ Takes /\ config' = config
  <2>1. Running(wpc) /\ generated' \in Nat
    BY <1>7 DEF GoReopen, TypeOK, WriterTypeOK, Running, WriterPCs
  <2> QED
    BY <1>7, <2>1, TakeReopenFacts DEF GoReopen
<1>8. ASSUME GoOpen PROVE TypeOK' /\ Opens /\ config' = config
  BY <1>8, ReopenFacts DEF GoOpen
<1>9. ASSUME GoReopenError PROVE TypeOK' /\ Quiet /\ config' = config
  BY <1>9, HostUnchangedType
  DEF GoReopenError, GoFinish, TypeOK, WriterTypeOK, Quiet, Running, WriterPCs, hostVars
<1>10. ASSUME NEW n \in 1..FileCap, GoWrite(n) PROVE TypeOK' /\ Appends /\ config' = config
  BY <1>10, AppendFacts, HostAssumption DEF GoWrite, Running, WriterPCs
<1>11. ASSUME GoWriteError PROVE TypeOK' /\ Quiet /\ config' = config
  BY <1>11, HostUnchangedType
  DEF GoWriteError, TypeOK, WriterTypeOK, Quiet, Running, WriterPCs, hostVars
<1>12. ASSUME GoExit PROVE TypeOK' /\ Closes /\ config' = config
  BY <1>12, ExitFacts DEF GoExit
<1>13. ASSUME GoEncodeError PROVE TypeOK' /\ Quiet /\ config' = config
  BY <1>13, HostUnchangedType
  DEF GoEncodeError, TypeOK, WriterTypeOK, Quiet, Running, WriterPCs, hostVars
<1> QED
  BY <1>1, <1>2, <1>3, <1>4, <1>5, <1>6, <1>7, <1>8, <1>9, <1>10, <1>11, <1>12,
     <1>13
  DEF GoNext

(* Every step of the C++ writer keeps the types and is one of the effects. *)
LEMMA CppStepFacts ==
  ASSUME TypeOK, CppNext, UNCHANGED <<rotatorVars, harnessVars>>
  PROVE  TypeOK' /\ WriterEffect /\ config' = config
<1> USE DEF WriterEffect
<1>1. ASSUME CppStart PROVE TypeOK' /\ Opens /\ config' = config
  BY <1>1, StartFacts DEF CppStart
<1>2. ASSUME CppStartFailure PROVE TypeOK' /\ Quiet /\ config' = config
  BY <1>2, HostUnchangedType
  DEF CppStartFailure, StartFailure, TypeOK, WriterTypeOK, Quiet, Running, WriterPCs, hostVars
<1>3. ASSUME CppHandleReopen PROVE TypeOK' /\ Queues /\ config' = config
  BY <1>3, HandleReopenFacts DEF CppHandleReopen
<1>4. ASSUME CppBegin PROVE TypeOK' /\ Quiet /\ config' = config
  BY <1>4, HostUnchangedType
  DEF CppBegin, TypeOK, WriterTypeOK, Quiet, Running, WriterPCs, hostVars
<1>5. ASSUME NEW n \in 0..Burst, NEW elapsed \in BOOLEAN, CppTick(n, elapsed)
      PROVE  TypeOK' /\ (Quiet \/ Takes) /\ config' = config
  <2>1. generated' \in Nat /\ Running(wpc)
    BY <1>5, HostAssumption DEF CppTick, TypeOK, WriterTypeOK, Running, WriterPCs
  <2>2. UNCHANGED <<hostVars, flushed, off, reopenFailures, stopping, werr, stateFile>>
    BY <1>5 DEF CppTick
  <2>3. CASE TakeReopen
    BY <2>1, <2>2, <2>3, TakeReopenFacts
  <2>4. CASE ~TakeReopen
    <3>1. wpc' \in {"flush", "loop"} /\ UNCHANGED <<fd, reopen, reopenRequests>>
      BY <1>5, <2>4 DEF CppTick
    <3>2. WriterTypeOK'
      BY <2>1, <2>2, <3>1 DEF TypeOK, HostTypeOK, WriterTypeOK, WriterPCs, hostVars
    <3>3. Quiet
      BY <1>5, <2>2, <3>1 DEF CppTick, Quiet, Running, WriterPCs, hostVars
    <3> QED
      BY <2>2, <3>2, <3>3, HostUnchangedType DEF hostVars
  <2> QED
    BY <2>3, <2>4
<1>6. ASSUME CppOpen PROVE TypeOK' /\ Opens /\ config' = config
  BY <1>6, ReopenFacts DEF CppOpen
<1>7. ASSUME CppReopenError PROVE TypeOK' /\ Quiet /\ config' = config
  BY <1>7, HostUnchangedType
  DEF CppReopenError, TypeOK, WriterTypeOK, Quiet, Running, WriterPCs, hostVars
<1>8. ASSUME NEW n \in 1..FileCap, CppWrite(n) PROVE TypeOK' /\ Appends /\ config' = config
  BY <1>8, AppendFacts, HostAssumption DEF CppWrite, Running, WriterPCs
<1>9. ASSUME CppWriteError PROVE TypeOK' /\ Quiet /\ config' = config
  BY <1>9, HostUnchangedType
  DEF CppWriteError, TypeOK, WriterTypeOK, Quiet, Running, WriterPCs, hostVars
<1>10. ASSUME CppStop PROVE TypeOK' /\ Quiet /\ config' = config
  BY <1>10, HostUnchangedType
  DEF CppStop, TypeOK, WriterTypeOK, Quiet, Running, WriterPCs, hostVars
<1>11. ASSUME CppExit PROVE TypeOK' /\ Closes /\ config' = config
  BY <1>11, ExitFacts DEF CppExit
<1> QED
  BY <1>1, <1>2, <1>3, <1>4, <1>5, <1>6, <1>7, <1>8, <1>9, <1>10, <1>11
  DEF CppNext

-----------------------------------------------------------------------------
(* The effects of a writer step preserve the invariant. *)
LEMMA WriterPreservesCore ==
  ASSUME TypeOK, Core, TypeOK', WriterEffect, config' = config,
         UNCHANGED <<rotatorVars, harnessVars>>
  PROVE  Core'
<1> USE DEF rotatorVars, harnessVars, Exists
<1>0. /\ Startup /\ Ordinals /\ Fresh /\ Pending /\ OneRequest /\ OldFileOpen
      /\ RotatorView /\ CopyView /\ Linked /\ Counted
  BY DEF Core
<1>1. CASE Quiet
  <2> USE <1>0, <1>1 DEF Quiet, Running
  <2>1. Startup'      BY DEF Startup
  <2>2. Ordinals'     BY DEF Ordinals
  <2>3. Fresh'        BY DEF Fresh
  <2>4. Pending'      BY DEF Pending, UnderWay, EmptyReplacement
  <2>5. OneRequest'   BY DEF OneRequest
  <2>6. OldFileOpen'  BY DEF OldFileOpen
  <2>7. RotatorView'  BY DEF RotatorView, EmptyReplacement
  <2>8. CopyView'     BY DEF CopyView, CopyIsPrefix, Size
  <2>9. Linked'       BY DEF Linked
  <2>10. Counted'     BY DEF Counted, Asked, Rename
  <2> QED
    BY <2>1, <2>2, <2>3, <2>4, <2>5, <2>6, <2>7, <2>8, <2>9, <2>10 DEF Core
<1>2. CASE Opens
  <2>1. /\ HostTypeOK /\ OpenActive /\ UNCHANGED <<data, http, reopen, reopenRequests>>
        /\ wpc \in {"start", "open"} /\ Running(wpc')
    BY <1>2 DEF Opens, TypeOK
  <2>2. /\ inodes \subseteq inodes'
        /\ fd' # None /\ fd' = dir'[Active]
        /\ Exists(Active) => dir' = dir /\ inodes' = inodes
        /\ \A n \in Names \ {Active} : dir'[n] = dir[n]
    BY <2>1, OpenActiveFacts, HostAssumption DEF HostTypeOK, TypeOK
  <2> USE <1>0, <2>1, <2>2 DEF Running, WriterPCs
  <2>3. Startup'      BY <1>2 DEF Startup, Opens
  <2>4. Ordinals'     BY HostAssumption DEF Ordinals, Names, Active, TypeOK, RotatorTypeOK
  <2>5. Fresh'        BY DEF Fresh
  <2>6. ~reopen /\ http # "sent"
    BY DEF OneRequest, Pending, UnderWay, Startup
  <2>7. Pending'      BY <2>6 DEF Pending, UnderWay
  <2>8. OneRequest'   BY <2>6 DEF OneRequest
  <2>9. OldFileOpen'  BY DEF OldFileOpen
  <2>10. rpc \notin {"rotate", "copyStart", "copy", "truncate", "rename", "create", "request"}
    BY DEF Pending, UnderWay, Startup
  <2>11. RotatorView' BY <2>10 DEF RotatorView
  <2>12. CopyView'    BY <2>10 DEF CopyView
  <2>13. Linked'      BY DEF Linked
  <2>14. Counted'     BY DEF Counted, Asked, Rename
  <2> QED
    BY <2>3, <2>4, <2>5, <2>7, <2>8, <2>9, <2>11, <2>12, <2>13, <2>14 DEF Core
<1>3. CASE Appends
  <2> PICK units \in Seq(Unit) : data' = [data EXCEPT ![fd] = @ \o units]
    BY <1>3 DEF Appends
  <2>1. /\ fd \in inodes /\ fd \in Inodes /\ inodes \subseteq Inodes
        /\ data \in [Inodes -> Seq(Unit)]
        /\ dir \in [Names -> inodes \cup {None}]
    BY <1>3 DEF Appends, TypeOK, HostTypeOK, WriterTypeOK
  <2>2. /\ \A i \in Inodes : i # fd => data'[i] = data[i]
        /\ data'[fd] = data[fd] \o units
        /\ data[fd] \in Seq(Unit)
    BY <2>1
  <2>3. /\ UNCHANGED <<dir, inodes, http, served, fd, reopen, reopenRequests>>
        /\ Running(wpc') /\ fd # None /\ wpc \in {"flush", "final"}
    BY <1>3 DEF Appends
  <2>4. Active \in Names
    BY HostAssumption DEF Active, Names
  <2>5. Exists(Active) => dir[Active] \in Inodes
    BY <2>1, <2>4
  <2> HIDE <1>3
  <2> USE <1>0 DEF Running
  <2>6. Startup'      BY <2>3 DEF Startup
  <2>7. Ordinals'     BY <2>3 DEF Ordinals
  <2>8. Fresh'        BY <2>1, <2>2, <2>3 DEF Fresh
  <2>9. Pending'      BY <2>2, <2>3, <2>5 DEF Pending, UnderWay, EmptyReplacement
  <2>10. OneRequest'  BY <2>3 DEF OneRequest
  <2>11. OldFileOpen' BY <2>2, <2>3, <2>5 DEF OldFileOpen
  <2>12. data[fd] # <<>> => data'[fd] # <<>>
    BY <2>2
  <2>13. RotatorView' BY <2>2, <2>3, <2>5, <2>12 DEF RotatorView, EmptyReplacement
  <2>14. CopyView'
    <3> SUFFICES ASSUME rpc \in {"copy", "truncate"}
                 PROVE  /\ copied <= Len(data'[dir[Active]])
                        /\ data'[dir[ordinal]] = SubSeq(data'[dir[Active]], 1, copied)
      BY <2>3 DEF CopyView, CopyIsPrefix, Size
    <3>1. /\ dir[ordinal] # None /\ dir[ordinal] # fd
          /\ copied <= Len(data[dir[Active]])
          /\ data[dir[ordinal]] = SubSeq(data[dir[Active]], 1, copied)
          /\ dir[Active] # None
      BY DEF CopyView, CopyIsPrefix, Size, RotatorView
    <3>2. ordinal \in Names /\ copied \in Nat
      BY HostAssumption DEF Ordinals, Names, TypeOK, RotatorTypeOK
    <3>3. data'[dir[ordinal]] = data[dir[ordinal]]
      BY <2>1, <2>2, <3>1, <3>2
    <3>4. /\ copied <= Len(data'[dir[Active]])
          /\ SubSeq(data'[dir[Active]], 1, copied) = SubSeq(data[dir[Active]], 1, copied)
      <4>1. CASE dir[Active] = fd
        BY <4>1, <2>2, <3>1, <3>2, PrefixOfConcat
      <4>2. CASE dir[Active] # fd
        BY <4>2, <2>2, <2>5, <3>1
      <4> QED
        BY <4>1, <4>2
    <3> QED
      BY <3>1, <3>3, <3>4
  <2>15. Linked'      BY <2>3 DEF Linked
  <2>16. Counted'     BY <2>3 DEF Counted, Asked, Rename
  <2> QED
    BY <2>6, <2>7, <2>8, <2>9, <2>10, <2>11, <2>13, <2>14, <2>15, <2>16 DEF Core
<1>4. CASE Queues
  <2> USE <1>0, <1>4 DEF Queues
  <2>1. ~reopen /\ http' = "ok"
    BY DEF OneRequest
  <2>2. Startup'      BY DEF Startup
  <2>3. Ordinals'     BY DEF Ordinals
  <2>4. Fresh'        BY DEF Fresh
  <2>5. Pending'      BY <2>1 DEF Pending, UnderWay, EmptyReplacement
  <2>6. OneRequest'   BY <2>1 DEF OneRequest
  <2>7. OldFileOpen'  BY DEF OldFileOpen
  <2>8. RotatorView'  BY DEF RotatorView, EmptyReplacement
  <2>9. CopyView'     BY DEF CopyView, CopyIsPrefix, Size
  <2>10. Linked'      BY DEF Linked
  <2>11. Counted'     BY <2>1 DEF Counted, Asked, Rename, TypeOK, WriterTypeOK
  <2> QED
    BY <2>2, <2>3, <2>4, <2>5, <2>6, <2>7, <2>8, <2>9, <2>10, <2>11 DEF Core
<1>5. CASE Takes
  <2> USE <1>0, <1>5 DEF Takes, TakeReopen, Running
  <2>1. http # "sent" /\ EmptyReplacement
        /\ rpc \in {"await", "retention", "retained", "poll", "done", "failed",
                      "killed"}
    BY DEF OneRequest, Pending, UnderWay
  <2>2. Startup'      BY <2>1 DEF Startup
  <2>3. Ordinals'     BY DEF Ordinals
  <2>4. Fresh'        BY DEF Fresh
  <2>5. Pending'      BY <2>1 DEF Pending, UnderWay, EmptyReplacement
  <2>6. OneRequest'   BY <2>1 DEF OneRequest
  <2>7. OldFileOpen'  BY DEF OldFileOpen
  <2>8. RotatorView'  BY <2>1 DEF RotatorView
  <2>9. CopyView'     BY <2>1 DEF CopyView
  <2>10. Linked'      BY DEF Linked
  <2>11. Counted'     BY <2>1 DEF Counted, Asked, Rename, TypeOK, WriterTypeOK
  <2> QED
    BY <2>2, <2>3, <2>4, <2>5, <2>6, <2>7, <2>8, <2>9, <2>10, <2>11 DEF Core
<1>6. CASE Closes
  <2> USE <1>0, <1>6 DEF Closes, Running
  <2>1. Exists(Active) => dir[Active] # None
    OBVIOUS
  <2>2. Startup'      BY DEF Startup
  <2>3. Ordinals'     BY DEF Ordinals
  <2>4. Fresh'        BY DEF Fresh
  <2>5. Pending'      BY DEF Pending, UnderWay, EmptyReplacement
  <2>6. OneRequest'   BY DEF OneRequest
  <2>7. OldFileOpen'  BY DEF OldFileOpen
  <2>8. RotatorView'  BY DEF RotatorView, EmptyReplacement
  <2>9. CopyView'     BY DEF CopyView, CopyIsPrefix, Size
  <2>10. Linked'      BY DEF Linked
  <2>11. Counted'     BY DEF Counted, Asked, Rename
  <2> QED
    BY <2>2, <2>3, <2>4, <2>5, <2>6, <2>7, <2>8, <2>9, <2>10, <2>11 DEF Core
<1> QED
  BY <1>1, <1>2, <1>3, <1>4, <1>5, <1>6 DEF WriterEffect

-----------------------------------------------------------------------------
(* The rotator's steps preserve the invariant. *)

(* While the rotator works, its ordinal names a backup and a row of        *)
(* events.csv.                                                             *)
LEMMA OrdinalInRange ==
  ASSUME TypeOK, Ordinals, rpc \notin {"done", "killed"}
  PROVE  ordinal \in 1..Rotations /\ ordinal \in Names /\ Active \in Names /\ ordinal # Active
BY HostAssumption DEF TypeOK, RotatorTypeOK, Ordinals, Names, Active

(* A row appended to events.csv keeps the file's type. *)
LEMMA LogFacts ==
  ASSUME TypeOK, Ordinals, rpc \notin {"done", "killed"}, NEW phase \in Phases, Log(phase)
  PROVE  events' \in Seq([ordinal : 1..Rotations, phase : Phases])
<1>1. Event(phase) \in [ordinal : 1..Rotations, phase : Phases]
  BY OrdinalInRange DEF Event
<1> QED
  BY <1>1 DEF Log, TypeOK, RotatorTypeOK

(* What CreateFile does to the directory. *)
LEMMA CreateFileFacts ==
  ASSUME TypeOK, Fresh, NEW n \in Names, CreateFile(n), data' = data
  PROVE  /\ dir' \in [Names -> inodes' \cup {None}]
         /\ inodes \subseteq inodes' /\ inodes' \subseteq Inodes
         /\ dir'[n] \in inodes' /\ dir'[n] \notin inodes
         /\ dir'[n] # None /\ dir'[n] # fd /\ data[dir'[n]] = <<>>
         /\ \A m \in Names : m # n => dir'[m] = dir[m] /\ dir'[m] # dir'[n]
         /\ Fresh'
<1>1. FreshInode \in Inodes /\ FreshInode \notin inodes
  BY FreshInodeFacts DEF TypeOK, HostTypeOK, CreateFile
<1>2. data[FreshInode] = <<>>
  BY <1>1 DEF Fresh
<1> QED
  BY <1>1, <1>2, HostAssumption
  DEF TypeOK, HostTypeOK, WriterTypeOK, CreateFile, Fresh

(* A step of the rotator that only moves its pc and logs. *)
LEMMA HostQuietType ==
  ASSUME TypeOK, UNCHANGED <<hostVars, writerVars, harnessVars>>, RotatorTypeOK'
  PROVE  TypeOK'
BY DEF TypeOK, HostTypeOK, WriterTypeOK, hostVars, writerVars, harnessVars

(* Every step of the rotator preserves the invariant. *)
LEMMA RotatorPreserves ==
  ASSUME IndInv, RotatorNext, UNCHANGED <<writerVars, harnessVars>>
  PROVE  IndInv'
<1>0. /\ TypeOK /\ Core
      /\ Startup /\ Ordinals /\ Fresh /\ Pending /\ OneRequest /\ OldFileOpen
      /\ RotatorView /\ CopyView /\ Linked /\ Counted
  BY DEF IndInv, Core
<1>t. RotatorTypeOK /\ HostTypeOK /\ WriterTypeOK
  BY <1>0 DEF TypeOK
<1> USE <1>0 DEF writerVars, harnessVars, Exists
<1>1. ASSUME PollAgain PROVE IndInv'
  BY <1>1 DEF PollAgain, hostVars, rotatorVars, IndInv, TypeOK, HostTypeOK,
     WriterTypeOK, RotatorTypeOK, Core, Startup, Ordinals, Fresh, Pending,
     UnderWay, EmptyReplacement, OneRequest, OldFileOpen, RotatorView,
     CopyView, CopyIsPrefix, Size, Linked, Counted, Asked, Rename
<1>2. ASSUME BaselineComplete PROVE IndInv'
  <2>1. /\ rpc = "poll" /\ rpc' = "done"
        /\ UNCHANGED <<config, dir, data, inodes, http, served, ordinal, copied>>
    BY <1>2 DEF BaselineComplete, hostVars
  <2>2. RotatorTypeOK'
    <3>1. Event("threshold") \in [ordinal : 1..Rotations, phase : Phases]
          /\ Event("baseline-complete") \in [ordinal : 1..Rotations, phase : Phases]
      BY <2>1, OrdinalInRange DEF Event, Phases
    <3>2. events' \in Seq([ordinal : 1..Rotations, phase : Phases])
      BY <1>2, <1>t, <3>1 DEF BaselineComplete, RotatorTypeOK
    <3> QED
      BY <1>t, <2>1, <3>2 DEF RotatorTypeOK, RotatorPCs
  <2>3. TypeOK'
    BY <1>2, <2>2, HostQuietType DEF BaselineComplete
  <2> QED
    BY <2>1, <2>3
    DEF IndInv, Core, Startup, Ordinals, Fresh, Pending, UnderWay, EmptyReplacement,
        OneRequest, OldFileOpen, RotatorView, CopyView, Linked, Counted
<1>3. ASSUME PollFull PROVE IndInv'
  <2>1. /\ rpc = "poll" /\ rpc' = "rotate" /\ AtLimit /\ ~Baseline
        /\ UNCHANGED <<config, dir, data, inodes, http, served, ordinal, copied, events>>
    BY <1>3 DEF PollFull, hostVars
  <2>2. TypeOK'
    BY <1>3, <1>t, <2>1, HostQuietType DEF PollFull, RotatorTypeOK, RotatorPCs, Rotating
  <2>3. Exists(Active) /\ data[dir[Active]] # <<>>
    <3>1. Exists(Active) /\ Len(data[dir[Active]]) >= MaxFileBytes
      BY <2>1 DEF AtLimit, Size, Target
    <3> QED
      BY <3>1, HostAssumption
  <2>4. ~UnderWay
    BY <2>3 DEF Pending, EmptyReplacement
  <2>5. fd # None => fd = dir[Active]
    BY <2>3 DEF OldFileOpen
  <2>6. (Startup /\ Ordinals /\ Fresh /\ OneRequest /\ OldFileOpen /\ CopyView)'
    BY <2>1 DEF Startup, Ordinals, Fresh, OneRequest, OldFileOpen, CopyView
  <2>7. (Pending /\ RotatorView /\ Linked /\ Counted)'
    BY <2>1, <2>3, <2>4, <2>5
    DEF Pending, UnderWay, RotatorView, Linked, Counted, Asked, Rename
  <2> QED
    BY <2>2, <2>6, <2>7 DEF IndInv, Core
<1>4. ASSUME RotateOnce PROVE IndInv'
  <2>1. /\ rpc = "rotate" /\ rpc' = (IF Copy THEN "copyStart" ELSE "rename")
        /\ UNCHANGED <<config, dir, data, inodes, http, served, ordinal, copied>>
    BY <1>4 DEF RotateOnce, hostVars
  <2>2. RotatorTypeOK'
    <3>1. Event("threshold") \in [ordinal : 1..Rotations, phase : Phases]
          /\ Event("copy-start") \in [ordinal : 1..Rotations, phase : Phases]
      BY <2>1, OrdinalInRange DEF Event, Phases
    <3>2. events' \in Seq([ordinal : 1..Rotations, phase : Phases])
      <4> DEFINE Rows == Seq([ordinal : 1..Rotations, phase : Phases])
                 start == IF Copy THEN <<Event("copy-start")>> ELSE <<>>
      <4>1. events \in Rows /\ <<Event("threshold")>> \in Rows /\ start \in Rows
        <5>1. CASE Copy
          BY <1>t, <3>1, <5>1 DEF RotatorTypeOK
        <5>2. CASE ~Copy
          BY <1>t, <3>1, <5>2 DEF RotatorTypeOK
        <5> QED
          BY <5>1, <5>2
      <4>2. events' = events \o <<Event("threshold")>> \o start
        BY <1>4 DEF RotateOnce
      <4> HIDE DEF start
      <4> QED
        BY <4>1, <4>2
    <3> QED
      BY <1>t, <2>1, <3>2 DEF RotatorTypeOK, RotatorPCs, Rotating
  <2>3. TypeOK'
    BY <1>4, <2>2, HostQuietType DEF RotateOnce
  <2>4. ~UnderWay /\ (fd # None => fd = dir[Active])
    BY <2>1 DEF Pending, RotatorView, OldFileOpen
  <2>5. (Startup /\ Ordinals /\ Fresh /\ OneRequest /\ OldFileOpen /\ CopyView)'
    BY <2>1 DEF Startup, Ordinals, Fresh, OneRequest, OldFileOpen, CopyView
  <2>6. (Pending /\ RotatorView /\ Linked)'
    BY <2>1, <2>4 DEF Pending, UnderWay, RotatorView, Linked
  <2>7. Counted'
    BY <2>1 DEF Counted, Asked, Rename, Copy
  <2> QED
    BY <2>3, <2>5, <2>6, <2>7 DEF IndInv, Core
<1>5. ASSUME CopyStart PROVE IndInv'
  <2>1. /\ rpc = "copyStart" /\ rpc' = "copy" /\ copied' = 0
        /\ CreateFile(ordinal)
        /\ UNCHANGED <<config, data, http, served, ordinal, events>>
    BY <1>5 DEF CopyStart
  <2>2. ordinal \in Names /\ Active \in Names /\ ordinal # Active
    BY <2>1, OrdinalInRange
  <2>3. /\ dir' \in [Names -> inodes' \cup {None}]
        /\ inodes \subseteq inodes' /\ inodes' \subseteq Inodes
        /\ dir'[ordinal] # None /\ dir'[ordinal] # fd /\ data[dir'[ordinal]] = <<>>
        /\ \A m \in Names : m # ordinal => dir'[m] = dir[m] /\ dir'[m] # dir'[ordinal]
        /\ Fresh'
    BY <2>1, <2>2, CreateFileFacts
  <2>4. TypeOK'
    <3>1. RotatorTypeOK'
      BY <1>t, <2>1 DEF RotatorTypeOK, RotatorPCs, Rotating
    <3>2. HostTypeOK'
      BY <1>t, <2>1, <2>3 DEF HostTypeOK
    <3>3. WriterTypeOK'
      BY <1>t, <2>3 DEF WriterTypeOK
    <3> QED
      BY <3>1, <3>2, <3>3 DEF TypeOK
  <2>5. ~UnderWay /\ (fd # None => fd = dir[Active])
    BY <2>1 DEF Pending, RotatorView, OldFileOpen
  <2>6. dir'[Active] = dir[Active]
    BY <2>2, <2>3
  <2>7. (Startup /\ OneRequest /\ OldFileOpen /\ RotatorView /\ Pending /\ Linked)'
    BY <2>1, <2>5, <2>6
    DEF Startup, OneRequest, OldFileOpen, RotatorView, Pending, UnderWay, Linked
  <2>8. Ordinals'
    <3>1. ordinal \in 1..Rotations
      BY <2>1, OrdinalInRange
    <3>2. \A m \in Names : m > ordinal => m # ordinal
      BY <3>1 DEF Names
    <3>3. \A m \in Names : m > ordinal => dir'[m] = None
      BY <2>3, <3>2 DEF Ordinals
    <3> QED
      BY <2>1, <3>1, <3>3, HostAssumption DEF Ordinals
  <2>9. CopyView'
    <3>1. dir[Active] \in Inodes
      BY <1>t, <2>1, <2>2 DEF RotatorView, HostTypeOK
    <3>2. data[dir[Active]] \in Seq(Unit)
      BY <1>t, <3>1 DEF HostTypeOK
    <3>3. SubSeq(data[dir[Active]], 1, 0) = <<>> /\ 0 <= Len(data[dir[Active]])
      BY <3>2
    <3> QED
      BY <2>1, <2>2, <2>3, <2>6, <3>3 DEF CopyView, CopyIsPrefix, Size
  <2>10. Counted'
    BY <2>1 DEF Counted, Asked, Rename
  <2> QED
    BY <2>3, <2>4, <2>7, <2>8, <2>9, <2>10 DEF IndInv, Core
<1>6. ASSUME NEW n \in 1..FileCap, CopyChunk(n) PROVE IndInv'
  <2> DEFINE act == data[dir[Active]]
             bak == data[dir[ordinal]]
  <2>1. /\ rpc = "copy" /\ rpc' = "copy" /\ copied + n <= Len(act) /\ copied' = copied + n
        /\ data' = [data EXCEPT ![dir[ordinal]] = @ \o SubSeq(act, copied + 1, copied + n)]
        /\ UNCHANGED <<config, dir, inodes, http, served, ordinal, events>>
    BY <1>6 DEF CopyChunk, Size
  <2>2. ordinal \in Names /\ Active \in Names
    BY <2>1, OrdinalInRange
  <2>3. /\ dir[ordinal] \in inodes /\ dir[ordinal] \in Inodes /\ dir[Active] \in Inodes
        /\ dir[ordinal] # dir[Active]
        /\ act \in Seq(Unit) /\ bak \in Seq(Unit) /\ bak = SubSeq(act, 1, copied)
    BY <1>t, <2>1, <2>2 DEF CopyView, CopyIsPrefix, RotatorView, HostTypeOK
  <2>4. n \in Nat /\ copied \in Nat
    BY <1>t, HostAssumption DEF RotatorTypeOK
  <2>5. SubSeq(act, copied + 1, copied + n) \in Seq(Unit)
    BY <2>1, <2>3, <2>4
  <2>6. /\ data'[dir[ordinal]] = SubSeq(act, 1, copied + n)
        /\ data'[dir[Active]] = act
        /\ data' \in [Inodes -> Seq(Unit)]
        /\ \A i \in Inodes \ inodes : data'[i] = data[i]
    <3>1. bak \o SubSeq(act, copied + 1, copied + n) = SubSeq(act, 1, copied + n)
      BY <2>1, <2>3, <2>4, PrefixExtends
    <3>2. data'[dir[ordinal]] = bak \o SubSeq(act, copied + 1, copied + n)
      BY <1>t, <2>1, <2>3 DEF HostTypeOK
    <3>3. data'[dir[Active]] = act /\ \A i \in Inodes \ inodes : data'[i] = data[i]
      BY <1>t, <2>1, <2>3 DEF HostTypeOK
    <3>4. bak \o SubSeq(act, copied + 1, copied + n) \in Seq(Unit)
      BY <2>3, <2>5
    <3>5. data' \in [Inodes -> Seq(Unit)]
      BY <1>t, <2>1, <2>3, <3>4 DEF HostTypeOK
    <3> QED
      BY <3>1, <3>2, <3>3, <3>5
  <2>7. TypeOK'
    BY <1>t, <2>1, <2>4, <2>6 DEF TypeOK, HostTypeOK, WriterTypeOK, RotatorTypeOK
  <2>8. ~UnderWay /\ (fd # None => fd = dir[Active])
    BY <2>1 DEF Pending, RotatorView, OldFileOpen
  <2>9. (Startup /\ Ordinals /\ Fresh /\ OneRequest)'
    BY <2>1, <2>6 DEF Startup, Ordinals, Fresh, OneRequest
  <2>10. (Pending /\ OldFileOpen /\ RotatorView /\ Linked)'
    BY <2>1, <2>6, <2>8 DEF Pending, UnderWay, OldFileOpen, RotatorView, Linked
  <2>11. CopyView'
    BY <2>1, <2>6 DEF CopyView, CopyIsPrefix, Size
  <2>12. Counted'
    BY <2>1 DEF Counted, Asked, Rename
  <2> QED
    BY <2>7, <2>9, <2>10, <2>11, <2>12 DEF IndInv, Core
<1>7. ASSUME CopySync PROVE IndInv'
  <2>1. /\ rpc = "copy" /\ rpc' = "truncate" /\ Log("copy-synced")
        /\ UNCHANGED <<config, dir, data, inodes, http, served, ordinal, copied>>
    BY <1>7 DEF CopySync, hostVars
  <2>2. RotatorTypeOK'
    BY <1>t, <2>1, LogFacts DEF RotatorTypeOK, RotatorPCs, Rotating, Phases
  <2>3. TypeOK'
    BY <1>7, <2>2, HostQuietType DEF CopySync
  <2>4. (Startup /\ Ordinals /\ Fresh /\ OneRequest /\ OldFileOpen /\ Counted)'
    BY <2>1 DEF Startup, Ordinals, Fresh, OneRequest, OldFileOpen, Counted, Rename
  <2>5. (Pending /\ RotatorView /\ Linked)'
    BY <2>1 DEF Pending, UnderWay, RotatorView, Linked, OldFileOpen
  <2>6. CopyView'
    BY <2>1 DEF CopyView, CopyIsPrefix, Size
  <2> QED
    BY <2>3, <2>4, <2>5, <2>6 DEF IndInv, Core
<1>8. ASSUME Truncate PROVE IndInv'
  <2>1. /\ rpc = "truncate" /\ rpc' = "retention" /\ Log("truncate")
        /\ data' = [data EXCEPT ![dir[Active]] = <<>>]
        /\ UNCHANGED <<config, dir, inodes, http, served, ordinal, copied>>
    BY <1>8 DEF Truncate
  <2>2. Active \in Names /\ dir[Active] \in Inodes
    BY <1>t, <2>1, OrdinalInRange DEF RotatorView, HostTypeOK
  <2>3. /\ data' \in [Inodes -> Seq(Unit)] /\ data'[dir[Active]] = <<>>
        /\ \A i \in Inodes : data[i] = <<>> => data'[i] = <<>>
    BY <1>t, <2>1, <2>2 DEF HostTypeOK
  <2>4. TypeOK'
    <3>1. RotatorTypeOK'
      BY <1>t, <2>1, LogFacts DEF RotatorTypeOK, RotatorPCs, Rotating, Phases
    <3>2. HostTypeOK'
      BY <1>t, <2>1, <2>3 DEF HostTypeOK
    <3> QED
      BY <1>t, <2>1, <3>1, <3>2 DEF TypeOK, WriterTypeOK
  <2>5. ~UnderWay /\ (fd # None => fd = dir[Active])
    BY <2>1 DEF Pending, RotatorView, OldFileOpen
  <2>6. (Startup /\ Ordinals /\ Fresh /\ OneRequest /\ OldFileOpen)'
    BY <2>1, <2>3 DEF Startup, Ordinals, Fresh, OneRequest, OldFileOpen
  <2>7. (Pending /\ RotatorView /\ CopyView /\ Linked /\ Counted)'
    BY <2>1, <2>5 DEF Pending, UnderWay, RotatorView, CopyView, Linked, Counted, Rename
  <2> QED
    BY <2>4, <2>6, <2>7 DEF IndInv, Core
<1>9. ASSUME RenameActive PROVE IndInv'
  <2>1. /\ rpc = "rename" /\ rpc' = "create" /\ Log("rename")
        /\ dir' = [dir EXCEPT ![ordinal] = dir[Active], ![Active] = None]
        /\ UNCHANGED <<config, data, inodes, http, served, ordinal, copied>>
    BY <1>9 DEF RenameActive
  <2>2. ordinal \in Names /\ Active \in Names /\ ordinal # Active
    BY <2>1, OrdinalInRange
  <2>3. /\ dir' \in [Names -> inodes \cup {None}]
        /\ dir'[ordinal] = dir[Active] /\ dir'[Active] = None
        /\ \A m \in Names : m # ordinal /\ m # Active => dir'[m] = dir[m]
    BY <1>t, <2>1, <2>2 DEF HostTypeOK
  <2>4. TypeOK'
    <3>1. RotatorTypeOK'
      BY <1>t, <2>1, LogFacts DEF RotatorTypeOK, RotatorPCs, Rotating, Phases
    <3>2. HostTypeOK'
      BY <1>t, <2>1, <2>3 DEF HostTypeOK
    <3> QED
      BY <1>t, <2>1, <3>1, <3>2 DEF TypeOK, WriterTypeOK
  <2>5. ~UnderWay /\ (fd # None => fd = dir[Active])
    BY <2>1 DEF Pending, RotatorView, OldFileOpen
  <2>6. (Startup /\ Fresh /\ OneRequest /\ OldFileOpen)'
    BY <2>1, <2>3 DEF Startup, Fresh, OneRequest, OldFileOpen
  <2>7. Ordinals'
    BY <1>t, <2>1, <2>2, <2>3, HostAssumption DEF Ordinals, RotatorTypeOK, Names, Active
  <2>8. (Pending /\ RotatorView /\ CopyView /\ Linked /\ Counted)'
    BY <2>1, <2>3, <2>5
    DEF Pending, UnderWay, RotatorView, CopyView, Linked, Counted, Asked, Rename
  <2> QED
    BY <2>4, <2>6, <2>7, <2>8 DEF IndInv, Core
<1>10. ASSUME CreateReplacement PROVE IndInv'
  <2>1. /\ rpc = "create" /\ rpc' = "request" /\ Log("replacement-created")
        /\ CreateFile(Active)
        /\ UNCHANGED <<config, data, http, served, ordinal, copied>>
    BY <1>10 DEF CreateReplacement
  <2>2. ordinal \in Names /\ Active \in Names /\ ordinal # Active
    BY <2>1, OrdinalInRange
  <2>3. /\ dir' \in [Names -> inodes' \cup {None}]
        /\ inodes \subseteq inodes' /\ inodes' \subseteq Inodes
        /\ dir'[Active] # None /\ dir'[Active] # fd /\ data[dir'[Active]] = <<>>
        /\ \A m \in Names : m # Active => dir'[m] = dir[m]
        /\ Fresh'
    BY <2>1, <2>2, CreateFileFacts
  <2>4. TypeOK'
    <3>1. RotatorTypeOK'
      BY <1>t, <2>1, LogFacts DEF RotatorTypeOK, RotatorPCs, Rotating, Phases
    <3>2. HostTypeOK'
      BY <1>t, <2>1, <2>3 DEF HostTypeOK
    <3>3. WriterTypeOK'
      BY <1>t, <2>3 DEF WriterTypeOK
    <3> QED
      BY <3>1, <3>2, <3>3 DEF TypeOK
  <2>5. ~UnderWay
    BY <2>1 DEF Pending
  <2>6. fd # None => fd = dir'[ordinal]
    BY <2>1, <2>2, <2>3 DEF RotatorView, Linked
  <2>7. (Startup /\ OneRequest /\ OldFileOpen)'
    BY <2>1, <2>3 DEF Startup, OneRequest, OldFileOpen
  <2>8. Ordinals'
    BY <1>t, <2>1, <2>2, <2>3, HostAssumption DEF Ordinals, RotatorTypeOK, Names, Active
  <2>9. (Pending /\ RotatorView /\ CopyView /\ Linked /\ Counted)'
    BY <2>1, <2>3, <2>5, <2>6
    DEF Pending, UnderWay, EmptyReplacement, RotatorView, CopyView, Linked,
        Counted, Asked, Rename
  <2> QED
    BY <2>3, <2>4, <2>7, <2>8, <2>9 DEF IndInv, Core
<1>11. ASSUME RequestReopen PROVE IndInv'
  <2>1. /\ rpc = "request" /\ rpc' = "await" /\ http' = "sent"
        /\ UNCHANGED <<config, dir, data, inodes, served, ordinal, copied, events>>
    BY <1>11 DEF RequestReopen
  <2>2. ~UnderWay /\ EmptyReplacement
    BY <2>1 DEF Pending, RotatorView
  <2>3. TypeOK'
    BY <1>t, <2>1
    DEF TypeOK, HostTypeOK, WriterTypeOK, RotatorTypeOK, RotatorPCs, Rotating, HttpStates
  <2>4. (Startup /\ Ordinals /\ Fresh /\ OneRequest /\ OldFileOpen)'
    BY <2>1, <2>2 DEF Startup, Ordinals, Fresh, OneRequest, OldFileOpen, UnderWay
  <2>5. (Pending /\ RotatorView /\ CopyView /\ Linked)'
    BY <2>1, <2>2 DEF Pending, UnderWay, EmptyReplacement, RotatorView, CopyView, Linked
  <2>6. Counted'
    BY <1>t, <2>1, <2>2
    DEF Counted, Asked, Rename, UnderWay, RotatorTypeOK, WriterTypeOK
  <2> QED
    BY <2>3, <2>4, <2>5, <2>6 DEF IndInv, Core
<1>12. ASSUME ReopenQueued PROVE IndInv'
  <2>1. /\ rpc = "await" /\ rpc' = "retention" /\ http = "ok" /\ http' = "idle"
        /\ Log("reopen-requested")
        /\ UNCHANGED <<config, dir, data, inodes, served, ordinal, copied>>
    BY <1>12 DEF ReopenQueued
  <2>2. TypeOK'
    <3>1. RotatorTypeOK'
      BY <1>t, <2>1, LogFacts DEF RotatorTypeOK, RotatorPCs, Rotating, Phases
    <3>2. HostTypeOK'
      BY <1>t, <2>1 DEF HostTypeOK, HttpStates
    <3> QED
      BY <1>t, <2>1, <3>1, <3>2 DEF TypeOK, WriterTypeOK
  <2>3. (Startup /\ Ordinals /\ Fresh /\ OneRequest /\ OldFileOpen)'
    BY <2>1 DEF Startup, Ordinals, Fresh, OneRequest, OldFileOpen
  <2>4. (Pending /\ RotatorView /\ CopyView /\ Linked)'
    BY <2>1 DEF Pending, UnderWay, EmptyReplacement, RotatorView, CopyView, Linked
  <2>5. Counted'
    BY <2>1 DEF Counted, Asked, Rename
  <2> QED
    BY <2>2, <2>3, <2>4, <2>5 DEF IndInv, Core
<1>13. ASSUME EnforceRetention PROVE IndInv'
  <2>1. /\ rpc = "retention" /\ rpc' = "retained"
        /\ dir' = [n \in Names |-> IF n \in Expired THEN None ELSE dir[n]]
        /\ UNCHANGED <<config, data, inodes, http, served, ordinal, copied, events>>
    BY <1>13 DEF EnforceRetention
  <2>2. ordinal \in 1..Rotations /\ ordinal \in Names /\ Active \in Names /\ ordinal # Active
    BY <2>1, OrdinalInRange
  <2>3. /\ dir' \in [Names -> inodes \cup {None}]
        /\ dir'[Active] = dir[Active]
        /\ \A n \in Names : dir[n] = None => dir'[n] = None
    BY <1>t, <2>1, <2>2 DEF HostTypeOK, Expired, Backups
  <2>4. TypeOK'
    <3>1. RotatorTypeOK'
      BY <1>t, <2>1 DEF RotatorTypeOK, RotatorPCs, Rotating
    <3>2. HostTypeOK'
      BY <1>t, <2>1, <2>3 DEF HostTypeOK
    <3> QED
      BY <1>t, <2>1, <3>1, <3>2 DEF TypeOK, WriterTypeOK
  <2>5. dir[ordinal] # None => ordinal \notin Expired
    <3> SUFFICES ASSUME dir[ordinal] # None, config.maxBackups > 0
                 PROVE  ~(Cardinality({m \in Backups : m >= ordinal}) > config.maxBackups)
      BY DEF Expired
    <3>1. {m \in Backups : m >= ordinal} = {ordinal}
      BY <2>2, HostAssumption DEF Backups, Ordinals, Names
    <3>2. Cardinality({ordinal}) = 1
      BY FS_Singleton
    <3>3. config.maxBackups \in Nat
      BY <1>t, HostAssumption DEF HostTypeOK
    <3> QED
      BY <3>1, <3>2, <3>3
  <2>6. dir[ordinal] # None => dir'[ordinal] = dir[ordinal]
    BY <2>1, <2>2, <2>5
  <2>7. (Startup /\ Fresh /\ OneRequest /\ OldFileOpen)'
    BY <2>1, <2>3 DEF Startup, Fresh, OneRequest, OldFileOpen
  <2>8. Ordinals'
    BY <2>1, <2>2, <2>3, HostAssumption DEF Ordinals, Names
  <2>9. (Pending /\ RotatorView /\ CopyView)'
    BY <2>1, <2>3 DEF Pending, UnderWay, EmptyReplacement, RotatorView, CopyView
  <2>10. Linked'
    BY <2>1, <2>3, <2>6 DEF Linked
  <2>11. Counted'
    BY <2>1, <2>2 DEF Counted, Asked, Rename
  <2> QED
    BY <2>4, <2>7, <2>8, <2>9, <2>10, <2>11 DEF IndInv, Core
<1>14. ASSUME RotationDone PROVE IndInv'
  <2>1. /\ rpc = "retained" /\ rpc' = (IF ordinal = Rotations THEN "done" ELSE "poll")
        /\ Log("retention-complete") /\ ordinal' = ordinal + 1
        /\ UNCHANGED <<config, dir, data, inodes, http, served, copied>>
    BY <1>14 DEF RotationDone, hostVars
  <2>2. ordinal \in 1..Rotations /\ ordinal \in Names /\ Active \in Names /\ ordinal # Active
    BY <2>1, OrdinalInRange
  <2>3. RotatorTypeOK'
    BY <1>t, <2>1, <2>2, LogFacts, HostAssumption
    DEF RotatorTypeOK, RotatorPCs, Rotating, Phases
  <2>4. TypeOK'
    BY <1>14, <2>3, HostQuietType DEF RotationDone
  <2>5. (Startup /\ Fresh /\ OneRequest /\ OldFileOpen)'
    BY <2>1 DEF Startup, Fresh, OneRequest, OldFileOpen
  <2>6. Ordinals'
    BY <2>1, <2>2, HostAssumption DEF Ordinals, Names
  <2>7. (Pending /\ RotatorView /\ CopyView)'
    BY <2>1 DEF Pending, UnderWay, EmptyReplacement, RotatorView, CopyView
  <2>8. Linked'
    <3>1. ordinal' - 1 = ordinal /\ ordinal' > 1
      BY <2>1, <2>2
    <3> QED
      BY <2>1, <3>1 DEF Linked
  <2>9. Counted'
    BY <2>1, <2>2 DEF Counted, Asked, Rename
  <2> QED
    BY <2>4, <2>5, <2>6, <2>7, <2>8, <2>9 DEF IndInv, Core
<1>15. ASSUME RotationFailed PROVE IndInv'
  <2>1. /\ rpc \in Rotating /\ rpc' = "failed" /\ Log("rotation-failed")
        /\ UNCHANGED <<config, dir, data, inodes, http, served, ordinal, copied>>
    BY <1>15 DEF RotationFailed, Fails, Rotating, hostVars
  <2>2. ordinal \in Names /\ Active \in Names
    BY <2>1, OrdinalInRange DEF Rotating
  <2>3. RotatorTypeOK'
    BY <1>t, <2>1, LogFacts DEF RotatorTypeOK, RotatorPCs, Rotating, Phases
  <2>4. TypeOK'
    BY <1>15, <2>3, HostQuietType DEF RotationFailed
  <2>5. (Startup /\ Ordinals /\ Fresh /\ OneRequest /\ OldFileOpen)'
    BY <2>1 DEF Startup, Ordinals, Fresh, OneRequest, OldFileOpen, Rotating
  <2>6. (Pending /\ RotatorView /\ CopyView /\ Linked /\ Counted)'
    BY <2>1, <2>2
    DEF Pending, UnderWay, EmptyReplacement, RotatorView, CopyView, Linked,
        Counted, Rotating, Rename
  <2> QED
    BY <2>4, <2>5, <2>6 DEF IndInv, Core
<1>16. ASSUME PollFailed PROVE IndInv'
  <2>1. /\ rpc = "poll" /\ rpc' = "failed"
        /\ UNCHANGED <<config, dir, data, inodes, http, served, ordinal, copied, events>>
    BY <1>16 DEF PollFailed, hostVars
  <2>2. ordinal \in 1..Rotations /\ Active \in Names /\ (ordinal > 1 => ordinal - 1 \in Names)
    BY <2>1, OrdinalInRange, HostAssumption DEF Names
  <2>3. TypeOK'
    BY <1>16, <1>t, <2>1, HostQuietType DEF PollFailed, RotatorTypeOK, RotatorPCs
  <2>4. (Startup /\ Ordinals /\ Fresh /\ OneRequest /\ OldFileOpen)'
    BY <2>1 DEF Startup, Ordinals, Fresh, OneRequest, OldFileOpen
  <2>5. (Pending /\ RotatorView /\ CopyView /\ Linked /\ Counted)'
    BY <2>1, <2>2
    DEF Pending, UnderWay, EmptyReplacement, RotatorView, CopyView, Linked, Counted, Rename
  <2> QED
    BY <2>3, <2>4, <2>5 DEF IndInv, Core
<1> QED
  BY <1>1, <1>2, <1>3, <1>4, <1>5, <1>6, <1>7, <1>8, <1>9, <1>10, <1>11, <1>12,
     <1>13, <1>14, <1>15, <1>16
  DEF RotatorNext

-----------------------------------------------------------------------------
(* The harness's steps and the death of the writer preserve the invariant. *)
LEMMA HarnessPreserves ==
  ASSUME IndInv, HarnessNext
  PROVE  IndInv'
<1>0. /\ TypeOK
      /\ Startup /\ Ordinals /\ Fresh /\ Pending /\ OneRequest /\ OldFileOpen
      /\ RotatorView /\ CopyView /\ Linked /\ Counted
  BY DEF IndInv, Core
<1>t. RotatorTypeOK /\ HostTypeOK /\ WriterTypeOK
  BY <1>0 DEF TypeOK
<1> USE <1>0 DEF Exists
(* Most steps touch only hpc, stopping and summary. *)
<1>q. ASSUME UNCHANGED <<hostVars, wpc, fd, generated, flushed, off, reopen,
                         reopenRequests, reopenFailures, werr, stateFile, rotatorVars>>,
             stopping' \in BOOLEAN, hpc' \in HarnessPCs \ {"start", "health"},
             summary' \in {"none", "pass", "fail"},
             wpc \in {"off", "start"} => hpc' = "abort"
      PROVE  IndInv'
  <2>1. TypeOK'
    BY <1>t, <1>q
    DEF TypeOK, HostTypeOK, WriterTypeOK, RotatorTypeOK, hostVars, rotatorVars
  <2>2. (Startup /\ Ordinals /\ Fresh /\ Pending /\ OneRequest /\ OldFileOpen)'
    BY <1>q
    DEF Startup, Ordinals, Fresh, Pending, UnderWay, EmptyReplacement, OneRequest,
        OldFileOpen, hostVars, rotatorVars
  <2>3. (RotatorView /\ CopyView /\ Linked /\ Counted)'
    BY <1>q
    DEF RotatorView, EmptyReplacement, CopyView, CopyIsPrefix, Size, Linked, Counted,
        Asked, Rename, hostVars, rotatorVars
  <2> QED
    BY <2>1, <2>2, <2>3 DEF IndInv, Core
<1>1. ASSUME StartWriter PROVE IndInv'
  <2>1. /\ hpc = "start" /\ hpc' = "health" /\ wpc' = "start" /\ wpc = "off" /\ rpc = "off"
        /\ UNCHANGED <<hostVars, fd, generated, flushed, off, reopen,
                       reopenRequests, reopenFailures, stopping, werr, stateFile,
                       rotatorVars, summary>>
    BY <1>1 DEF StartWriter, Startup
  <2>2. TypeOK'
    BY <1>t, <2>1
    DEF TypeOK, HostTypeOK, WriterTypeOK, RotatorTypeOK, hostVars, rotatorVars,
        WriterPCs, HarnessPCs
  <2>3. (Startup /\ Ordinals /\ Fresh /\ Pending /\ OneRequest /\ OldFileOpen)'
    BY <2>1
    DEF Startup, Ordinals, Fresh, Pending, UnderWay, EmptyReplacement, OneRequest,
        OldFileOpen, hostVars, rotatorVars
  <2>4. (RotatorView /\ CopyView /\ Linked /\ Counted)'
    BY <2>1
    DEF RotatorView, EmptyReplacement, CopyView, Linked, Counted, Asked, Rename,
        hostVars, rotatorVars
  <2> QED
    BY <2>2, <2>3, <2>4 DEF IndInv, Core
<1>2. ASSUME Healthy PROVE IndInv'
  <2>1. /\ hpc = "health" /\ served /\ hpc' = "wait" /\ rpc' = "poll" /\ rpc = "off"
        /\ UNCHANGED <<hostVars, writerVars, ordinal, copied, events, summary>>
    BY <1>2 DEF Healthy, Startup
  <2>2. TypeOK'
    BY <1>t, <2>1
    DEF TypeOK, HostTypeOK, WriterTypeOK, RotatorTypeOK, hostVars, writerVars,
        RotatorPCs, HarnessPCs
  <2>3. (Startup /\ Ordinals /\ Fresh /\ Pending /\ OneRequest /\ OldFileOpen)'
    BY <2>1
    DEF Startup, Ordinals, Fresh, Pending, UnderWay, EmptyReplacement, OneRequest,
        OldFileOpen, hostVars, writerVars
  <2>4. (RotatorView /\ CopyView /\ Linked /\ Counted)'
    BY <2>1
    DEF RotatorView, CopyView, Linked, Counted, Asked, Rename, Ordinals,
        hostVars, writerVars
  <2> QED
    BY <2>2, <2>3, <2>4 DEF IndInv, Core
<1>3. ASSUME StartupFailed PROVE IndInv'
  BY <1>3, <1>q, <1>t DEF StartupFailed, HarnessPCs, TypeOK
<1>4. ASSUME Aborted PROVE IndInv'
  BY <1>4, <1>q, <1>t
  DEF Aborted, HarnessPCs, TypeOK, writerVars, WriterTypeOK, WriterGone
<1>5. ASSUME RotatorReaped PROVE IndInv'
  BY <1>5, <1>q, <1>t DEF RotatorReaped, HarnessPCs, TypeOK, WriterTypeOK, Startup
<1>6. ASSUME Cancel PROVE IndInv'
  <2>1. /\ hpc = "wait" /\ hpc' = "stop" /\ rpc' = "killed" /\ stopping' = TRUE
        /\ UNCHANGED <<hostVars, wpc, fd, generated, flushed, off, reopen,
                       reopenRequests, reopenFailures, werr, stateFile,
                       ordinal, copied, events, summary>>
    BY <1>6 DEF Cancel
  <2>2. TypeOK'
    BY <1>t, <2>1
    DEF TypeOK, HostTypeOK, WriterTypeOK, RotatorTypeOK, hostVars, RotatorPCs, HarnessPCs
  <2>3. (Startup /\ Ordinals /\ Fresh /\ Pending /\ OneRequest /\ OldFileOpen)'
    BY <2>1
    DEF Startup, Ordinals, Fresh, Pending, UnderWay, EmptyReplacement, OneRequest,
        OldFileOpen, hostVars
  <2>4. /\ Active \in Names
        /\ rpc \notin {"done", "killed"} => ordinal \in Names
        /\ ordinal > 1 => ordinal - 1 \in Names
    BY <1>t, HostAssumption, OrdinalInRange DEF Names, Active, RotatorTypeOK
  <2>5. fd # None => \E n \in Names : fd = dir[n]
    BY <2>4 DEF Linked
  <2>6. (RotatorView /\ CopyView /\ Linked /\ Counted)'
    BY <2>1, <2>5 DEF RotatorView, CopyView, Linked, Counted, Rename, hostVars
  <2> QED
    BY <2>2, <2>3, <2>6 DEF IndInv, Core
<1>7. ASSUME ReopensAwaited PROVE IndInv'
  BY <1>7, <1>q, <1>t DEF ReopensAwaited, HarnessPCs, TypeOK, Startup
<1>8. ASSUME WriterReaped PROVE IndInv'
  BY <1>8, <1>q, <1>t
  DEF WriterReaped, HarnessPCs, TypeOK, writerVars, WriterTypeOK, WriterGone
<1>9. ASSUME Collect PROVE IndInv'
  BY <1>9, <1>q, <1>t
  DEF Collect, HarnessPCs, TypeOK, writerVars, WriterTypeOK, Startup
<1> QED
  BY <1>1, <1>2, <1>3, <1>4, <1>5, <1>6, <1>7, <1>8, <1>9 DEF HarnessNext

(* The writer's death by SIGKILL preserves the invariant. *)
LEMMA WriterKilledPreserves ==
  ASSUME IndInv, WriterKilled
  PROVE  IndInv'
<1>0. TypeOK /\ Core
  BY DEF IndInv
<1>1. UNCHANGED <<rotatorVars, harnessVars>> /\ config' = config
  BY DEF WriterKilled
<1>2. TypeOK'
  BY <1>0 DEF TypeOK, HostTypeOK, WriterTypeOK, RotatorTypeOK, WriterKilled, WriterPCs,
     rotatorVars, harnessVars
<1>3. Closes
  BY DEF WriterKilled, Closes, Running, WriterPCs
<1> QED
  BY <1>0, <1>1, <1>2, <1>3, WriterPreservesCore DEF WriterEffect, IndInv

(* The invariant holds when harness.Run begins. *)
LEMMA InitEstablishes == LabInit => IndInv
<1> SUFFICES ASSUME LabInit PROVE IndInv
  OBVIOUS
<1> USE HostAssumption DEF LabInit, HostInit, WriterInit, RotatorInit
<1>1. TypeOK
  <2>1. HostTypeOK
    <3>1. <<>> \in Seq(Unit)
      OBVIOUS
    <3>2. data \in [Inodes -> Seq(Unit)]
      BY <3>1
    <3>3. dir \in [Names -> inodes \cup {None}]
      OBVIOUS
    <3> QED
      BY <3>2, <3>3 DEF HostTypeOK, HttpStates
  <2>2. WriterTypeOK
    BY DEF WriterTypeOK, WriterPCs
  <2>3. RotatorTypeOK
    BY DEF RotatorTypeOK, RotatorPCs
  <2> QED
    BY <2>1, <2>2, <2>3 DEF TypeOK, HarnessPCs
<1>2. Core
  BY DEF Core, Startup, Ordinals, Fresh, Pending, UnderWay, OneRequest, OldFileOpen,
     RotatorView, CopyView, Linked, Counted, Asked
<1> QED
  BY <1>1, <1>2 DEF IndInv

(* Every step of the lab preserves the invariant. *)
LEMMA NextPreserves == IndInv /\ [Next]_vars => IndInv'
<1> SUFFICES ASSUME IndInv, [Next]_vars PROVE IndInv'
  OBVIOUS
<1>1. CASE GoNext /\ UNCHANGED <<rotatorVars, harnessVars>>
  BY <1>1, GoStepFacts, WriterPreservesCore DEF IndInv
<1>2. CASE CppNext /\ UNCHANGED <<rotatorVars, harnessVars>>
  BY <1>2, CppStepFacts, WriterPreservesCore DEF IndInv
<1>3. CASE RotatorNext /\ UNCHANGED <<writerVars, harnessVars>>
  BY <1>3, RotatorPreserves
<1>4. CASE HarnessNext
  BY <1>4, HarnessPreserves
<1>5. CASE WriterKilled
  BY <1>5, WriterKilledPreserves
<1>6. CASE UNCHANGED vars
  BY <1>6
  DEF vars, hostVars, writerVars, rotatorVars, harnessVars, IndInv, TypeOK,
      HostTypeOK, WriterTypeOK, RotatorTypeOK, Core, Startup, Ordinals, Fresh,
      Pending, UnderWay, EmptyReplacement, OneRequest, OldFileOpen, RotatorView,
      CopyView, CopyIsPrefix, Size, Exists, Linked, Counted, Asked, Rename
<1> QED
  BY <1>1, <1>2, <1>3, <1>4, <1>5, <1>6 DEF Next, Returned

(* The invariant holds in every state of every run. *)
LEMMA Inductive == Spec => []IndInv
BY InitEstablishes, NextPreserves, PTL DEF Spec

-----------------------------------------------------------------------------
(* The variables of the harness, the rotator, the writers and the file     *)
(* system keep their types in every run.                                   *)
THEOREM TypeCorrect == Spec => []TypeOK
BY Inductive, PTL DEF IndInv

(* A rename-reopen rotator never gets the writer's 503: no second reopen   *)
(* is requested while one is queued, whatever fails and however slow the   *)
(* writer is.                                                              *)
THEOREM ReopenQueueNeverFull == Spec => []ReopenNeverRefused
<1>1. IndInv => ReopenNeverRefused
  BY DEF IndInv, Core, OneRequest, ReopenNeverRefused
<1> QED
  BY <1>1, Inductive, PTL

(* The O_EXCL creation of the replacement log never finds the name taken:  *)
(* no reopen of the writer falls between rename and creation.              *)
THEOREM NoReopenInRenameWindow == Spec => []ReplacementPathFree
<1>1. IndInv => ReplacementPathFree
  BY DEF IndInv, Core, RotatorView, ReplacementPathFree
<1> QED
  BY <1>1, Inductive, PTL

(* Rotation k of a rename-reopen run starts with exactly k-1 reopens taken *)
(* by the writer and none outstanding.                                     *)
THEOREM RotationsFollowReopens == Spec => []NextRotationWaitsForReopen
<1>1. IndInv => NextRotationWaitsForReopen
  <2> SUFFICES ASSUME IndInv, Rename, rpc \in {"rotate", "rename", "create", "request"}
               PROVE  reopenRequests = ordinal - 1 /\ ~reopen /\ wpc # "open"
    BY DEF NextRotationWaitsForReopen
  <2>1. ~UnderWay
    BY DEF IndInv, Core, Pending
  <2>2. Asked = ordinal - 1
    BY DEF IndInv, Core, Counted
  <2> QED
    BY <2>1, <2>2 DEF UnderWay, Asked, IndInv, TypeOK, WriterTypeOK
<1> QED
  BY <1>1, Inductive, PTL

(* The file that is open has a name, wherever the rotation is.             *)
LEMMA OpenFileHasName == IndInv => OpenFileStaysLinked
<1> SUFFICES ASSUME IndInv, fd # None PROVE \E n \in Names : dir[n] = fd
  BY DEF OpenFileStaysLinked
<1>1. TypeOK /\ Ordinals /\ Linked /\ RotatorTypeOK
  BY DEF IndInv, Core, TypeOK
<1>2. /\ Active \in Names
      /\ rpc \notin {"done", "killed"} => ordinal \in Names
      /\ ordinal > 1 => ordinal - 1 \in Names
  BY <1>1, HostAssumption, OrdinalInRange DEF Names, Active, RotatorTypeOK
<1> QED
  BY <1>1, <1>2 DEF Linked

(* No rotation and no retention, with any number of backups kept, unlinks  *)
(* the file the writer is writing to.                                      *)
THEOREM WriterNeverWritesUnlinked == Spec => []OpenFileStaysLinked
BY OpenFileHasName, Inductive, PTL

(* Copytruncate's backup is at every moment a prefix of the active log,    *)
(* although the writer appends while it is copied.                         *)
THEOREM BackupIsPrefix == Spec => []CopyIsPrefix
<1>1. IndInv => CopyIsPrefix
  BY DEF IndInv, Core, CopyView, CopyIsPrefix
<1> QED
  BY <1>1, Inductive, PTL

(* Truncating loses only what arrived after the copy read end of file:     *)
(* every copied unit is in the backup when the truncate is done.           *)
THEOREM TruncateKeepsCopied == Spec => CopiedUnitsSurvive
<1>1. ASSUME IndInv, [Next]_vars, rpc = "truncate", rpc' = "retention",
             NEW i \in 1..copied
      PROVE  \E j \in DOMAIN data'[dir'[ordinal]] :
                data'[dir'[ordinal]][j] = data[dir[Active]][i]
  <2>1. Truncate
    <3>1. RotatorNext
      BY <1>1
      DEF Next, Returned, vars, rotatorVars, HarnessNext, StartWriter, Healthy,
          StartupFailed, Aborted, RotatorReaped, Cancel, ReopensAwaited,
          WriterReaped, Collect, WriterKilled
    <3> QED
      BY <1>1, <3>1
      DEF RotatorNext, PollAgain, rotatorVars, BaselineComplete, PollFull, RotateOnce,
          CopyStart, CopyChunk, CopySync, RenameActive, CreateReplacement,
          RequestReopen, ReopenQueued, EnforceRetention, RotationDone,
          RotationFailed, PollFailed
  <2>2. /\ dir' = dir /\ data' = [data EXCEPT ![dir[Active]] = <<>>]
    BY <2>1 DEF Truncate
  <2>3. TypeOK /\ Ordinals /\ CopyView /\ RotatorView /\ HostTypeOK /\ RotatorTypeOK
    BY <1>1 DEF IndInv, Core, TypeOK
  <2>4. ordinal \in Names /\ Active \in Names
    BY <1>1, <2>3, OrdinalInRange
  <2>5. /\ dir[ordinal] \in Inodes /\ dir[Active] \in Inodes /\ dir[ordinal] # dir[Active]
        /\ copied <= Len(data[dir[Active]]) /\ copied \in Nat
        /\ data[dir[ordinal]] = SubSeq(data[dir[Active]], 1, copied)
    BY <1>1, <2>3, <2>4
    DEF CopyView, CopyIsPrefix, RotatorView, HostTypeOK, RotatorTypeOK, Exists, Size
  <2>6. data'[dir'[ordinal]] = SubSeq(data[dir[Active]], 1, copied)
    BY <2>2, <2>3, <2>5 DEF HostTypeOK
  <2>7. data[dir[Active]] \in Seq(Unit)
    BY <2>3, <2>5 DEF HostTypeOK
  <2>8. /\ i \in DOMAIN SubSeq(data[dir[Active]], 1, copied)
        /\ SubSeq(data[dir[Active]], 1, copied)[i] = data[dir[Active]][i]
    BY <2>5, <2>7
  <2> QED
    BY <2>6, <2>8
<1>2. IndInv /\ [Next]_vars
        => [rpc = "truncate" /\ rpc' = "retention"
              => \A i \in 1..copied :
                   \E j \in DOMAIN data'[dir'[ordinal]] :
                      data'[dir'[ordinal]][j] = data[dir[Active]][i]]_vars
  BY <1>1
<1> QED
  BY <1>2, Inductive, PTL DEF Spec, CopiedUnitsSurvive

(***************************************************************************)
(* How the processes of a run end: harness.Run leaves no child behind, and *)
(* a writer whose exit status is zero has written all it generated.        *)
(***************************************************************************)

(* How far the harness is bounds what the children can still be doing: the *)
(* rotator is started once the writer is healthy and has ended, or been    *)
(* killed, when the harness stops the writer; the writer is reaped before  *)
(* anything is read.                                                       *)
ChildrenFollow ==
  /\ hpc \in {"start", "health", "abort"} => rpc = "off"
  /\ hpc \in {"reopens", "stop", "collect", "done"} => RotatorExited
  /\ hpc = "error" => RotatorExited \/ rpc = "off"
  /\ hpc \in {"collect", "done", "error"} => WriterGone

(* Unless an error is to be reported, the writer closes its log only when  *)
(* its buffer is empty; no flush writes more than was generated.           *)
BufferDrained ==
  /\ flushed <= generated * RecordBytes
  /\ wpc \in {"close", "exited"} /\ ~werr => flushed = generated * RecordBytes
  /\ wpc = "exited" /\ ~werr => stateFile

EndInv == IndInv /\ ChildrenFollow /\ BufferDrained

(* The units generated are counted in whole numbers.                       *)
LEMMA GeneratedUnits ==
  ASSUME TypeOK, NEW n \in Nat
  PROVE  /\ generated * RecordBytes \in Nat /\ n * RecordBytes \in Nat
         /\ (generated + n) * RecordBytes = generated * RecordBytes + n * RecordBytes
         /\ flushed \in Nat /\ generated \in Nat /\ off \in Nat
         /\ Buffered = generated * RecordBytes - flushed
<1>1. generated \in Nat /\ flushed \in Nat /\ off \in Nat /\ RecordBytes \in Nat
  BY HostAssumption DEF TypeOK, WriterTypeOK
<1> QED
  BY <1>1 DEF Buffered

(* A step of either writer keeps what it has to write.                     *)
LEMMA WriterDrains ==
  ASSUME TypeOK, BufferDrained, GoNext \/ CppNext
  PROVE  BufferDrained'
<1> DEFINE total == generated * RecordBytes
<1>0. /\ total \in Nat /\ flushed \in Nat /\ off \in Nat /\ generated \in Nat
      /\ Buffered = total - flushed /\ flushed <= total
  BY GeneratedUnits DEF BufferDrained
<1>g. ASSUME NEW n \in Nat, generated' = generated + n
      PROVE  generated' * RecordBytes >= total /\ generated' * RecordBytes \in Nat
  <2>1. (generated + n) * RecordBytes = total + n * RecordBytes /\ n * RecordBytes \in Nat
    BY GeneratedUnits
  <2> HIDE DEF total
  <2> QED
    BY <1>0, <1>g, <2>1
<1> HIDE DEF total
<1>1. ASSUME UNCHANGED <<generated, flushed>>,
             wpc' \notin {"close", "exited"} \/ werr' \/ (wpc' = "close" /\ flushed = total)
      PROVE  BufferDrained'
  BY <1>0, <1>1 DEF BufferDrained, total
<1>2. ASSUME NEW n \in Nat, generated' = generated + n, flushed' = flushed,
             wpc' \notin {"close", "exited"} \/ werr'
      PROVE  BufferDrained'
  BY <1>0, <1>2, <1>g DEF BufferDrained
<1>3. ASSUME NEW n, NEW after, WriteUnits(n, after), wpc \in {"flush", "final"},
             after \in {"loop", "close"}
      PROVE  BufferDrained'
  <2>1. generated' = generated
    BY <1>3 DEF WriteUnits
  <2>2. CASE n = Buffered - off
    <3>1. flushed' = flushed + Buffered /\ wpc' = after
      BY <1>3, <2>2 DEF WriteUnits
    <3>2. flushed' = total
      BY <1>0, <3>1
    <3> QED
      BY <1>0, <1>3, <2>1, <3>1, <3>2 DEF BufferDrained, total
  <2>3. CASE n # Buffered - off
    <3>1. flushed' = flushed /\ wpc' = wpc
      BY <1>3, <2>3 DEF WriteUnits
    <3> QED
      BY <1>0, <1>1, <1>3, <2>1, <3>1
  <2> QED
    BY <2>2, <2>3
<1>4. ASSUME \/ Start
             \/ wpc' \in {"flush", "loop"} /\ UNCHANGED <<generated, flushed>>
      PROVE  BufferDrained'
  BY <1>1, <1>4 DEF Start
<1>5. ASSUME HandleReopen PROVE BufferDrained'
  BY <1>5 DEF HandleReopen, BufferDrained
<1>6. ASSUME StartFailure PROVE BufferDrained'
  BY <1>1, <1>6 DEF StartFailure
<1>7. ASSUME Exit PROVE BufferDrained'
  <2>1. PICK closed \in BOOLEAN, saved \in BOOLEAN :
          werr' = (werr \/ ~closed \/ ~saved) /\ stateFile' = saved
    BY <1>7 DEF Exit, Outcome
  <2>2. ~werr' => ~werr /\ stateFile'
    BY <2>1
  <2> QED
    BY <1>7, <2>2 DEF Exit, BufferDrained
<1>8. ~(Buffered > 0) => flushed = total
  BY <1>0
<1>9. CASE GoNext
  <2>1. CASE GoStart \/ GoStartFailure \/ GoHandleReopen \/ GoExit
    <3>1. Start \/ StartFailure \/ HandleReopen \/ Exit
      BY <2>1 DEF GoStart, GoStartFailure, GoHandleReopen, GoExit
    <3> QED
      BY <1>4, <1>5, <1>6, <1>7, <3>1
  <2>2. CASE GoStop
    BY <1>1, <1>8, <2>2 DEF GoStop, GoFinish
  <2>3. ASSUME NEW n \in 1..Burst, GoTick(n) PROVE BufferDrained'
    BY <1>2, <2>3, HostAssumption DEF GoTick
  <2>4. CASE GoEncodeError
    BY <1>0, <1>2, <2>4 DEF GoEncodeError
  <2>5. CASE GoFlushTick \/ GoReopen
    BY <1>1, <2>5 DEF GoFlushTick, GoReopen, TakeReopen
  <2>6. CASE GoOpen
    BY <1>4, <2>6 DEF GoOpen
  <2>7. CASE GoReopenError \/ GoWriteError
    BY <1>1, <2>7 DEF GoReopenError, GoWriteError
  <2>8. ASSUME NEW n \in 1..FileCap, GoWrite(n) PROVE BufferDrained'
    BY <1>3, <2>8 DEF GoWrite
  <2> QED
    BY <1>9, <2>1, <2>2, <2>3, <2>4, <2>5, <2>6, <2>7, <2>8 DEF GoNext
<1>10. CASE CppNext
  <2>1. CASE CppStart \/ CppStartFailure \/ CppHandleReopen \/ CppExit
    <3>1. Start \/ StartFailure \/ HandleReopen \/ Exit
      BY <2>1 DEF CppStart, CppStartFailure, CppHandleReopen, CppExit
    <3> QED
      BY <1>4, <1>5, <1>6, <1>7, <3>1
  <2>2. CASE CppBegin
    BY <1>1, <2>2 DEF CppBegin
  <2>3. ASSUME NEW n \in 0..Burst, NEW elapsed \in BOOLEAN, CppTick(n, elapsed)
        PROVE  BufferDrained'
    <3>1. wpc' \in {"open", "flush", "loop"} /\ generated' = generated + n /\ flushed' = flushed
      BY <2>3 DEF CppTick, TakeReopen
    <3>2. n \in Nat
      BY HostAssumption
    <3> QED
      BY <1>2, <3>1, <3>2
  <2>4. CASE CppOpen
    BY <1>4, <2>4 DEF CppOpen
  <2>5. CASE CppReopenError \/ CppWriteError
    BY <1>1, <2>5 DEF CppReopenError, CppWriteError
  <2>6. ASSUME NEW n \in 1..FileCap, CppWrite(n) PROVE BufferDrained'
    BY <1>3, <2>6 DEF CppWrite
  <2>7. CASE CppStop
    BY <1>1, <1>8, <2>7 DEF CppStop
  <2> QED
    BY <1>10, <2>1, <2>2, <2>3, <2>4, <2>5, <2>6, <2>7 DEF CppNext
<1> QED
  BY <1>9, <1>10

(* The harness, the rotator and a kill do not touch the buffer.            *)
LEMMA OthersDrain ==
  ASSUME BufferDrained,
         \/ UNCHANGED writerVars
         \/ StartWriter \/ StartupFailed \/ RotatorReaped \/ Cancel \/ ReopensAwaited
         \/ WriterKilled
  PROVE  BufferDrained'
BY DEF writerVars, StartWriter, StartupFailed, RotatorReaped, Cancel, ReopensAwaited,
       WriterKilled, BufferDrained

(* A writer that is gone stays gone: none of its steps is taken then.      *)
LEMMA GoneStays ==
  ASSUME GoNext \/ CppNext \/ WriterKilled, WriterGone
  PROVE  WriterGone'
<1> USE DEF WriterGone
<1>1. CASE GoNext
  BY <1>1
  DEF GoNext, GoStart, GoStartFailure, GoHandleReopen, GoStop, GoTick, GoEncodeError,
      GoFlushTick, GoReopen, GoOpen, GoReopenError, GoWrite, GoWriteError, GoExit, Start,
      StartFailure, HandleReopen, Exit
<1>2. CASE CppNext
  BY <1>2
  DEF CppNext, CppStart, CppStartFailure, CppHandleReopen, CppBegin, CppTick, CppOpen,
      CppReopenError, CppWrite, CppWriteError, CppStop, CppExit, Start, StartFailure,
      HandleReopen, Exit
<1>3. CASE WriterKilled
  BY <1>3 DEF WriterKilled
<1> QED
  BY <1>1, <1>2, <1>3

(* The rotator's own steps are those of a rotator that is running.         *)
LEMMA RotatorRuns ==
  ASSUME RotatorNext
  PROVE  rpc # "off" /\ ~RotatorExited
BY DEF RotatorNext, PollAgain, BaselineComplete, PollFull, RotateOnce, CopyStart, CopyChunk,
       CopySync, Truncate, RenameActive, CreateReplacement, RequestReopen, ReopenQueued,
       EnforceRetention, RotationDone, RotationFailed, Fails, Rotating, PollFailed,
       RotatorExited

(* Every step keeps the children within what the harness has got to.       *)
LEMMA ChildrenKeepFollowing ==
  ASSUME IndInv, ChildrenFollow, [Next]_vars
  PROVE  ChildrenFollow'
<1> USE DEF ChildrenFollow, WriterGone, RotatorExited
<1>1. CASE (GoNext \/ CppNext \/ WriterKilled) /\ UNCHANGED <<rotatorVars, harnessVars>>
  BY <1>1, GoneStays DEF rotatorVars, harnessVars
<1>2. CASE RotatorNext /\ UNCHANGED <<writerVars, harnessVars>>
  BY <1>2, RotatorRuns DEF writerVars, harnessVars
<1>3. CASE StartWriter
  BY <1>3 DEF StartWriter, rotatorVars
<1>4. CASE Healthy
  BY <1>4 DEF Healthy, writerVars
<1>5. CASE StartupFailed
  BY <1>5 DEF StartupFailed, rotatorVars
<1>6. CASE Aborted
  BY <1>6 DEF Aborted, writerVars, rotatorVars
<1>7. CASE RotatorReaped
  BY <1>7 DEF RotatorReaped, rotatorVars
<1>8. CASE Cancel
  BY <1>8 DEF Cancel
<1>9. CASE ReopensAwaited
  BY <1>9 DEF ReopensAwaited, rotatorVars
<1>10. CASE WriterReaped
  BY <1>10 DEF WriterReaped, writerVars, rotatorVars
<1>11. CASE Collect
  BY <1>11 DEF Collect, writerVars, rotatorVars
<1>12. CASE UNCHANGED vars
  BY <1>12 DEF vars, writerVars, rotatorVars, harnessVars
<1> QED
  BY <1>1, <1>2, <1>3, <1>4, <1>5, <1>6, <1>7, <1>8, <1>9, <1>10, <1>11, <1>12
  DEF Next, HarnessNext, Returned, WriterKilled

(* The strengthened invariant holds at first and is kept by every step.    *)
LEMMA EndInductive == Spec => []EndInv
<1>1. LabInit => EndInv
  <2> SUFFICES ASSUME LabInit PROVE EndInv
    OBVIOUS
  <2>1. IndInv
    BY InitEstablishes
  <2>2. ChildrenFollow
    BY DEF LabInit, RotatorInit, ChildrenFollow
  <2>3. BufferDrained
    BY HostAssumption DEF LabInit, WriterInit, BufferDrained
  <2> QED
    BY <2>1, <2>2, <2>3 DEF EndInv
<1>2. EndInv /\ [Next]_vars => EndInv'
  <2> SUFFICES ASSUME EndInv, [Next]_vars PROVE EndInv'
    OBVIOUS
  <2>1. IndInv /\ IndInv' /\ TypeOK
    BY NextPreserves DEF EndInv, IndInv
  <2>2. ChildrenFollow'
    BY <2>1, ChildrenKeepFollowing DEF EndInv
  <2>3. BufferDrained'
    <3>1. CASE GoNext \/ CppNext
      BY <2>1, <3>1, WriterDrains DEF EndInv
    <3>2. CASE ~(GoNext \/ CppNext)
      BY <3>2, OthersDrain
      DEF EndInv, Next, HarnessNext, Healthy, Aborted, WriterReaped, Collect, Returned, vars
    <3> QED
      BY <3>1, <3>2
  <2> QED
    BY <2>1, <2>2, <2>3 DEF EndInv
<1> QED
  BY <1>1, <1>2, PTL DEF Spec

-----------------------------------------------------------------------------
(* harness.Run returns, with a summary or an error, only when the writer   *)
(* and the rotator have been reaped.                                       *)
THEOREM NoChildLeft == Spec => []ChildrenReaped
<1>1. EndInv => ChildrenReaped
  BY DEF EndInv, ChildrenFollow, ChildrenReaped
<1> QED
  BY <1>1, EndInductive, PTL

(* A writer of either kind exits with status zero only when every unit of  *)
(* every record has been written and its state is saved, for any record,   *)
(* buffer and file sizes and any short writes.                             *)
THEOREM ZeroStatusWroteEverything == Spec => []CleanExitWroteEverything
<1>1. EndInv => CleanExitWroteEverything
  BY DEF EndInv, BufferDrained, CleanExitWroteEverything
<1> QED
  BY <1>1, EndInductive, PTL
=============================================================================
