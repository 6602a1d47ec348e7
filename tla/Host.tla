-------------------------------- MODULE Host --------------------------------
(***************************************************************************)
(* What the operating system keeps for one run of the lab: the log         *)
(* directory, the files behind its names, and the loopback HTTP exchange   *)
(* between the rotator and the writer.  None of it is code of the          *)
(* repository; it is modelled from the calls the repository makes.         *)
(*                                                                         *)
(* File contents are sequences of "units" of the record stream.  Record s  *)
(* of the run is the units (s-1)*RecordBytes+1 .. s*RecordBytes: the first *)
(* unit is the run id and its space, the second the 20-digit sequence      *)
(* number and its space, the rest is the payload, whose last unit holds    *)
(* the newline (internal/record/record.go, Encode).                        *)
(***************************************************************************)
EXTENDS Integers, Sequences, FiniteSets

CONSTANTS
  Configs,       \* the command lines to run: strategy, writer, maxBackups
  Rotations,     \* --rotations
  MaxFileBytes,  \* --max-file-bytes, in units
  RecordBytes,   \* --record-bytes, in units
  BufferBytes,   \* --buffer-bytes, in units
  Inodes, None,  \* files, and the absence of one
  Faults,        \* the classes of failure that may happen in this run
  Burst,         \* bound: records generated in one tick
  FileCap        \* bound: units in the open file and the buffer together

Strategies == {"baseline", "copytruncate", "rename-reopen"}
Writers    == {"go", "cpp"}

ASSUME HostAssumption ==
  /\ Rotations \in Nat \ {0}
  /\ MaxFileBytes \in Nat \ {0}
  /\ RecordBytes \in Nat /\ RecordBytes >= 3
  /\ BufferBytes \in Nat \ {0}
  /\ Burst \in Nat \ {0}
  /\ FileCap \in Nat
  /\ None \notin Inodes
  /\ Configs \subseteq [strategy : Strategies, writer : Writers, maxBackups : Nat]

VARIABLES
  config,  \* the run's command line, chosen once
  dir,     \* name -> file: name 0 is the active log, k is backup k
  data,    \* file -> contents
  inodes,  \* the files created so far
  http,    \* the POST /reopen-logs exchange, as its client sees it
  served   \* TRUE while the writer's HTTP server accepts connections

hostVars == <<config, dir, data, inodes, http, served>>

Active == 0
Names  == 0..Rotations
Unit   == Nat \ {0}

HttpStates == {"idle", "sent", "ok", "busy"}

HostTypeOK ==
  /\ config \in Configs
  /\ dir \in [Names -> inodes \cup {None}]
  /\ data \in [Inodes -> Seq(Unit)]
  /\ inodes \subseteq Inodes
  /\ http \in HttpStates
  /\ served \in BOOLEAN

HostInit ==
  /\ config \in Configs
  /\ dir = [n \in Names |-> None]
  /\ data = [i \in Inodes |-> <<>>]
  /\ inodes = {}
  /\ http = "idle"
  /\ served = FALSE

Rename   == config.strategy = "rename-reopen"
Copy     == config.strategy = "copytruncate"
Baseline == config.strategy = "baseline"

(* Size of a name, as os.Stat reports it; an absent name has none. *)
Exists(n) == dir[n] # None
Size(n)   == Len(data[dir[n]])

(* The next file the file system hands out. *)
FreshInode == CHOOSE i \in Inodes : i \notin inodes

(* open(O_CREAT|O_EXCL): the name must be free. *)
CreateFile(n) ==
  /\ inodes # Inodes
  /\ dir' = [dir EXCEPT ![n] = FreshInode]
  /\ inodes' = inodes \cup {FreshInode}

(* Whether an operation of fault class f succeeds. *)
Outcome(f) == IF f \in Faults THEN BOOLEAN ELSE {TRUE}
=============================================================================
