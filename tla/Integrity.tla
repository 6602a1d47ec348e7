----------------------------- MODULE Integrity ------------------------------
(***************************************************************************)
(* The integrity analysis of a finished run: internal/integrity/analyze.go *)
(* over the backups and the active log, with the parser of                 *)
(* internal/record/record.go.                                              *)
(***************************************************************************)
EXTENDS Host, FiniteSetsExt

(* What a unit of a record holds. *)
IsRunID(u)    == u % RecordBytes = 1
IsSequence(u) == u % RecordBytes = 2
IsNewline(u)  == u % RecordBytes = 0
RecordOf(u)   == (u - 1) \div RecordBytes + 1

(* bufio.Scanner's lines; the last one may lack its newline. *)
LineStarts(file) == {i \in DOMAIN file : i = 1 \/ IsNewline(file[i - 1])}
LineEnd(file, i) ==
  Min({j \in i..Len(file) : IsNewline(file[j])} \cup {Len(file)})
Line(file, i)    == SubSeq(file, i, LineEnd(file, i))

(* record.Parse: the text up to the first space, then 20 digits up to the  *)
(* second space, then anything, even a payload that was cut short.         *)
Spaced(u)   == IsRunID(u) \/ IsSequence(u)
Parses(line) ==
  \E i \in 1..Len(line) - 1 :
    /\ Spaced(line[i]) /\ \A j \in 1..i - 1 : ~Spaced(line[j])
    /\ IsSequence(line[i + 1])
OwnRunID(line) == IsRunID(line[1])

(* Every line of every file, as a name and a position. *)
Lines == UNION {{n} \X LineStarts(data[dir[n]]) : n \in {m \in Names : Exists(m)}}
LineAt(x) == Line(data[dir[x[1]]], x[2])

ValidLines == {x \in Lines : Parses(LineAt(x)) /\ OwnRunID(LineAt(x))}
Seen       == {RecordOf(LineAt(x)[2]) : x \in ValidLines}

(* The counters of report.IntegrityReport. *)
Malformed         == Cardinality({x \in Lines : ~Parses(LineAt(x))})
WrongRunID        == Cardinality({x \in Lines : Parses(LineAt(x)) /\ ~OwnRunID(LineAt(x))})
Duplicates        == Cardinality(ValidLines) - Cardinality(Seen)
Missing(expected) == Cardinality(1..expected \ Seen)

(* Mutation of Previous: it is carried over from file to file. *)
PreviousOfAnyFile(x) ==
  {y \in ValidLines : y[1] < x[1] \/ (y[1] = x[1] /\ y[2] < x[2])}

(* Valid lines in the order they are scanned: the paths are sorted, so the *)
(* active log comes before its backups.  `previous' starts anew per file.  *)
Sequence(x) == RecordOf(LineAt(x)[2])
Previous(x) == {y \in ValidLines : y[1] = x[1] /\ y[2] < x[2]}

DescendingTransitions ==
  Cardinality({x \in ValidLines :
    \E p \in Previous(x) : /\ Previous(x) = Previous(p) \cup {p}
                           /\ Sequence(x) < Sequence(p)})

(* report.FileSet: how many records a file holds, the least and the        *)
(* greatest; zero where there is none.                                     *)
FileSet(n) ==
  LET sequences == {Sequence(x) : x \in {y \in ValidLines : y[1] = n}}
  IN  [records |-> Cardinality({x \in ValidLines : x[1] = n}),
       min     |-> IF sequences = {} THEN 0 ELSE Min(sequences),
       max     |-> IF sequences = {} THEN 0 ELSE Max(sequences)]
=============================================================================
