----------------------------- MODULE LogStream ------------------------------
(***************************************************************************)
(* What a log that is rotated without loss promises: the records on disk,  *)
(* read in rotation order, are an unbroken stretch of the record stream.   *)
(* It grows at its end by the units that come next, and retention may drop *)
(* units from its beginning.  Nothing is lost, repeated or reordered.      *)
(***************************************************************************)
EXTENDS Integers, Sequences

VARIABLES
  log,  \* the units on disk, oldest first
  last  \* the number of units ever appended

Init == log = <<>> /\ last = 0

Extend ==
  /\ last' > last
  /\ log' = log \o [i \in 1..last' - last |-> last + i]

Expire ==
  /\ \E k \in 1..Len(log) : log' = SubSeq(log, k + 1, Len(log))
  /\ UNCHANGED last

Spec == Init /\ [][Extend \/ Expire]_<<log, last>>
=============================================================================
