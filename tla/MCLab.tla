-------------------------------- MODULE MCLab -------------------------------
(* The instances of the lab that TLC checks. *)
EXTENDS LabStream

Runs(strategies, writers, backups) ==
  [strategy : strategies, writer : writers, maxBackups : backups]

MCRename   == Runs({"rename-reopen"}, Writers, {0, 1, 2})
MCInPlace  == Runs({"copytruncate", "baseline"}, Writers, {0, 1})
MCLossless == Runs({"rename-reopen"}, Writers, {0, 1})
                \cup Runs({"baseline"}, Writers, {0})
MCFiles    == MCInPlace \cup MCLossless
MCAll      == Runs(Strategies, Writers, {0, 1})
=============================================================================
