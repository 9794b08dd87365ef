--------------------------- MODULE MCDatabaseBackup ---------------------------
(* Instances of DatabaseBackup for TLC. *)
EXTENDS DatabaseBackup, TLC

CONSTANTS b1, b2, BackupEvents

\* The whole session where no backup runs, its first events beside backups.
Bound == Present => events <= BackupEvents

MCInit == BInit /\ (~Present => force = [p \in Backup |-> FALSE])
MCSpec == MCInit /\ [][BNext]_bvars

\* Backup processes are interchangeable.
Symmetry == Permutations(Backup)
=============================================================================
