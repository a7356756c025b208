--------------------------- MODULE MCBackupStore ---------------------------
(* BackupStore for TLC: contents are interchangeable.                      *)
EXTENDS BackupStore, TLC

Interchangeable == Permutations(Digests)
=============================================================================
