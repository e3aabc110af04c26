--------------------------- MODULE MCBackupRestore ---------------------------
(* An instance of BackupRestore for model checking. *)
EXTENDS BackupRestore, TLC

Symmetry == Permutations(Uris)
==============================================================================
