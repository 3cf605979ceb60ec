---------------------------- MODULE MCMigration ----------------------------
(* Instances of Migration for TLC. *)
EXTENDS Migration, TLC

Symmetric == Permutations(ProfileId) \cup Permutations(Email)
=============================================================================
