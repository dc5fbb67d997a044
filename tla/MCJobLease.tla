---------------------------- MODULE MCJobLease ----------------------------
(* Small instances of JobLease for TLC. *)
EXTENDS JobLease, TLC

Interchangeable == Permutations(Workers) \union Permutations(Scanners) \union Permutations(Producers)

=============================================================================
