----------------------------- MODULE MCIndexing -----------------------------
(* One dataset with a few messages, profilers and deleters.                 *)
EXTENDS Indexing, TLC

Symmetry == Permutations(Messages \ Uploads) \cup Permutations(Profilers)

=============================================================================
