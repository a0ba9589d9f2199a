------------------------------ MODULE MCFSCache ------------------------------
(* The file cache on small sets of processes and inodes.                    *)
EXTENDS FSCache, TLC

Symmetry ==
  Permutations(Clients) \cup Permutations(Cleaners) \cup Permutations(Inodes)

(* Symmetry is not sound for liveness.  The run of FairSpec numbers the      *)
(* inodes and lets the file system give the lowest free one: the numbers are *)
(* only ever compared, so this loses nothing.                                *)
LowestInode == lockFile' \notin {lockFile, NoFile} => \A i \in FreeInodes : lockFile' <= i

(* Only calls that retry: cache_get() and only_if_possible take some of the *)
(* steps of the others, once.                                               *)
Retrying == \A p \in Procs : call'[p] \notin {"get", "clear_if_possible"}

(* What is promised until the locking fails needs no state after that one.  *)
UntilBroken == broken = {}

=============================================================================
