---------------------------- MODULE CacheContract ----------------------------
(***************************************************************************)
(* What one key of the file cache promises to the code that uses it        *)
(* (datamart_core.materialize, profiler, apiserver): an entry appears whole,*)
(* does not change or go away while somebody is in a with-block on it, and *)
(* is not created again while it is there.                                 *)
(***************************************************************************)

CONSTANT Readers    \* the processes that look the entry up

VARIABLES
  content,    \* "none", "whole", or "partial"
  readers,    \* the processes in a with-block that was given the entry
  broken      \* the locking failed: no promise from there on

vars == <<content, readers, broken>>

Init == content = "none" /\ readers = {} /\ broken = FALSE

Create == content = "none" /\ readers = {} /\ content' = "whole" /\ UNCHANGED readers

Evict == content = "whole" /\ readers = {} /\ content' = "none" /\ UNCHANGED readers

Enter(p) ==
  content = "whole" /\ p \notin readers /\ readers' = readers \cup {p} /\ UNCHANGED content

Leave(p) == p \in readers /\ readers' = readers \ {p} /\ UNCHANGED content

Keep == ~broken' /\ (Create \/ Evict \/ \E p \in Readers : Enter(p) \/ Leave(p))

Break == broken'

Next == Keep \/ Break

Spec == Init /\ [][Next]_vars

=============================================================================
