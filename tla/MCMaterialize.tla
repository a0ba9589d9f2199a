---------------------------- MODULE MCMaterialize ----------------------------
(* Two apiservers, one of which has two requests at a time, and a profiler. *)
EXTENDS Materialize, TLC

CONSTANTS h1, h2, h3, s1, s2

OneServer == (h1 :> s1) @@ (h2 :> s1) @@ (h3 :> s1)
TwoServers == (h1 :> s1) @@ (h2 :> s2) @@ (h3 :> s2)
TwoKinds ==
  (h1 :> {"augment"}) @@ (h2 :> {"download"}) @@ (h3 :> {"result"})
=============================================================================
