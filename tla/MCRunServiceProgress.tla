------------------------ MODULE MCRunServiceProgress ------------------------
(* One run whose journal call fails once, anywhere: every way in which its *)
(* worker, an observer and the recovery loop hand it to each other.        *)
EXTENDS RunService

MCAsks ==
  [a |-> [request |-> "q1", hash |-> "h", task |-> "t1", keys |-> {}, plan |-> {0}]]
=============================================================================
