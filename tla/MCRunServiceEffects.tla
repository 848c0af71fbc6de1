------------------------ MODULE MCRunServiceEffects ------------------------
(* One run with one remote write: every interleaving of its client, worker, *)
(* observer, recovery loop, cancellation, faults, shutdown and crashes.     *)
EXTENDS RunService

MCIntentKeys == {[step |-> 0, kind |-> "git_push", resource |-> "-"]}
MCAsks ==
  <<[request |-> "q1", hash |-> "h1", task |-> "t1", keys |-> {}, plan |-> {0}]>>
=============================================================================
