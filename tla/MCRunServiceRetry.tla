------------------------- MODULE MCRunServiceRetry --------------------------
(* One run whose request is posted twice at the same time, while calls   *)
(* of the journal fail.                                                    *)
EXTENDS RunService

MCAsks ==
  [a |-> [request |-> "q1", hash |-> "h", task |-> "t1", keys |-> {}, plan |-> {}],
   b |-> [request |-> "q1", hash |-> "h", task |-> "t1", keys |-> {}, plan |-> {}]]
=============================================================================
