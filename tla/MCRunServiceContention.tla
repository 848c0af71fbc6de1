----------------------- MODULE MCRunServiceContention -----------------------
(* Two runs of two tasks that compete for one permit, with every timeout,  *)
(* cancellation and shutdown, and nothing on the remote side.              *)
EXTENDS RunService

MCAsks ==
  [a |-> [request |-> "q1", hash |-> "h", task |-> "t1", keys |-> {}, plan |-> {}],
   b |-> [request |-> "q2", hash |-> "h", task |-> "t2", keys |-> {}, plan |-> {}]]
=============================================================================
