---------------------------- MODULE MCClientConn ----------------------------
(* Instances of ClientConn. *)
EXTENDS ClientConn, TLC

CONSTANTS c1, c2, w1, w2

\* The identifiers of both clients lead to the same worker.
OneWorker == (c1 :> w1) @@ (c2 :> w1)

=============================================================================
