--------------------------- MODULE MCPublishPath ---------------------------
(***************************************************************************)
(* Instance of PublishPath, in which all messages have the same packet     *)
(* identifier: two QoS 2 messages, of which the second may use the         *)
(* identifier again, and one of every other QoS, the unknown one included. *)
(***************************************************************************)
EXTENDS PublishPath, TLC
CONSTANTS m1, m2, m3, m4, m5, i1

OneId == [m \in Msgs |-> i1]
EachQosOf == (m1 :> 2) @@ (m2 :> 2) @@ (m3 :> 1) @@ (m4 :> 0) @@ (m5 :> 3)

=============================================================================
