--------------------------- MODULE MCRetryDelivery ---------------------------
(* Instances of RetryDelivery for TLC. *)
EXTENDS RetryDelivery, TLC

\* Every packet has an identifier of its own.
OwnMids == [m \in Msgs |-> m]

\* OwnMids is the identity, so packets are interchangeable.
Symmetry == Permutations(Runners) \cup Permutations(Msgs)
=============================================================================
