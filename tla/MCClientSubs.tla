---------------------------- MODULE MCClientSubs ----------------------------
(* Instances of ClientSubs. *)
EXTENDS ClientSubs, TLC

CONSTANTS c1, c2, m1, m2, m3

\* "#", "$share/g/b" and "$share/b".
SomeKeys == {"all", "share", "badshare"}
SomeFilterOf == ("all" :> "#") @@ ("share" :> "b") @@ ("badshare" :> "b")
\* A notice goes to the topic "/" followed by the client's identifier.
SomeMatch == ("#" :> {"a", "b", "/c"}) @@ ("b" :> {"b"})

\* Two messages for topic a, of which one has QoS 2, and one for topic b.
SomeTopicOf ==
    (m1 :> "a") @@ (m2 :> "b") @@ (m3 :> "a") @@ (c1 :> "/c") @@ (c2 :> "/c")
SomeQosOf == (m1 :> 1) @@ (m2 :> 0) @@ (m3 :> 2)

Symmetry == Permutations(Clients)
=============================================================================
