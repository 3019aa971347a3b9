------------------------------ MODULE SubIndex ------------------------------
(***************************************************************************)
(* What a TopicsProvider promises about subscriptions: a set of entries,   *)
(* at most one for a filter and a subscriber.  The tree of memtopics.go is *)
(* one way to keep it.                                                     *)
(***************************************************************************)
CONSTANTS Keys, Subs, QoS

VARIABLE index

Entries(f, s) == {e \in index : e.filter = f /\ e.sub = s}

Init == index = {}

\* A subscription replaces the one the subscriber had for the filter.
Add(f, q, s) ==
    index' = (index \ Entries(f, s)) \cup {[filter |-> f, sub |-> s, qos |-> q]}

Remove(f, s) == index' = index \ Entries(f, s)

Next ==
    \E f \in Keys, s \in Subs :
        Remove(f, s) \/ \E q \in QoS : Add(f, q, s)

Spec == Init /\ [][Next]_index
=============================================================================
