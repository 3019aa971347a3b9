----------------------------- MODULE MCSubTree -----------------------------
(* Instances of SubTree: filters and topics over two level names. *)
EXTENDS SubTree, TLC

IllLevels == {"a#"}

\* Nested, wildcard and malformed filters; "a/" shares its node with "a", and
\* "+//b" with "/+/b".
SomeFilters ==
    {<<"a">>, <<"a", "">>, <<"a", "#">>, <<"+", "", "b">>, <<"", "+", "b">>,
     <<"#">>, <<"b", "a", "a#">>, <<"b", "#", "a">>}

SomeTopics ==
    {<<"a">>, <<"a", "">>, <<"b">>, <<"a", "b">>, <<"a", "b", "a">>,
     <<"b", "b", "b">>, <<"", "b", "b">>, <<"a", "", "b">>, <<"a", "a#">>, <<"#">>}

Symmetry == Permutations(Subs)
=============================================================================
