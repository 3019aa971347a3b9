---------------------------- MODULE MCRetainTree ----------------------------
(* Instances of RetainTree: topics and filters over two level names. *)
EXTENDS RetainTree, TLC

IllLevels == {"a#"}

\* A chain of nested topics, a sibling, a malformed topic and one with an
\* empty last level.
SomeTopics ==
    {<<"a">>, <<"a", "b">>, <<"a", "b", "b">>, <<"a", "a">>, <<"a", "b", "">>,
     <<"b", "a", "a#">>, <<"b", "#", "a">>}

SomeFilters ==
    {<<"a">>, <<"a", "b">>, <<"a", "+">>, <<"a", "#">>, <<"+">>, <<"+", "+", "b">>,
     <<"#">>, <<"b", "#">>, <<"a", "a#">>}

Symmetry == Permutations(Msgs)
=============================================================================
