----------------------------- MODULE MCChatTurns -----------------------------
(***************************************************************************)
(* Two turns of one session, by one user, about two repositories.  The     *)
(* questions are a lookup in either repository, one that only the          *)
(* conversation explains and that names no scope, and a comparison of two  *)
(* names that names half a scope.                                          *)
(***************************************************************************)
EXTENDS ChatTurns

CONSTANTS t1, t2, s1, u1, A, B, v1, v2, brief, plain, lookup, pronoun, both

MCNames == {"Router", "Route"}
MCFolded == [n \in MCNames |-> IF n = "Router" THEN "router" ELSE "route"]

Candidate(id, kind) == [id |-> id, name |-> id, suffixes |-> {id}, kind |-> kind,
                        framework |-> TRUE]
MCCatalog == [n \in MCNames |->
    IF n = "Router" THEN <<Candidate("Route", "class"), Candidate("Router", "import"),
                           Candidate("Router", "class")>>
    ELSE <<Candidate("Route", "class")>>]
MCHitLists == {<<>>, <<"Route">>}
MCGrounded == {[used |-> {1}, markers |-> {}, malformed |-> FALSE]}

Query(key, phrases, quoted, refers) ==
    [key |-> key, phrases |-> phrases, quoted |-> quoted, capitalised |-> <<>>,
     refers |-> refers, terms |-> {key}]
Find == Query(lookup, {"find"}, <<"Router">>, FALSE)
ExplainIt == Query(pronoun, {}, <<>>, TRUE)
Compare == Query(both, {"compare"}, <<"Router", "Route">>, FALSE)

Asks(query, repository, revision) ==
    [session |-> s1, user |-> u1, query |-> query, repository |-> repository,
     revision |-> revision]
MCRequests == {Asks(Find, A, v1), Asks(Find, B, v2), Asks(ExplainIt, None, None),
               Asks(Compare, B, None)}
MCSymmetry == Permutations({t1, t2})
MCNameLists == {<<>>, <<"Router">>, <<"Router", "Route">>, <<"Route">>}
==============================================================================
