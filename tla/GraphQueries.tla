----------------------------- MODULE GraphQueries -----------------------------
(***************************************************************************)
(* The Graph Query agent's operations (graph/query_service.py) over a      *)
(* graph: traversals and hybrid search.                                    *)
(*                                                                         *)
(* External: Neo4j, which answers a pattern of variable length with one    *)
(* row per trail (a path that repeats no relationship), in any order and,  *)
(* beyond the LIMIT, any of them; and the semantic store, which answers    *)
(* with entities of the asked revision in any order.                       *)
(***************************************************************************)
EXTENDS Naturals, Sequences, FiniteSets, SequencesExt, Subsequences

Dependency == {"DEPENDS_ON", "CALLS", "IMPORTS", "INHERITS_FROM"}

(* MERGE keeps one relationship of a kind between two nodes.  A            *)
(* relationship that was not resolved ends at a node that is no Entity,    *)
(* and such a node neither ends a row nor leads anywhere.                  *)
Edges(graph, kinds) ==
    {[source |-> r.source, kind |-> r.kind, target |-> r.target] :
        r \in {r \in graph.relations : r.resolved /\ r.kind \in kinds}}

Near(edge, direction) == IF direction = "outgoing" THEN edge.source ELSE edge.target
Far(edge, direction) == IF direction = "outgoing" THEN edge.target ELSE edge.source

(* The walks of up to depth edges from a root that repeat no edge.         *)
Trails(edges, roots, direction, depth) ==
    {t \in UNION {[1..n -> edges] : n \in 0..depth} :
        /\ \A i \in DOMAIN t :
               Near(t[i], direction) \in IF i = 1 THEN roots ELSE {Far(t[i - 1], direction)}
        /\ \A i, j \in DOMAIN t : t[i] = t[j] => i = j}

(* The rows a query may answer with: those of all roots, under one LIMIT.  *)
Rows(edges, roots, direction, depth, limit) ==
    LET trails == Trails(edges, roots, direction, depth) \ {<<>>}
        count == IF Cardinality(trails) < limit THEN Cardinality(trails) ELSE limit
    IN {rows \in [1..count -> trails] :
            \A i, j \in 1..count : i # j => rows[i] # rows[j]}

Relation(source, kind, target, depth) ==
    [source |-> source, kind |-> kind, target |-> target, depth |-> depth]
Key(r) == [source |-> r.source, kind |-> r.kind, target |-> r.target]

(* Mutant: the relations of an incoming traversal keep the order of the    *)
(* path.                                                                   *)
RelationsAlongPath(row, direction) ==
    [i \in DOMAIN row |-> Relation(Near(row[i], direction), row[i].kind,
                                   Far(row[i], direction), i)]

RowRelations(row, direction) ==
    [i \in DOMAIN row |-> Relation(row[i].source, row[i].kind, row[i].target, i)]

(* The first row that holds a relationship gives its depth; a row, being a *)
(* trail, holds it once.                                                   *)
PathRelations(rows, direction) ==
    LET upTo[n \in 0..Len(rows)] ==
            IF n = 0 THEN <<>>
            ELSE LET output == upTo[n - 1]
                     row == RowRelations(rows[n], direction)
                     seen == {Key(r) : r \in ToSet(output)}
                 IN output \o Subsequence(row, {i \in DOMAIN row : Key(row[i]) \notin seen})
    IN upTo[Len(rows)]

Found(identifier, graph) ==
    {e \in graph.entities : e.id = identifier \/ e.qualified = identifier}

NotFound == [is |-> "not found"]
Traversal(roots, direction, kinds, depth, relations) ==
    [is |-> "traversal", roots |-> roots, direction |-> direction, kinds |-> kinds,
     depth |-> depth, relations |-> relations]
Traversals(graph, roots, direction, kinds, depth, limit) ==
    {Traversal(roots, direction, kinds, depth, PathRelations(rows, direction)) :
        rows \in Rows(Edges(graph, kinds), roots, direction, depth, limit)}

(* The root is matched by its ID; an identifier without rows is looked up  *)
(* as a name too, and found, has no relationships.                         *)
Traversed(graph, identifier, direction, kinds, depth, limit) ==
    LET roots == {e.id : e \in {e \in graph.entities : e.id = identifier}}
    IN IF Found(identifier, graph) = {} THEN {NotFound}
       ELSE Traversals(graph, roots, direction, kinds, depth, limit)

GetDependencies(graph, identifier, depth, limit) ==
    Traversed(graph, identifier, "outgoing", Dependency, depth, limit)
GetDependents(graph, identifier, depth, limit) ==
    Traversed(graph, identifier, "incoming", Dependency, depth, limit)
FindRelated(graph, identifier, kind, depth, limit) ==
    Traversed(graph, identifier, "outgoing", {kind}, depth, limit)

(* Modules of any repository and revision may have the name.  A name       *)
(* without rows is looked up, and any one entity found decides whether     *)
(* there is such a module.                                                 *)
TraceImports(graph, name, depth, limit) ==
    LET found == Found(name, graph)
        modules == {e \in found : e.kind = "Module"}
        roots == {e.id : e \in {e \in modules : e.qualified = name}}
        traced == Traversals(graph, roots, "outgoing", {"IMPORTS"}, depth, limit)
        empty == {t \in traced : t.relations = <<>>}
    IN (IF modules = {} THEN traced \ empty ELSE traced) \cup
       {NotFound : t \in {t \in empty : modules = {} \/ modules # found}}

(***************************************************************************)
(* Hybrid search.  A hit is [id, ours]: ours when the asked revision of    *)
(* the asked repository is the entity's latest.                            *)
(***************************************************************************)
Clipped(list, limit) == SubSeq(list, 1, IF Len(list) < limit THEN Len(list) ELSE limit)

(* A fraction, which a score is, above another.                            *)
Above(a, b) == a[1] * b[2] > b[1] * a[2]

(* A stable sort, the highest score first.                                 *)
Sorted(list, score) ==
    LET before(i, j) == \/ Above(score[i], score[j])
                        \/ ~Above(score[j], score[i]) /\ i < j
        place(i) == Cardinality({j \in DOMAIN list : j # i /\ before(j, i)}) + 1
    IN [n \in DOMAIN list |-> list[CHOOSE i \in DOMAIN list : place(i) = n]]

(* Entities that hold the name, best matches first, and equal ones in the  *)
(* order of their names: some order, and always the same.                  *)
MatchRank(e, name) ==
    CASE e.qualified = name -> 0
      [] e.qualified # name /\ e.name = name -> 1
      [] OTHER -> 2
Matching(entities, name) ==
    LET holds(whole) == \E i \in 0..(Len(whole) - Len(name)) :
                            SubSeq(whole, i + 1, i + Len(name)) = name
    IN {e \in entities : holds(e.name) \/ holds(e.qualified)}
FindEntity(entities, name, limit) ==
    LET list == SetToSeq(Matching(entities, name))
    IN Clipped(Sorted(list, [i \in DOMAIN list |-> <<-MatchRank(list[i], name), 1>>]), limit)

Rerank(hits, relevance) ==
    Sorted(hits, [i \in DOMAIN hits |-> <<relevance[hits[i].id], 1>>])

(* The rank in a list of an entity that is ours, or nothing.  A hit that   *)
(* is not ours keeps its rank from the others.                             *)
Ranks(list, id) == {i \in DOMAIN list : list[i].id = id /\ list[i].ours}

(* Reciprocal ranks, added.                                                *)
RankConstant == 60
Share(list, id) ==
    IF Ranks(list, id) = {} THEN <<0, 1>>
    ELSE <<1, RankConstant + (CHOOSE rank \in Ranks(list, id) : TRUE)>>
Plus(a, b) == <<a[1] * b[2] + b[1] * a[2], a[2] * b[2]>>

(* Mutant: an entity keeps the score of the first list that holds it.      *)
FusedFirst(exact, semantic, id) ==
    Share(IF Ranks(exact, id) # {} THEN exact ELSE semantic, id)

Fused(exact, semantic, id) == Plus(Share(exact, id), Share(semantic, id))

(* A result, with the score it is ranked by.                               *)
HybridSearch(exact, semantic, limit) ==
    LET result(h) == [id |-> h.id, score |-> Fused(exact, semantic, h.id)]
        ours == Subsequence(exact, {i \in DOMAIN exact : exact[i].ours})
        known == {h.id : h \in ToSet(ours)}
        fresh == Subsequence(semantic, {i \in DOMAIN semantic : semantic[i].id \notin known})
        results == [i \in DOMAIN ours |-> result(ours[i])] \o
                   [i \in DOMAIN fresh |-> result(fresh[i])]
    IN Clipped(Sorted(results, [i \in DOMAIN results |-> results[i].score]), limit)
=============================================================================
