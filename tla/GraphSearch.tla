------------------------------ MODULE GraphSearch ------------------------------
(***************************************************************************)
(* The Graph Query agent's tools over the graph of a revision: a question  *)
(* is one step, since the graph is read only.  How a graph is made is left *)
(* open: CodeSearch takes the ones that programs are indexed as.           *)
(***************************************************************************)
EXTENDS GraphQueries

CONSTANTS
    Graphs,         \* the graphs that are queried
    OtherNodes,     \* IDs of nodes that are no entity, which may be asked for too
    Names,          \* the names traversed from
    Words,          \* the names searched for
    Kinds,          \* the relationship types find_related is asked for
    MaxDepth,       \* max_depth, up to 5 in the code
    RowLimit,       \* LIMIT of a traversal, 200 in the code
    HitLimit,       \* limit of a hybrid search
    SemanticLimit   \* limit of its semantic part

(* A graph is finite, and MERGE keeps one entity for an ID.                *)
ASSUME GraphsAssumption ==
    \A g \in Graphs : /\ IsFiniteSet(g.entities) /\ IsFiniteSet(g.relations)
                       /\ \A a, b \in g.entities : a.id = b.id => a = b
ASSUME LimitAssumption == {MaxDepth, RowLimit, HitLimit, SemanticLimit} \subseteq Nat

VARIABLES
    index,          \* the graph
    answer          \* the last answer, or NoAnswer

NoAnswer == [is |-> "none"]

Asking == answer = NoAnswer
Ask(answers) ==
    /\ answer' \in answers
    /\ UNCHANGED index

Roots == {e.id : e \in {e \in index.entities : e.qualified \in Names}}

Traverse ==
    /\ Asking
    /\ \E depth \in 1..MaxDepth, identifier \in Roots \cup OtherNodes \cup Names :
        \/ Ask(GetDependencies(index, identifier, depth, RowLimit))
        \/ Ask(GetDependents(index, identifier, depth, RowLimit))
        \/ \E kind \in Kinds : Ask(FindRelated(index, identifier, kind, depth, RowLimit))
        \/ \E name \in Names : Ask(TraceImports(index, name, depth, RowLimit))

Hit(e, stale) == [id |-> e.id, ours |-> e \notin stale]

(* How many exact matches a hybrid search takes.                           *)
ExactLimit == IF 2 * HitLimit < 100 THEN 2 * HitLimit ELSE 100

(* What the semantic store may hold vectors of.                            *)
Searchable == {"Class", "Function", "Method"}

(* Entities of other repositories and revisions may match the name too.    *)
(* The semantic store answers with any entities of this one, each once,    *)
(* and their texts may hold the words of the query or not.                 *)
Search ==
    /\ Asking
    /\ \E name \in Words :
       \E found \in {FindEntity(index.entities, name, ExactLimit)} :
       \E stale \in SUBSET ToSet(found) :
       \E size \in 0..SemanticLimit :
       \E semantic \in [1..size -> {e \in index.entities : e.kind \in Searchable}] :
       \E relevant \in SUBSET ToSet(semantic) :
        LET exact == [i \in DOMAIN found |-> Hit(found[i], stale)]
            relevance == [id \in {e.id : e \in ToSet(semantic)} |->
                            IF \E e \in relevant : e.id = id THEN 1 ELSE 0]
            reranked == Rerank([i \in DOMAIN semantic |-> Hit(semantic[i], {})], relevance)
        IN /\ \A i, j \in DOMAIN semantic : i # j => semantic[i] # semantic[j]
           /\ Ask({[is |-> "search", exact |-> exact, semantic |-> reranked,
                    hits |-> HybridSearch(exact, reranked, HitLimit)]})

QueryInit == index \in Graphs /\ answer = NoAnswer
QueryNext == Traverse \/ Search
QuerySpec == QueryInit /\ [][QueryNext]_<<index, answer>>

(* Breadth first: what lies within n steps of the roots.                   *)
Within(edges, direction, roots, n) ==
    LET reached[k \in 0..n] ==
            IF k = 0 THEN roots
            ELSE LET near == reached[k - 1]
                 IN near \cup {Far(e, direction) : e \in {e \in edges : Near(e, direction) \in near}}
    IN reached[n]

(* A traversal answers with relationships of the graph, each as the graph  *)
(* directs it, once, and at a depth no less than its distance and no more  *)
(* than asked; with all of them, unless the LIMIT cuts the rows off.       *)
TraversalIsBoundedReach ==
    answer.is = "traversal" =>
        LET edges == Edges(index, answer.kinds)
            within(n) == Within(edges, answer.direction, answer.roots, n)
            all == {e \in edges : Near(e, answer.direction) \in within(answer.depth - 1)}
            given == answer.relations
        IN /\ \A i \in DOMAIN given :
                /\ Key(given[i]) \in edges
                /\ given[i].depth \in 1..answer.depth
                /\ Near(given[i], answer.direction) \in within(given[i].depth - 1)
           /\ \A i, j \in DOMAIN given : Key(given[i]) = Key(given[j]) => i = j
           /\ Cardinality(Trails(edges, answer.roots, answer.direction, answer.depth)) <= RowLimit + 1
              => {Key(r) : r \in ToSet(given)} = all

(* A fused list holds each entity once, only those of the asked revision,  *)
(* fills its limit, and never puts an entity behind another that both      *)
(* lists rank lower, or one of them only, than it.                         *)
NoWorse(list, a, b) == \A j \in Ranks(list, b) : \E i \in Ranks(list, a) : i <= j
FusionRespectsLists ==
    answer.is = "search" =>
        LET hits == answer.hits
            better(a, b) == /\ NoWorse(answer.exact, a, b) /\ NoWorse(answer.semantic, a, b)
                            /\ ~(NoWorse(answer.exact, b, a) /\ NoWorse(answer.semantic, b, a))
            ours == {h.id : h \in {h \in ToSet(answer.exact \o answer.semantic) : h.ours}}
            given == {h.id : h \in ToSet(hits)}
        IN /\ given \subseteq ours /\ Cardinality(given) = Len(hits)
           /\ given = ours \/ Len(hits) = HitLimit
           /\ \A i \in DOMAIN hits : \A id \in ours :
                better(id, hits[i].id) => \E j \in 1..i : hits[j].id = id
================================================================================
