---------------------------- MODULE QueryPlanning ----------------------------
(***************************************************************************)
(* How a question becomes a plan and a plan's tasks become agent outputs   *)
(* (orchestration/service.py, executor.py, synthesizer.py): pure functions *)
(* and, for what depends on the agents, sets of possible outputs.          *)
(*                                                                         *)
(* A query is a record: key, its text with case and spacing normalised;    *)
(* phrases, the phrases of the routing rules it contains; quoted and       *)
(* capitalised, the names it has in backticks and with a capital letter;   *)
(* refers, whether it has a pronoun.  An agent is external: a call to it   *)
(* fails, times out or answers.  The rendering of outputs as text and the  *)
(* content of source are left out.                                         *)
(***************************************************************************)
EXTENDS FiniteSets, SequencesExt, Subsequences

CONSTANTS
    None,
    Catalog,        \* name -> the candidates the graph's find_entity has for it
    HitLists,       \* what hybrid_search may find: sequences of names
    Grounded,       \* what the language model may answer: cited and marked ids
    Folded          \* name -> the name in lower case

Mentions(q, phrases) == q.phrases \cap phrases # {}

(* The rules of _classify, tried in order.                                 *)
IntentRules == <<
    [intent |-> "indexing",
     words |-> {"index repository", "re-index", "reindex", "update index"}],
    [intent |-> "comparison",
     words |-> {"compare", "difference between", "versus", " vs "}],
    [intent |-> "pattern_analysis",
     words |-> {"design pattern", "patterns", "anti-pattern", "decorator"}],
    [intent |-> "architecture",
     words |-> {"lifecycle", "architecture", "end-to-end"}],
    [intent |-> "implementation",
     words |-> {"implementation", "source code", "docstring", "show code", "explain code"}],
    [intent |-> "dependency_traversal",
     words |-> {"inherit", "depends", "dependents", "imports", "calls", "related"}],
    [intent |-> "entity_lookup",
     words |-> {"what is", "find", "where is", "locate"}] >>

Classify(q) ==
    LET rule == SelectInSeq(IntentRules, LAMBDA r : Mentions(q, r.words))
    IN  IF rule = 0 THEN "general" ELSE IntentRules[rule].intent

Entity(name, source) == [name |-> name, source |-> source]
EntitiesOf(names, source) == [i \in DOMAIN names |-> Entity(names[i], source)]
NamesOf(entities) == [i \in DOMAIN entities |-> entities[i].name]

IgnoredNames == {"What", "Where", "How", "Show", "Find", "Explain", "Compare",
                 "Python", "HTTP"}

(* A name counts once, with the source it has first: backticks before      *)
(* capital letters.                                                        *)
ExtractEntities(q) ==
    LET said == q.quoted \o q.capitalised
        spelled(i) == IF Folded[said[i]] = "fastapi" THEN "FastAPI" ELSE said[i]
        counts == {i \in DOMAIN said : said[i] \notin IgnoredNames}
        entities == [i \in DOMAIN said |->
            Entity(spelled(i), IF i <= Len(q.quoted) THEN "backtick" ELSE "identifier")]
    IN  Subsequence(entities, {i \in counts : \A j \in counts : spelled(j) = spelled(i) => i <= j})

(* The broad concepts with entry points of their own, tried in order.      *)
ConceptNames(q, intent) ==
    CASE intent = "architecture"
            /\ Mentions(q, {"request lifecycle", "lifecycle of a", "end-to-end"}) ->
            <<"FastAPI.__call__", "APIRoute.get_route_handler", "get_request_handler",
              "solve_dependencies", "run_endpoint_function", "serialize_response">>
      [] OTHER ->
    CASE Mentions(q, {"request validation", "validate request"}) ->
            <<"get_request_handler", "solve_dependencies", "request_body_to_args",
              "_validate_value_with_model_field">>
      [] OTHER ->
    CASE Mentions(q, {"dependency injection"}) ->
            <<"Depends", "get_dependant", "get_parameterless_sub_dependant",
              "solve_dependencies">>
      [] OTHER ->
    CASE intent = "pattern_analysis" /\ Mentions(q, {"routing"}) -> <<"APIRouter">>
      [] OTHER ->
    CASE intent = "pattern_analysis"
            /\ Mentions(q, {"fastapi", "core", "codebase", "repository"}) -> <<"FastAPI">>
      [] OTHER -> <<>>

(* The last three names a conversation and its recalled episodes have.     *)
Remembered(context) ==
    LET names == context.active \o FlattenSeq(context.recalled)
    IN  SubSeq(names, IF Len(names) > 3 THEN Len(names) - 2 ELSE 1, Len(names))

NoContext == [active |-> <<>>, recalled |-> <<>>]

AnalyzeQuery(q, context) ==
    LET intent == Classify(q)
        explicit == ExtractEntities(q)
        concepts == EntitiesOf(ConceptNames(q, intent), "concept_map")
        own == IF concepts # <<>> /\ \A i \in DOMAIN explicit : explicit[i].source # "backtick"
               THEN concepts ELSE explicit
    IN  [intent |-> intent,
         entities |-> IF own = <<>> /\ q.refers
                      THEN EntitiesOf(Remembered(context), "conversation") ELSE own]

RequiresSemanticDiscovery(analysis) ==
    /\ analysis.intent \in {"general", "architecture"}
    /\ \A i \in DOMAIN analysis.entities : analysis.entities[i].source = "identifier"

(* A plan's operations; each is a stage of its own.                        *)
Located(first, last) == <<first, "verify_source", last>>

RouteToAgents(analysis) ==
    LET intent == analysis.intent
        named == analysis.entities # <<>>
    IN  CASE intent = "indexing" -> <<"index_repository">>
          [] intent = "entity_lookup" /\ named -> <<"find_entity">>
          [] intent = "dependency_traversal" /\ named -> <<"find_entity", "get_dependencies">>
          [] intent = "pattern_analysis" -> Located("find_entity", "find_patterns")
          [] intent = "implementation" -> Located("find_entity", "explain_implementation")
          [] intent = "comparison" -> Located("find_entity", "compare_implementations")
          [] intent \in {"general", "architecture"} /\ named
                /\ ~RequiresSemanticDiscovery(analysis) ->
                Located("find_entity", "explain_implementation")
          [] OTHER -> Located("hybrid_search", "explain_implementation")

(***************************************************************************)
(* An agent's output: the scope its source was read at, the entities the   *)
(* graph found, and the evidence, a set of items.                          *)
(***************************************************************************)
NoScope == [repository |-> None, revision |-> None]

Output(operation, entities, scope, evidence) ==
    [operation |-> operation, success |-> TRUE, entities |-> entities, scope |-> scope,
     evidence |-> evidence]
FailedOutput(operation) ==
    [operation |-> operation, success |-> FALSE, entities |-> <<>>, scope |-> NoScope,
     evidence |-> {}]

Item(kind, entity) == [kind |-> kind, entity |-> entity]
Items(kind, entities) == {Item(kind, entities[i].entity) : i \in DOMAIN entities}

Scoped(scope) == scope.repository # None /\ scope.revision # None

(* The entities of the last successful graph output that lists entities.   *)
GraphEntities(outputs) ==
    LET i == SelectLastInSeq(outputs, LAMBDA o :
                 o.success /\ o.operation \in {"find_entity", "hybrid_search"})
    IN  IF i = 0 THEN <<>> ELSE outputs[i].entities

(* Of the candidates that match the name, the first of the highest rank.   *)
Nothing == [entity |-> None, requested |-> None]

SelectEntity(name, candidates) ==
    LET matches(c) == Folded[name] \in {Folded[n] : n \in c.suffixes \cup {c.name}}
        weigh(b, weight) == IF b THEN weight ELSE 0
        rank(c) == weigh(c.name = name, 8)
                   + weigh(c.kind \in {"class", "function", "method", "module"}, 4)
                   + weigh(name \in c.suffixes, 2)
                   + weigh(c.framework, 1)
        credible == SelectSeq(candidates, matches)
        best == SelectInSeq(credible, LAMBDA c :
                    \A i \in DOMAIN credible : rank(c) >= rank(credible[i]))
    IN  IF best = 0 THEN Nothing ELSE [entity |-> credible[best].id, requested |-> name]

FoundEntities(names, known) ==
    LET selected == [i \in DOMAIN names |->
            SelectEntity(names[i], IF known THEN Catalog[names[i]] ELSE <<>>)]
    IN  Subsequence(selected, {i \in DOMAIN names : selected[i] # Nothing})

(* What execute may return for an operation when no call it needs fails:   *)
(* nothing when it refuses the task.  explain_implementation of several    *)
(* entities needs one of its calls; verify_source needs all of them.       *)
Answers(operation, analysis, scope, prior) ==
    LET names == NamesOf(analysis.entities)
        entities == GraphEntities(prior)
        first(n) == SubSeq(entities, 1, IF Len(entities) < n THEN Len(entities) ELSE n)
        found(list, at) == Output(operation, list, at, Items("graph", list))
        sourced(items) == Output(operation, <<>>, scope, items)
    IN  CASE operation = "find_entity" /\ names # <<>> ->
                {found(FoundEntities(names, known), NoScope) : known \in BOOLEAN}
          [] operation = "hybrid_search" /\ Scoped(scope) ->
                {found([i \in DOMAIN hits |-> [entity |-> hits[i], requested |-> hits[i]]], scope)
                    : hits \in HitLists}
          [] operation = "verify_source" /\ Scoped(scope) /\ entities # <<>> ->
                {sourced(Items("source", first(6)))}
          [] operation = "get_dependencies" /\ entities # <<>> ->
                {Output(operation, <<>>, NoScope, items)
                    : items \in {{}, Items("path", first(1))}}
          [] operation = "explain_implementation" /\ Scoped(scope) /\ entities # <<>> ->
                {sourced(items) : items \in SUBSET Items("analysis", first(6)) \ {{}}}
          [] operation = "compare_implementations" /\ Scoped(scope) /\ Len(entities) >= 2 ->
                {sourced(Items("analysis", first(2)))}
          [] operation = "find_patterns" /\ Scoped(scope) /\ entities # <<>> ->
                {sourced(items) : items \in {{}, Items("pattern", first(1))}}
          [] OTHER -> {}

(* A task ends in an answer, an error or the agent timeout.                *)
TaskOutputs(operation, analysis, scope, prior) ==
    Answers(operation, analysis, scope, prior) \cup {FailedOutput(operation)}

(* A failed stage is the last one that runs.                               *)
PlanEnded(plan, outputs) ==
    \/ Len(outputs) = Len(plan)
    \/ outputs # <<>> /\ ~Last(outputs).success

(* The response to a query: partial when any task failed or none ran.      *)
SynthesizeResponse(q, outputs) ==
    [query |-> q,
     outputs |-> outputs,
     evidence |-> UNION {outputs[i].evidence : i \in DOMAIN outputs},
     cited |-> {},
     partial |-> \/ \E i \in DOMAIN outputs : ~outputs[i].success
                 \/ outputs = <<>>]

(* The language model's answer counts when it cites, and marks, evidence   *)
(* the response has; its citations then name that evidence.                *)
Resolvable(answer, evidence) ==
    /\ answer.used # {}
    /\ answer.used \subseteq 1 .. Cardinality(evidence)
    /\ answer.markers \subseteq answer.used
    /\ ~answer.malformed
Cited(answer) == IF answer.markers = {} THEN answer.used ELSE answer.markers

(* What _enhance_answer may make of a response: the response itself when   *)
(* there is no evidence, no model, or no answer that counts.               *)
Enhanced(response) ==
    {response} \cup
    {[response EXCEPT !.cited = Cited(answer)]
        : answer \in {g \in Grounded : Resolvable(g, response.evidence)}}
==============================================================================
