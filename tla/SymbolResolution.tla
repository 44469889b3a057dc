--------------------------- MODULE SymbolResolution ---------------------------
(***************************************************************************)
(* How calls, base classes and imports find the entities they mean         *)
(* (graph/resolution.py): first within a file, then across the files of a  *)
(* revision.  Dictionaries of lists are kept as sequences, because an      *)
(* entity defined twice counts twice.  Confidences are left out.           *)
(***************************************************************************)
EXTENDS PythonParser, FiniteSets

Qualified(entities, name) == SelectSeq(entities, LAMBDA e : e.qualified = name)
SourceKind(r) == r.source[1]
SourceName(r) == r.source[3]

Resolvable(r) == ~r.resolved /\ r.kind \in {"CALLS", "INHERITS_FROM"}
ResolvedTo(r, e) == [r EXCEPT !.target = e.id, !.name = e.qualified, !.resolved = TRUE]

CandidateNames(r, module) ==
    {r.name} \cup
    (IF Len(r.name) > 1 THEN {}
     ELSE {module \o r.name} \cup
          (IF SourceKind(r) = "Method" THEN {Front(SourceName(r)) \o r.name} ELSE {}))

(* Within a file a call can mean a function only, and the same entity      *)
(* found twice is one candidate.                                           *)
LocalTargets(r, parsed) ==
    LET entities == ToSet(parsed.entities)
        named == {e \in entities : e.qualified \in CandidateNames(r, parsed.module)}
        found == IF named = {} /\ Len(r.name) = 1
                 THEN {e \in entities : e.name = r.name} ELSE named
    IN {e \in found : e.kind \in IF r.kind = "INHERITS_FROM" THEN {"Class"}
                                 ELSE {"Function", "Method"}}

ResolveLocal(parsed) ==
    [parsed EXCEPT !.relations = [i \in DOMAIN @ |->
        LET targets == LocalTargets(@[i], parsed)
        IN IF Resolvable(@[i]) /\ Cardinality(targets) = 1
           THEN ResolvedTo(@[i], CHOOSE e \in targets : TRUE) ELSE @[i]]]

Package(path, name) == IF Last(path) = "__init__" THEN name ELSE Front(name)

(* Mutant: the package of a relative import is one level too high.         *)
AbsoluteImportOffByOne(level, target, package) ==
    IF level = 0 \/ Len(package) < level THEN target
    ELSE SubSeq(package, 1, Len(package) - level) \o target

AbsoluteImport(level, target, package) ==
    IF level = 0 THEN target
    ELSE SubSeq(package, 1, IF Len(package) < level THEN 0 ELSE Len(package) - level + 1)
         \o target

Level(e) == e.import[1]
Target(e) == e.import[2]
Alias(e) == e.import[3]

(* "import p.a" binds p; the code takes "from p.a import f" for the same.  *)
BindsRoot(e) == Level(e) = 0 /\ Len(Target(e)) > 1 /\ Alias(e) = NoAlias
Binding(e) ==
    CASE Alias(e) # NoAlias -> Alias(e)
      [] BindsRoot(e) -> Head(Target(e))
      [] OTHER -> Last(Target(e))
Imported(e, module) ==
    IF BindsRoot(e) THEN <<Head(Target(e))>>
    ELSE AbsoluteImport(Level(e), Target(e), Package(e.path, module))

(* The last import of a file that binds the name, whatever its scope.      *)
ImportAliases(parsed, name) ==
    LET binders == SelectSeq(parsed.entities,
                             LAMBDA e : e.kind = "Import" /\ Binding(e) = name)
    IN IF binders = <<>> THEN <<>> ELSE <<Imported(Last(binders), parsed.module)>>

(* The package is taken from the scope of the import, which is the module  *)
(* only when the import is not inside a definition.                        *)
ImportTargets(e, all) ==
    LET scope == SubSeq(e.qualified, 1, Len(e.qualified) - 2)
    IN Qualified(all, AbsoluteImport(Level(e), Target(e), Package(e.path, scope)))

RepositoryNames(r, parsed) ==
    LET first == Head(r.name)
        rest == Tail(r.name)
        self == first \in {"self", "cls"} /\ rest # <<>> /\ SourceKind(r) = "Method"
        aliases == ImportAliases(parsed, first)
    IN (IF self THEN <<Front(SourceName(r)) \o rest>> ELSE <<>>)
       \o [i \in DOMAIN aliases |-> aliases[i] \o rest]
       \o <<r.name, parsed.module \o r.name>>

(* The first name that means exactly one definition; for a simple name,    *)
(* then, the only definition of the repository that is called so.          *)
RepositoryTarget(r, parsed, all) ==
    LET expected == {"Class"} \cup
                    (IF r.kind = "CALLS" THEN {"Function", "Method"} ELSE {})
        definitions == SelectSeq(all, LAMBDA e : e.kind \in expected)
        names == RepositoryNames(r, parsed)
        matches == SelectSeq([i \in DOMAIN names |-> Qualified(definitions, names[i])],
                             LAMBDA m : Len(m) = 1)
        simple == SelectSeq(definitions, LAMBDA e : e.name = r.name)
    IN CASE matches # <<>> -> matches[1]
         [] matches = <<>> /\ Len(r.name) = 1 /\ Len(simple) = 1 -> simple
         [] OTHER -> <<>>

Across(r, parsed, all) ==
    CASE r.kind = "IMPORTS" ->
            LET import == CHOOSE e \in ToSet(parsed.entities) : e.id = r.target
                targets == ImportTargets(import, all)
            IN IF Len(targets) = 1
               THEN {r, ResolvedTo([r EXCEPT !.kind = "DEPENDS_ON"], targets[1])} ELSE {r}
      [] Resolvable(r) ->
            LET target == RepositoryTarget(r, parsed, all)
            IN IF target = <<>> THEN {r} ELSE {ResolvedTo(r, target[1])}
      [] OTHER -> {r}

RECURSIVE EntitiesOf(_)
EntitiesOf(files) ==
    IF files = <<>> THEN <<>> ELSE Head(files).entities \o EntitiesOf(Tail(files))

(* The graph of a revision: entities and relationships, merged by id.      *)
ResolveRepository(parsedFiles) ==
    LET local == [i \in DOMAIN parsedFiles |-> ResolveLocal(parsedFiles[i])]
        all == EntitiesOf(local)
    IN [entities |-> ToSet(all),
        relations |-> UNION {UNION {Across(r, local[i], all) : r \in ToSet(local[i].relations)}
                             : i \in DOMAIN local}]
=============================================================================
