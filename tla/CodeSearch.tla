------------------------------ MODULE CodeSearch ------------------------------
(***************************************************************************)
(* A revision from its files to the answers about its code: the Indexer    *)
(* parses and resolves it, the Graph Query agent searches the graph, the   *)
(* Code Analyst reads the files again.  The graph is read only afterwards, *)
(* so one query is one step; IndexPipeline models how it is written.       *)
(***************************************************************************)
EXTENDS SymbolResolution, GraphSearch, CodeAnalysis

CONSTANTS
    Paths,          \* the paths, in the order the files are read
    Programs,       \* the programs to try: functions from paths to statements
    Analyzed,       \* those the Code Analyst is asked about
    Queried         \* those the Graph Query agent is asked about

VARIABLES
    files           \* path -> the statements of the file

vars == <<files, index, answer>>

NoIndex == [entities |-> {}, relations |-> {}]

Init ==
    /\ files \in Programs
    /\ index = NoIndex
    /\ answer = NoAnswer

ParsedFiles(program) ==
    LET paths == SelectSeq(Paths, LAMBDA path : path \in DOMAIN program)
    IN [i \in DOMAIN paths |-> Parse(paths[i], program[paths[i]])]
GraphOf(program) == ResolveRepository(ParsedFiles(program))

IndexRevision ==
    /\ index = NoIndex
    /\ index' = GraphOf(files)
    /\ UNCHANGED <<files, answer>>

(* The names an index holds, relative to their file, and simple ones.      *)
AskedNames(path) ==
    LET skip == Len(ModuleName(path))
        held == {e \in index.entities : e.path = path /\ e.kind \notin {"File", "Module"}}
    IN {SubSeq(e.qualified, skip + 1, Len(e.qualified)) : e \in held} \cup
       {e.name : e \in held}

Analyze ==
    /\ Asking /\ index # NoIndex /\ files \in Analyzed
    /\ UNCHANGED files
    /\ \E path \in DOMAIN files : \E name \in AskedNames(path) :
        \/ Ask({AnalyzeFunction(path, files[path], name)})
        \/ Ask({AnalyzeClass(path, files[path], name)})
        \/ Ask({ExplainImplementation(path, files[path], name)})

Query ==
    /\ index # NoIndex /\ files \in Queried
    /\ Traverse \/ Search
    /\ UNCHANGED files

Next == IndexRevision \/ Query \/ Analyze

Spec == Init /\ [][Next]_vars

(***************************************************************************)
(* What Python binds.  A name is looked up in the functions around the     *)
(* caller, from the innermost outwards, then in the module; a base class,  *)
(* first in the body its class statement stands in.                        *)
(***************************************************************************)
Definitions(entities) ==
    SelectSeq(entities, LAMBDA e : e.kind \in {"Class", "Function", "Method"})

Scopes(r, module, definitions) ==
    LET name == SourceName(r)
        functions == {n \in 1..Len(name) : \E e \in ToSet(definitions) :
                        e.kind # "Class" /\ e.qualified = SubSeq(name, 1, n)}
    IN {Len(module)} \cup
       IF r.kind = "CALLS" THEN functions
       ELSE {n \in functions : n < Len(name)} \cup {Len(name) - 1}

ImportStatement(e) ==
    CHOOSE s \in WalkAll(files[e.path]) : s.is = "import" /\ ToString(s.line) = Last(e.qualified)

(* The package of a module is all but the last part of its path.           *)
Denotes(s, path) ==
    IF s.level = 0 THEN s.target
    ELSE SubSeq(path, 1, Len(path) - s.level) \o s.target

(* "import p.a" binds p; any other import, what it names.                  *)
Plain(s) == ~s.from /\ s.alias = NoAlias
PythonName(s) ==
    IF Plain(s) THEN Head(s.target)
    ELSE IF s.alias # NoAlias THEN s.alias ELSE Last(s.target)
PythonValue(s, path) == IF Plain(s) THEN <<Head(s.target)>> ELSE Denotes(s, path)

ImportsOf(parsed) == {e \in ToSet(parsed.entities) : e.kind = "Import"}
ScopeName(e) == SubSeq(e.qualified, 1, Len(e.qualified) - 2)

(* What the scope binds the first part of a reference to.                  *)
Bound(r, parsed, n) ==
    LET scope == SubSeq(SourceName(r), 1, n)
        first == Head(r.name)
        own == {e.qualified : e \in ToSet(parsed.entities)} \cap {Append(scope, first)}
        imports == {e \in ImportsOf(parsed) :
                        ScopeName(e) = scope /\ PythonName(ImportStatement(e)) = first}
    IN own \cup {PythonValue(ImportStatement(e), e.path) : e \in imports}

(* The name of what the reference means, or nothing.                       *)
Meaning(r, parsed) ==
    LET scopes == {n \in Scopes(r, parsed.module, Definitions(parsed.entities)) :
                        Bound(r, parsed, n) # {}}
        innermost == CHOOSE n \in scopes : \A m \in scopes : m <= n
        class == Front(SourceName(r))
    IN CASE SourceKind(r) = "Method" /\ Len(r.name) = 2 /\ Head(r.name) \in {"self", "cls"} ->
                {class \o Tail(r.name)}
         [] ~(SourceKind(r) = "Method" /\ Len(r.name) = 2 /\ Head(r.name) \in {"self", "cls"})
            /\ scopes # {} ->
                {name \o Tail(r.name) : name \in Bound(r, parsed, innermost)}
         [] OTHER -> {}

(* "from p.m import f" binds f to p.m.f; the resolver's table of imports   *)
(* holds p for it, and no f.                                               *)
TakenForItsRoot(s) == s.from /\ s.level = 0 /\ s.alias = NoAlias

(* When the resolver is bound to find that meaning d: conditions on the    *)
(* statements of the file and the definitions of the revision.  Nothing    *)
(* else in the file has the called name; the file's imports, in whatever   *)
(* scope they stand, bind its first part to nothing else, and none puts    *)
(* another first part p of "p.m" in that place; and a name that a          *)
(* "from p.m import" binds is simple and unique in the revision.           *)
Unambiguous(r, parsed, definitions, d) ==
    LET local == {e \in ToSet(Definitions(parsed.entities)) : e # d}
        first == Head(r.name)
        imports == {s \in WalkAll(files[parsed.path]) : s.is = "import"}
        binding == {s \in imports : PythonName(s) = first}
    IN /\ \A e \in local : e.qualified # r.name /\
                           (Len(r.name) = 1 => e.name # r.name)
       /\ \A s \in binding : PythonValue(s, parsed.path) \o Tail(r.name) = d.qualified
       /\ \A s \in imports :
              TakenForItsRoot(s) /\ Head(s.target) = first => r.name = d.qualified
       /\ (\E s \in binding : TakenForItsRoot(s)) =>
            /\ Len(r.name) = 1
            /\ \A e \in ToSet(definitions) : e.name = r.name => e = d

(* A call or base class that Python binds to a definition, where nothing   *)
(* makes it ambiguous to the resolver, is linked to that definition; and a *)
(* module depends on what it imports.  An off-by-one in the package of a   *)
(* relative import, a wrong order of the two stages or of the candidate    *)
(* names would link a call to another function or to none, in one layout   *)
(* of files.                                                               *)
ResolutionFindsBinding ==
    index # NoIndex /\ answer = NoAnswer =>
        LET parsed == ParsedFiles(files)
            all == EntitiesOf(parsed)
            definitions == Definitions(all)
            links == {[source |-> l.source, line |-> l.line, kind |-> l.kind, target |-> l.target] :
                        l \in {l \in index.relations : l.resolved}}
        IN \A i \in DOMAIN parsed :
            /\ \A r \in ToSet(parsed[i].relations) : Resolvable(r) =>
                \A name \in Meaning(r, parsed[i]) :
                    LET found == Qualified(definitions, name)
                    IN (/\ Len(found) = 1
                        /\ r.kind = "CALLS" \/ found[1].kind = "Class"
                        /\ Unambiguous(r, parsed[i], definitions, found[1]))
                       => [source |-> r.source, line |-> r.line, kind |-> r.kind,
                           target |-> found[1].id] \in links
            /\ \A e \in ImportsOf(parsed[i]) :
                LET s == ImportStatement(e)
                    found == Qualified(all, Denotes(s, e.path))
                IN Len(found) = 1 /\ ScopeName(e) = parsed[i].module =>
                    \E l \in links : l.line = s.line /\ l.kind = "DEPENDS_ON"
                                     /\ l.target = found[1].id

(***************************************************************************)
(* The agents' answers.                                                    *)
(***************************************************************************)
IndexedIn(path) ==
    {e \in index.entities : e.path = path /\ e.kind \in {"Class", "Function", "Method"}}
Relative(e) == SubSeq(e.qualified, Len(ModuleName(e.path)) + 1, Len(e.qualified))
AllowedKinds(allowed) == UNION {IF is = "class" THEN {"Class"} ELSE {"Function", "Method"} :
                                is \in allowed}
DefinedInBlocks(body) ==
    {d.name : d \in {d \in UNION {WalkAll(s.body) : s \in {s \in WalkAll(body) : s.is = "block"}} :
                        d.is \in Classes \cup Functions}}
MethodsOf(e) ==
    {Last(m.qualified) : m \in {m \in IndexedIn(e.path) : m.kind = "Method"
                                   /\ Front(m.qualified) = e.qualified}}

PatternNames(path, pattern) ==
    {p[2] : p \in {p \in Patterns(files[path]) : p[1] = pattern}}
Sources(path, kind) ==
    {Last(r.source[3]) : r \in {r \in index.relations : r.kind = kind /\ r.source[2] = path}}

(* The Code Analyst and the index, which parse the same source each in its *)
(* own way, agree.  What the analyst finds is indexed under the name it    *)
(* gives.  It lists all calls that the graph has of it (and more: those of *)
(* nested definitions).  The methods it lists of a class are methods of    *)
(* the class in the graph, and it lists all of those but the ones defined  *)
(* in a block, such as an if, which only the index looks into.  The only   *)
(* definition of the asked name is located unless the file defines         *)
(* something in a block.  The patterns are those of the graph.             *)
AnalysisAgreesWithIndex ==
    LET same == {e \in IndexedIn(answer.path) : Relative(e) = answer.qualified
                    /\ e.kind \in AllowedKinds({IF answer.kind = "Class" THEN "class" ELSE "def"})}
        named == {e \in IndexedIn(answer.path) : e.kind \in AllowedKinds(answer.allowed)
                    /\ (answer.name = e.name \/ answer.name = Relative(e))}
        parsed == Parse(answer.path, files[answer.path])
    IN CASE answer.is = "analysis" ->
            /\ same # {}
            /\ \A e \in same : Len(Qualified(Definitions(parsed.entities), e.qualified)) = 1 =>
                /\ {r.name : r \in {r \in ToSet(parsed.relations) :
                        r.kind = "CALLS" /\ r.source = e.id}} \subseteq answer.calls
                /\ e.kind = "Class" =>
                    /\ answer.methods \subseteq MethodsOf(e)
                    /\ MethodsOf(e) \ DefinedInBlocks(files[answer.path]) \subseteq answer.methods
         [] answer.is = "not located" ->
            \/ DefinedInBlocks(files[answer.path]) # {}
            \/ \A e \in named : Len(Qualified(parsed.entities, e.qualified)) # 1
            \/ Cardinality(named) # 1
         [] answer.is = "none" /\ index # NoIndex ->
            \A path \in DOMAIN files : Broken \notin ToSet(files[path]) =>
                /\ PatternNames(path, "inheritance") = Sources(path, "INHERITS_FROM")
                /\ PatternNames(path, "decorator") = Sources(path, "DECORATED_BY")
         [] OTHER -> TRUE
=============================================================================
