----------------------------- MODULE PythonParser -----------------------------
(***************************************************************************)
(* What the Indexer extracts from a Python file (indexing/ast_parser.py).  *)
(*                                                                         *)
(* A file is its path and its statements.  Names are sequences: the path   *)
(* <<"p", "a">> is p/a.py, the reference <<"self", "f">> is self.f.  The   *)
(* statements are definitions, imports (one record per imported name),     *)
(* calls, and blocks: the bodies of if, try, with and the like.  "import   *)
(* p.a" has the target <<"p", "a">> and so has "from p import a", which    *)
(* differs in "from".  Line numbers tell statements apart.  Texts, types,  *)
(* hashes, docstrings, star imports and calls of expressions are left out. *)
(*                                                                         *)
(* The operators are recursive: this module is for TLC alone.              *)
(***************************************************************************)
EXTENDS Naturals, Sequences, SequencesExt

Definition(what, name, bases, params, decorators, body, line) ==
    [is |-> what, name |-> name, bases |-> bases, params |-> params,
     decorators |-> decorators, body |-> body, line |-> line]
Import(from, level, target, alias, line) ==
    [is |-> "import", from |-> from, level |-> level, target |-> target,
     alias |-> alias, line |-> line, body |-> <<>>]
Call(reference, line) ==
    [is |-> "call", reference |-> reference, line |-> line, body |-> <<>>]
Block(body) == [is |-> "block", body |-> body]
Broken == [is |-> "broken", body |-> <<>>]

NoAlias == ""
NoImport == <<>>

ModuleName(path) == IF Last(path) = "__init__" THEN Front(path) ELSE path

StableId(kind, path, qualified) == <<kind, path, qualified>>
SymbolId(kind, name) == <<"symbol", kind, name>>

Entity(path, kind, name, qualified, import) ==
    [id |-> StableId(kind, path, qualified), kind |-> kind, path |-> path,
     name |-> name, qualified |-> qualified, import |-> import]

Relationship(kind, source, target, name, resolved, line) ==
    [kind |-> kind, source |-> source, target |-> target, name |-> name,
     resolved |-> resolved, line |-> line]

(* What a part of a file yields: its entities and relationships, in order. *)
Yield(entities, relations) == [entities |-> entities, relations |-> relations]
Nothing == Yield(<<>>, <<>>)
Joined(a, b) == Yield(a.entities \o b.entities, a.relations \o b.relations)
RECURSIVE JoinedAll(_)
JoinedAll(parts) ==
    IF parts = <<>> THEN Nothing ELSE Joined(Head(parts), JoinedAll(Tail(parts)))

(* An entity the scope owns, and the relationship that says so.            *)
Owned(path, scope, relation, kind, name, qualified, import, line) ==
    LET entity == Entity(path, kind, name, qualified, import)
    IN Yield(<<entity>>,
             <<Relationship(relation, scope.id, entity.id, qualified, TRUE, line)>>)

Decorators(path, owner, s) ==
    JoinedAll([i \in DOMAIN s.decorators |->
        Owned(path, owner, "DECORATED_BY", "Decorator", <<s.decorators[i]>>,
              owner.qualified \o <<"__decorator__", ToString(i)>>, NoImport, s.line)])

Parameters(path, owner, s) ==
    JoinedAll([i \in DOMAIN s.params |->
        Owned(path, owner, "HAS_PARAMETER", "Parameter", <<s.params[i]>>,
              Append(owner.qualified, s.params[i]), NoImport, s.line)])

Bases(owner, s) ==
    Yield(<<>>, [i \in DOMAIN s.bases |->
        Relationship("INHERITS_FROM", owner.id, SymbolId("Class", s.bases[i]),
                     s.bases[i], FALSE, s.line)])

DefinitionKind(scope, s) ==
    CASE s.is = "class" -> "Class"
      [] s.is = "def" /\ scope.kind = "Class" -> "Method"
      [] OTHER -> "Function"

Called(scope, s) ==
    IF scope.kind \in {"Function", "Method"}
    THEN Yield(<<>>, <<Relationship("CALLS", scope.id, SymbolId("Function", s.reference),
                                    s.reference, FALSE, s.line)>>)
    ELSE Nothing

(* Decorators, defaults and bases are not visited for calls.               *)
RECURSIVE Visit(_, _, _)
VisitAll(path, scope, body) ==
    JoinedAll([i \in DOMAIN body |-> Visit(path, scope, body[i])])
Visit(path, scope, s) ==
    CASE s.is \in {"class", "def"} ->
            LET kind == DefinitionKind(scope, s)
                entity == Entity(path, kind, <<s.name>>, Append(scope.qualified, s.name), NoImport)
            IN JoinedAll(<<Owned(path, scope, "CONTAINS", kind, entity.name, entity.qualified,
                                 NoImport, s.line),
                           Bases(entity, s), Decorators(path, entity, s),
                           Parameters(path, entity, s), VisitAll(path, entity, s.body)>>)
      [] s.is = "import" ->
            Owned(path, scope, "IMPORTS", "Import", s.target,
                  scope.qualified \o <<"__import__", ToString(s.line)>>,
                  <<s.level, s.target, s.alias>>, s.line)
      [] s.is = "call" -> Joined(Called(scope, s), VisitAll(path, scope, s.body))
      [] OTHER -> VisitAll(path, scope, s.body)

(* A file with a syntax error yields nothing.                              *)
Parse(path, body) ==
    LET file == Entity(path, "File", path, Append(path, ".py"), NoImport)
        module == Entity(path, "Module", <<Last(ModuleName(path))>>, ModuleName(path), NoImport)
        all == JoinedAll(<<Yield(<<file>>, <<>>),
                           Owned(path, file, "CONTAINS", "Module", module.name,
                                 module.qualified, NoImport, 1),
                           VisitAll(path, module, body)>>)
        parsed == IF Broken \in ToSet(body) THEN Nothing ELSE all
    IN [path |-> path, module |-> ModuleName(path),
        entities |-> parsed.entities, relations |-> parsed.relations]
=============================================================================
