----------------------------- MODULE CodeAnalysis -----------------------------
(***************************************************************************)
(* The Code Analyst's view of a file (analysis/service.py): it parses the  *)
(* source again and finds an entity in it by name.  A name is relative to  *)
(* the file: simple, or the whole path through the definitions around it.  *)
(* Texts (signatures, snippets, docstrings, control flow, expressions) are *)
(* left out.                                                               *)
(***************************************************************************)
EXTENDS PythonParser, FiniteSets

Classes == {"class"}
Functions == {"def"}

(* The definitions _locate visits, with their names: those in the bodies   *)
(* of the file and of definitions, not those in blocks.                    *)
RECURSIVE Located(_, _)
Located(body, prefix) ==
    IF body = <<>> THEN <<>>
    ELSE LET s == Head(body)
             name == Append(prefix, s.name)
         IN (IF s.is \in Classes \cup Functions
             THEN <<[node |-> s, qualified |-> name]>> \o Located(s.body, name)
             ELSE <<>>)
            \o Located(Tail(body), prefix)

(* ast.walk: a statement and everything below it.                          *)
RECURSIVE Walk(_)
Walk(s) == {s} \cup UNION {Walk(s.body[i]) : i \in DOMAIN s.body}
WalkAll(body) == UNION {Walk(body[i]) : i \in DOMAIN body}

Answers(name, node, qualified) == name \in {<<node.name>>, qualified}

(* Mutant: only a simple name is compared.                                 *)
LocateSimply(body, name, allowed) ==
    LET found == SelectSeq(Located(body, <<>>),
                           LAMBDA d : d.node.is \in allowed /\ <<d.node.name>> = name)
    IN IF Len(found) = 1 THEN found ELSE <<>>

Locate(body, name, allowed) ==
    LET found == SelectSeq(Located(body, <<>>),
                           LAMBDA d : d.node.is \in allowed /\ Answers(name, d.node, d.qualified))
    IN IF Len(found) = 1 THEN found ELSE <<>>

(* A function with a dotted name is a method, whatever holds it.           *)
AnalysisKind(d) ==
    CASE d.node.is = "class" -> "Class"
      [] d.node.is = "def" /\ Len(d.qualified) > 1 -> "Method"
      [] OTHER -> "Function"

AnalyzeEntity(path, body, name, allowed) ==
    LET located == Locate(body, name, allowed)
        d == located[1]
        methods == {i \in DOMAIN d.node.body : d.node.body[i].is = "def"}
    IN IF located = <<>> \/ Broken \in ToSet(body)
       THEN [is |-> "not located", path |-> path, name |-> name, allowed |-> allowed]
       ELSE [is |-> "analysis", path |-> path, name |-> name, allowed |-> allowed,
             qualified |-> d.qualified, kind |-> AnalysisKind(d),
             bases |-> d.node.bases, decorators |-> d.node.decorators,
             parameters |-> d.node.params,
             methods |-> IF d.node.is = "class"
                         THEN {d.node.body[i].name : i \in methods} ELSE {},
             calls |-> {s.reference : s \in {s \in Walk(d.node) : s.is = "call"}}]

AnalyzeFunction(path, body, name) == AnalyzeEntity(path, body, name, Functions)
AnalyzeClass(path, body, name) == AnalyzeEntity(path, body, name, Classes)
ExplainImplementation(path, body, name) ==
    AnalyzeEntity(path, body, name, Classes \cup Functions)

(* Statically observable patterns, by the name of the entity.              *)
Patterns(body) ==
    LET all == WalkAll(body)
        defined == {s \in all : s.is \in Classes \cup Functions}
    IN {<<"inheritance", s.name>> : s \in {s \in defined : s.bases # <<>>}} \cup
       {<<"decorator", s.name>> : s \in {s \in defined : s.decorators # <<>>}} \cup
       {<<"dependency injection", s.reference>> :
            s \in {s \in all : s.is = "call" /\ Last(s.reference) = "Depends"}}
=============================================================================
