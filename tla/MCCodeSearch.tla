----------------------------- MODULE MCCodeSearch -----------------------------
(***************************************************************************)
(* Programs of three files of a package p, made of fragments that may each *)
(* stand in any file or in none.  A file takes its fragments in order.     *)
(***************************************************************************)
EXTENDS CodeSearch

A == <<"p", "a">>
B == <<"p", "b">>
Root == <<"p", "__init__">>
InitOfA == Append(A, "__init__")
MCPaths == <<A, InitOfA, B, Root>>

Fn(name, body, line) == Definition("def", name, <<>>, <<>>, <<>>, body, line)

(* from . import a; def h(): a.f()                                         *)
Relative1 == <<Import(TRUE, 1, <<"a">>, NoAlias, 1), Fn("h", <<Call(<<"a", "f">>, 3)>>, 2)>>
(* def f(): pass                                                           *)
Simple == <<Fn("f", <<>>, 11)>>
(* class C(D): m calls f, C and self.n; n; and what else is in its body    *)
Class(more) == <<Definition("class", "C", <<<<"D">>>>, <<>>, <<>>,
             <<Definition("def", "m", <<>>, <<"self">>, <<"dec">>,
                 <<Call(<<"self", "n">>, 23), Call(<<"f">>, 24), Call(<<"C">>, 25)>>, 22),
               Definition("def", "n", <<>>, <<"self">>, <<>>, <<>>, 26)>> \o more, 21)>>
(* if ...: def o(self): pass                                               *)
InBlock == <<Block(<<Definition("def", "o", <<>>, <<"self">>, <<>>, <<>>, 28)>>)>>
(* from p.b import f; import p.a as z; def k(): f(); z.f()                 *)
Absolute == <<Import(TRUE, 0, <<"p", "b", "f">>, NoAlias, 31),
              Import(FALSE, 0, <<"p", "a">>, "z", 32),
              Fn("k", <<Call(<<"f">>, 34), Call(<<"z", "f">>, 35)>>, 33)>>
(* def g(): def f(): ...; f(); if ...: class D: ...                        *)
Nested == <<Fn("g", <<Fn("f", <<>>, 42), Call(<<"f">>, 43)>>, 41),
            Block(<<Definition("class", "D", <<>>, <<>>, <<>>, <<>>, 45)>>)>>
(* import p.b; def q(): from .a import f, f as C; p.b.f(); f()             *)
Local == <<Import(FALSE, 0, <<"p", "b">>, NoAlias, 51),
           Fn("q", <<Import(TRUE, 1, <<"a", "f">>, NoAlias, 53),
                     Import(TRUE, 1, <<"a", "f">>, "C", 56),
                     Call(<<"p", "b", "f">>, 54), Call(<<"f">>, 55)>>, 52)>>

Fragments(class) == <<Relative1, Simple, class, Absolute, Nested, Local, Simple>>

Chosen(fragments, placing, path) ==
    LET taken == SelectSeq([i \in DOMAIN fragments |-> i], LAMBDA i : placing[i] = path)
    IN FlattenSeq([j \in DOMAIN taken |-> fragments[taken[j]]])

Program(fragments, placing) ==
    [path \in {A, B, Root} |-> Chosen(fragments, placing, path)]
Placed(places) ==
    {Program(Fragments(Class(InBlock)), placing) : placing \in [1..7 -> places]}

WithoutBlock(placing) == Program(Fragments(Class(<<>>)), placing)
Dense == WithoutBlock(<<Root, A, B, <<>>, B, A, B>>)
(* p/a.py and p/a/__init__.py are both a module p.a.                       *)
TwoModules == WithoutBlock(<<A, <<>>, <<>>, A, <<>>, <<>>, <<>>>>) @@ (InitOfA :> Relative1 \o Nested)
MCQueried == {WithoutBlock(<<B, A, A, Root, <<>>, A, <<>>>>), Dense,
              [Dense EXCEPT ![A] = Append(@, Broken)], TwoModules}
MCPrograms == Placed({A, B, Root, <<>>}) \cup MCQueried
MCAnalyzed == Placed({A, B}) \cup MCQueried
MCGraphs == {GraphOf(program) : program \in MCQueried}
MCOtherNodes == {SymbolId("Class", <<"x">>)}
MCWords == {<<"f">>, <<"C">>}
MCNames == {A, A \o <<"f">>, B \o <<"h">>}
=============================================================================
