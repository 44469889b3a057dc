---------------------------- MODULE MCIndexPipeline ----------------------------
(* Instances of IndexPipeline for TLC: contents a and b share a symbol and *)
(* b defines a second one; bad does not parse.                             *)
EXTENDS IndexPipeline, TLC

CONSTANTS r1, r2, r3, a, b, bad, s1, s2

MCContents == {a, b, bad}
MCSymbolsOf == a :> {s1} @@ b :> {s1, s2} @@ bad :> {}

(* Two revisions of two files: one file changes and one goes (or, indexed  *)
(* the other way round, comes); one goes on, with more symbols than a      *)
(* scroll of one point returns, and one breaks.                            *)
Tree(x, y) == 1 :> x @@ 2 :> y
TwoRevisionTrees ==
    {r1 :> Tree(a, b) @@ r2 :> Tree(b, NoContent),
     r1 :> Tree(b, a) @@ r2 :> Tree(b, bad)}

(* Three revisions of one file.                                            *)
ThreeRevisionTrees ==
    {[r \in {r1, r2, r3} |-> 1 :> h[r]] : h \in [{r1, r2, r3} -> {a, b, NoContent}]}
=============================================================================
