---- MODULE MCComparisons ----
(* Comparisons over a fork merged again, a line merged from elsewhere, and *)
(* edits of up to three changes.                                           *)
EXTENDS Comparisons

MCParents == <<<<>>, <<1>>, <<2>>, <<2>>, <<3, 4>>, <<>>, <<5, 6>>>>
MCNumberOf == <<None, None, "#3", None, None, None, None>>

(* Lines of one screen line, or of two when a form feed stands in them.    *)
Line(name, torn) == IF torn THEN <<<<name, "x">>, <<<<name, "after">>, "x">>>> ELSE <<<<name, "x">>>>
Some(kind, i, n, torn) == [k \in 1..n |-> Line(<<kind, i, k>>, torn /\ k = 1)]
Same(i, n, torn) == LET lines == Some("kept", i, n, torn) IN IF n = 0 THEN <<>> ELSE <<[old |-> lines, new |-> lines]>>
Edit(i, shape, torn) == <<[old |-> Some("old", i, shape[1], FALSE), new |-> Some("new", i, shape[2], torn)]>>
Script(lead, shapes, gap, trail, torn) ==
    Same(0, lead, torn = "kept")
    \o FlattenSeq([i \in DOMAIN shapes |->
                     Edit(i, shapes[i], torn = "new") \o Same(i, IF i = Len(shapes) THEN trail ELSE gap[i], torn = "kept")])
Shapes == {<<0, 1>>, <<1, 0>>, <<2, 1>>}
MCWorked == {Script(2, <<<<2, 1>>, <<0, 1>>>>, <<3>>, 1, "none")}
MCScripts == {Script(lead, shapes, gap, trail, torn) :
                 <<lead, shapes, gap, trail, torn>> \in {0, 2} \X (UNION {[1..n -> Shapes] : n \in 1..3})
                                                        \X [1..2 -> {1, 4, 5}] \X {0, 2} \X {"none", "kept", "new"}}
             \cup MCWorked
MCOthers == <<FileChange("fig.pdf", "fig.pdf", "binary", <<>>)>>

Fact(lo, hi, stale, ref, changes) ==
    [path |-> File, lo |-> lo, hi |-> hi, stale |-> stale, closeRef |-> ref, changes |-> changes,
     anchor |-> {[head |-> Line(<<"kept", 0, 2>>, FALSE)[1], tail |-> Line(<<"kept", 1, 1>>, FALSE)[1],
                  headOff |-> 0, tailOff |-> 0]}]
NoRef == [hash |-> None, number |-> None]
MCPinFacts == {Fact(2, 5, FALSE, NoRef, {}),
               Fact(2, 4, FALSE, [hash |-> 3, number |-> None], {[path |-> File, lo |-> 7, hi |-> 7]}),
               Fact(2, 4, FALSE, [hash |-> None, number |-> "#3"], {[path |-> File, lo |-> 7, hi |-> 7], [path |-> File, lo |-> 3, hi |-> 3]})}

Query(kind, commit, base, asked) == [kind |-> kind, commit |-> commit, base |-> base, pin |-> asked]
MCQueries == {Query("page", 5, None, FALSE), Query("diff", 3, None, TRUE), Query("build", 3, None, TRUE),
              Query("build", 3, 4, FALSE), Query("build", 5, 1, FALSE), Query("sources", 3, 4, FALSE),
              Query("diff", 3, 5, FALSE), Query("build", 4, 6, FALSE), Query("build", 1, None, FALSE),
              Query("diff", 1, None, TRUE)}

Entry(name, stem, picture, size, words, edged, sort) ==
    [name |-> name, stem |-> stem, picture |-> picture, size |-> size, words |-> words, edged |-> edged, sort |-> sort]
Root(words, size, big, edged) ==
    {Entry("main", "main", FALSE, size, words, FALSE, "file"), Entry("p.pdf", "p", TRUE, big, {}, edged, "file"),
     Entry("q.pdf", "q", TRUE, 2, {}, FALSE, "file"), Entry(".notes", ".notes", FALSE, 9, {"q"}, FALSE, "dot")}
Roots == {Root(words, size, big, edged) : <<words, size, big, edged>> \in (SUBSET {"p", "q.pdf"}) \X {1, 2} \X {2, 3} \X BOOLEAN}
         \cup {{Entry("main", "main", FALSE, 1, {}, FALSE, "unsafe")}, {Entry("p.pdf", "p", TRUE, 1, {}, FALSE, "file")}}
MCTrees == Roots \X Roots \X {{}, {"q"}}
MCRepo == <<"repo">>
MCFolder == <<"repo", "paper">>
Symmetric == Permutations(Clients)
====
