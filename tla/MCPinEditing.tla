---- MODULE MCPinEditing ----
(* PinEditing on a LaTeX source of two lines, a figure whose root changes  *)
(* from build to build, and a view-only PDF; one client is a person, the   *)
(* other an agent or another person.                                       *)
EXTENDS PinEditing

MCSurfaceOf == [latex |-> "lines", figure |-> "element", pdf |-> "region"]
MCFirstLines == <<"a", "b">>
Raw(big, keys) == [big |-> big, keys |-> keys]
MCWords == [latex |-> {Raw(FALSE, <<"no", "ok">>)}, figure |-> {Raw(FALSE, <<"ok">>), Raw(TRUE, <<"ok">>)},
            pdf |-> {Raw(FALSE, <<"ok">>), Raw(FALSE, <<"ok", "ok">>)}]
MCMaxAsked == [latex |-> 3, figure |-> 3, pdf |-> 2]
MCMaxWrites == [latex |-> 1, figure |-> 0, pdf |-> 0]
MCMaxWordWrites == [latex |-> 0, figure |-> 0, pdf |-> 2]
MCMaxBuilds == [latex |-> 1, figure |-> 3, pdf |-> 2]
MCMaxTurns == [latex |-> 2, figure |-> 1, pdf |-> 0]
MCRootOf == <<"F", "G", "F">>
MCExact == <<{1, 3}, {2}, {1, 3}>>

Range2(lo, hi) == [sort |-> "lines", lo |-> lo, hi |-> hi]
Element(path) == [sort |-> "element", path |-> path]
Page(whole) == [sort |-> "region", page |-> 1, whole |-> whole]
Add(place) == [place |-> place, verdict |-> {}, question |-> FALSE, texts |-> {}]
Verdict(place) == [Add(place) EXCEPT !.verdict = {"ok"}]
MCNewPins ==
    [latex |-> {Verdict(Range2(1, 1)), Verdict(Range2(1, 2)),
                [Add(Range2(1, 1)) EXCEPT !.texts = {<<"x">>, <<>>}]},
     figure |-> {Verdict(Element(<<"F">>)), Verdict(Element(<<"F", "p">>)), Verdict(Element(<<"G">>)),
                 [Verdict(Element(<<"F">>)) EXCEPT !.question = TRUE], Add(Element(<<"F">>))},
     pdf |-> {Verdict(Page(TRUE)), Verdict(Page(FALSE))}]

NoChange == [loc |-> {}, lo |-> {}, hi |-> {}, scope |-> FALSE, kindReq |-> {}, suggest |-> {}, removes |-> FALSE, append |-> FALSE,
             verdictSent |-> FALSE, nulls |-> FALSE]
Appended == [NoChange EXCEPT !.append = TRUE]
Suggest(base, text) == {[base |-> base, text |-> text]}
MCChanges ==
    [latex |-> {[Appended EXCEPT !.hi = {2}], [NoChange EXCEPT !.lo = {2}, !.hi = {2}],
                [NoChange EXCEPT !.suggest = Suggest(<<"a">>, <<"x">>)],
                [NoChange EXCEPT !.suggest = Suggest(<<"b">>, <<>>), !.lo = {2}, !.hi = {2}],
                [NoChange EXCEPT !.suggest = Suggest(<<"a">>, <<>>), !.lo = {2}, !.hi = {2}],
                [NoChange EXCEPT !.removes = TRUE]},
     figure |-> {[NoChange EXCEPT !.loc = {Element(<<"F">>)}], [NoChange EXCEPT !.kindReq = {"question"}],
                 [NoChange EXCEPT !.verdictSent = TRUE], [NoChange EXCEPT !.nulls = TRUE], Appended,
                 [Appended EXCEPT !.loc = {Element(<<"G">>)}]},
     pdf |-> {[NoChange EXCEPT !.loc = {Page(TRUE)}], [NoChange EXCEPT !.lo = {1}], [NoChange EXCEPT !.scope = TRUE],
              Appended}]
====
