---- MODULE MCPinLocation ----
(* PinLocation on every LaTeX file of up to MaxLen lines of nine kinds, *)
(* some longer ones, and on small figures.                                  *)
EXTENDS PinLocation
CONSTANT MaxLen

Text(w) == [cat |-> "text", toks |-> <<>>, t |-> w]
Tok(side, e) == [cat |-> "text", toks |-> <<<<side, e>>>>, t |-> NoWord]
BlankLine == [cat |-> "blank", toks |-> <<>>, t |-> NoWord]
CommentLine == [cat |-> "comment", toks |-> <<>>, t |-> "note"]
HeldBack == [cat |-> "comment", toks |-> <<<<"begin", "figure">>>>, t |-> NoWord]
Heading == [cat |-> "section", toks |-> <<>>, t |-> "head"]
Picture == [cat |-> "picture", toks |-> <<>>, t |-> NoWord]
Alphabet == {Text("p"), BlankLine, CommentLine, Heading, HeldBack,
             Tok("begin", "figure"), Tok("end", "figure"), Tok("begin", "list"), Tok("end", "list")}

P == Text("p")
Q == Text("q")
R == Text("r")
MCFollowed == {<<P, Q, R>>, <<P, CommentLine, Q, R>>}
(* Longer files in which a blank line parts an environment from its own end. *)
Parted == {<<Tok("begin", "list"), BlankLine, x, y>> : x, y \in Alphabet}
          \cup {<<x, y, BlankLine, Tok("end", "list")>> : x, y \in Alphabet}
          \cup {<<Tok("begin", "list"), P, BlankLine, x, y, P>> : x, y \in Alphabet}
MCDrafts == UNION {[1..n -> Alphabet] : n \in 1..MaxLen} \cup Parted \cup MCFollowed
MCScripts == {<<R, P, Q>>}
Hit(f, l) == [file |-> f, line |-> l]
MCDrags ==
    {[hits |-> h, words |-> w] :
        h \in {<<>>, <<Hit("pinned", 2)>>, <<Hit("pinned", 1), Hit("pinned", 4), Hit("pinned", 4)>>,
               <<Hit("bib", 1), Hit("pinned", 3)>>, <<Hit("outside", 1), Hit("outside", 2), Hit("pinned", 3)>>},
        w \in {{}, {"p"}, {"p", "q"}, {"p", "elsewhere"}}}

(* A page of a root and three elements under any parent, one of them perhaps *)
(* without lines, broken or off the page.                                   *)
Lines(lo, hi) == {[file |-> "f", lo |-> lo, hi |-> hi, canonical |-> TRUE]}
El(id, parent, frac, src) == [id |-> id, parent |-> parent, frac |-> frac, src |-> src, shaped |-> TRUE]
Root == El("F", NoParent, <<0, 0, Grid, Grid>>, Lines(1, 3))
A(parent, frac) == El("a", parent, frac, Lines(1, 2))
B(parent, frac) == El("b", parent, frac, {})
C(parent, frac) == El("c", parent, frac, Lines(2, 2))
Frames == {<<0, 0, 4, 8>>, <<2, 0, 4, 4>>, <<0, 0, 1, 8>>}
Parents == {"F", "a", "b", "c"}
MCRawMaps ==
    {<<[page |-> 1, figure |-> "F", elements |-> <<A(pa, fa), Root, B(pb, fb), C(pc, fc)>>]>> :
        pa \in Parents, pb \in Parents, pc \in Parents, fa \in Frames, fb \in Frames, fc \in Frames}
    \cup {<<[page |-> n, figure |-> "F", elements |-> els]>> :
             n \in {0, 1}, els \in {<<Root>>, <<Root, A("x", <<0, 0, 4, 4>>)>>, <<Root, A("F", <<6, 0, 4, 4>>)>>,
                                    <<Root, A("F", <<0, 0, 4, 4>>), A("F", <<4, 4, 4, 4>>)>>,
                                    <<A("F", <<0, 0, 4, 4>>)>>}}
MCBoxes == {<<0, 0, 4, 8>>, <<2, 0, 4, 4>>, <<0, 0, 1, 8>>, <<1, 0, 6, 6>>, <<0, 0, 8, 8>>,
            <<0, 3, 2, 2>>, <<3, 3, 0, 0>>, <<7, 7, 1, 1>>}
MCNewTexts == {Q, BlankLine}
MCHome == <<"h", "p">>
MCPinnedRel == <<"s", "a">>
MCOtherRel == <<"t", "s", "a">>
MCRoots == {<<"h", "n">>}
MCDocFolder == <<>>
MCDecoy == <<"t">>
====
