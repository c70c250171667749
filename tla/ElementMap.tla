---- MODULE ElementMap ----
(* A figure document's element map (builds/figure_map.py): what parse_map  *)
(* accepts, which element a drag on a page points at, and the element's    *)
(* range ladder.  A page is the record [page, figure, elements], elements  *)
(* a sequence of                                                           *)
(*     [id, parent, frac, src, shaped]                                     *)
(* with parent = NoParent for the root, frac the box <<x, y, w, h>> on a    *)
(* grid of Grid cells to the side of the page, src the set of the lines    *)
(* [file, lo, hi] that drew it ({} for none).                              *)
EXTENDS Integers, SequencesExt

CONSTANTS Grid,        \* the page's side; FULL_PAGE is Grid by Grid
          MinSide,     \* PICK_MIN_SIDE in grid cells
          LadderMax,   \* LADDER_MAX
          MaxDepth,    \* MAP_MAX_DEPTH
          MaxElements, \* MAP_MAX_ELEMENTS
          NoParent

FullPage == <<0, 0, Grid, Grid>>

(* ---- parse_map -------------------------------------------------------------- *)

OnPage(b) == /\ b[1] >= 0 /\ b[2] >= 0 /\ b[3] > 0 /\ b[4] > 0
             /\ b[1] + b[3] <= Grid /\ b[2] + b[4] <= Grid

(* _element and _source: the first rule an element breaks.  An element     *)
(* whose own fields have another shape than the format's is `shaped` FALSE.*)
ElementRejection(el, used) ==
    CASE ~el.shaped -> {"bad_shape"}
      [] el.id \in used -> {"duplicate_id"}
      [] ~OnPage(el.frac) -> {"bad_frac"}
      [] \E s \in el.src : ~(1 <= s.lo /\ s.lo <= s.hi) -> {"bad_shape"}
      [] \E s \in el.src : ~s.canonical -> {"path_outside"}
      [] OTHER -> {}

RootsOf(els) == {i \in DOMAIN els : els[i].parent = NoParent}
IdsOf(els) == {el.id : el \in Range(els)}

(* _rooted: the elements with the only root first.                         *)
Rooted(els) == LET r == CHOOSE i \in RootsOf(els) : TRUE IN <<els[r]>> \o RemoveAt(els, r)
RootFits(els, figure) ==
    /\ Cardinality(RootsOf(els)) = 1
    /\ \A i \in RootsOf(els) : els[i].id = figure /\ els[i].frac = FullPage

ElementOf(els, id) == els[Min({i \in DOMAIN els : els[i].id = id})]

(* The parents from an element upwards, at most n of them: nearest first,  *)
(* up to the root or to a parent met before or missing.                    *)
ChainOf(els, id) ==
    LET up[n \in Nat] == IF n = 0 THEN <<ElementOf(els, id)>>
            ELSE LET c == up[n - 1]
                     p == Last(c).parent
                 IN IF p \in IdsOf(els) /\ p \notin {e.id : e \in Range(c)}
                    THEN Append(c, ElementOf(els, p)) ELSE c
    IN up[Len(els)]
Ancestors(els, id) == Tail(ChainOf(els, id))

(* _tree_rejection: a parent off the page, a cycle, an element too deep.   *)
TreeRejection(els) ==
    IF \E el \in Range(els) : el.parent \notin IdsOf(els) \cup {NoParent} THEN {"bad_parent"}
    ELSE IF \E id \in IdsOf(els) : Last(ChainOf(els, id)).parent /= NoParent THEN {"bad_parent"}
    ELSE IF \E id \in IdsOf(els) : Len(ChainOf(els, id)) > MaxDepth THEN {"bad_parent"}
    ELSE {}

(* _page: the first rule a page breaks, the ids of earlier pages in used.  *)
PageRejection(p, numbers, used) ==
    LET before(i) == used \cup {p.elements[j].id : j \in 1..(i - 1)}
        broken == {i \in DOMAIN p.elements : ElementRejection(p.elements[i], before(i)) /= {}}
    IN IF p.page < 1 \/ p.page \in numbers THEN {"bad_page"}
       ELSE IF Len(p.elements) > MaxElements THEN {"too_many_elements"}
       ELSE IF broken /= {} THEN ElementRejection(p.elements[Min(broken)], before(Min(broken)))
       ELSE IF ~RootFits(p.elements, p.figure) THEN {"no_root"}
       ELSE TreeRejection(Rooted(p.elements))

(* parse_map: the pages with their roots first, or the first rule broken.  *)
ParseMap(pages) ==
    LET numbers(k) == {pages[j].page : j \in 1..(k - 1)}
        used(k) == UNION {IdsOf(pages[j].elements) : j \in 1..(k - 1)}
        rejection(k) == PageRejection(pages[k], numbers(k), used(k))
        broken == {k \in DOMAIN pages : rejection(k) /= {}}
    IN IF broken /= {} THEN [rejected |-> rejection(Min(broken)), pages |-> <<>>]
       ELSE [rejected |-> {}, pages |-> [k \in DOMAIN pages |->
                                            [pages[k] EXCEPT !.elements = Rooted(@)]]]

(* ---- boxes -------------------------------------------------------------------- *)

Area(b) == b[3] * b[4]
Side(a, b, k) == Min({a[k] + a[k + 2], b[k] + b[k + 2]}) - Max({a[k], b[k]})
Shared(a, b) == IF Side(a, b, 1) > 0 /\ Side(a, b, 2) > 0 THEN Side(a, b, 1) * Side(a, b, 2) ELSE 0

(* _cover and _fill as the pair <<numerator, denominator>>; a drag without *)
(* area is the point at its centre.                                        *)
Cover(box, drag) ==
    IF Area(drag) <= 0
    THEN <<IF \A k \in 1..2 : 2 * box[k] <= 2 * drag[k] + drag[k + 2]
                              /\ 2 * drag[k] + drag[k + 2] <= 2 * (box[k] + box[k + 2])
           THEN 1 ELSE 0, 1>>
    ELSE <<Shared(box, drag), Area(drag)>>
Fill(box, drag) == IF Area(box) > 0 THEN <<Shared(box, drag), Area(box)>> ELSE <<0, 1>>
AtLeast(q, tenths) == 10 * q[1] >= tenths * q[2]

(* _selection_box: an axis shorter than MinSide grows around its middle    *)
(* and is clipped to the page.                                             *)
SelectionBox(b) ==
    LET pad(k) == Max({0, MinSide - b[k + 2]}) \div 2
        from(k) == Max({0, b[k] - pad(k)})
        to(k) == Min({Grid, b[k] + b[k + 2] + pad(k)})
    IN <<from(1), from(2), to(1) - from(1), to(2) - from(2)>>

(* ---- pick_element --------------------------------------------------------------- *)

CoverMin == 4
FillMin == 5
RivalGap == 1
RivalFill == 9

(* Step 1's candidates; thin elements join when no candidate is filled.    *)
Covering(els, drag) ==
    LET held == {i \in 2..Len(els) : AtLeast(Cover(els[i].frac, drag), CoverMin)}
        thin == {i \in 2..Len(els) : /\ AtLeast(Fill(els[i].frac, drag), FillMin)
                                      /\ AtLeast(Cover(SelectionBox(els[i].frac), drag), CoverMin)}
    IN IF Area(drag) > 0 /\ ~\E i \in held : AtLeast(Fill(els[i].frac, drag), FillMin)
       THEN held \cup thin ELSE held

(* Descendants displace their ancestors; then the smaller, then the earlier.*)
Smallest(els, cands) ==
    LET above == UNION {{e.id : e \in Range(Ancestors(els, els[i].id))} : i \in cands}
        deepest == {i \in cands : els[i].id \notin above}
    IN CHOOSE i \in deepest : \A j \in deepest :
          Area(els[i].frac) < Area(els[j].frac) \/ (Area(els[i].frac) = Area(els[j].frac) /\ i <= j)

(* _common_ancestor: the first of one element's chain that is in them all. *)
CommonAncestor(els, picked) ==
    LET shared(e) == \A i \in picked : e \in Range(ChainOf(els, els[i].id))
        of(first) == first[Min({k \in DOMAIN first : shared(first[k])})]
    IN of(ChainOf(els, els[Min(picked)].id))

(* _has_rival: an element that is no kin of the choice and covers the drag *)
(* nearly as well, or is itself nearly all inside it.                      *)
HasRival(els, chosen, cands, drag) ==
    LET idsAbove(id) == {e.id : e \in Range(ChainOf(els, id))}
        score == Cover(chosen.frac, drag)
        near(i) == LET c == Cover(SelectionBox(els[i].frac), drag)
                   IN 10 * c[1] * score[2] >= (10 * score[1] - RivalGap * score[2]) * c[2]
    IN \E i \in 2..Len(els) :
          /\ els[i].id \notin idsAbove(chosen.id)
          /\ (i \in cands /\ near(i)) \/ AtLeast(Fill(els[i].frac, drag), RivalFill)
          /\ chosen.id \notin idsAbove(els[i].id)

(* _ladder: the element and its ancestors, at most LadderMax below the     *)
(* root, then the root.                                                    *)
LadderOf(els, chosen) ==
    LET below == SelectSeq(ChainOf(els, chosen.id), LAMBDA e : e.parent /= NoParent)
    IN SubSeq(below, 1, Min({LadderMax, Len(below)})) \o <<els[1]>>

(* pick_element: every drag on an accepted page gets an answer.            *)
PickElement(els, drag) ==
    LET answer(cands, chosen) == [chosen |-> chosen, ladder |-> LadderOf(els, chosen), cands |-> cands,
                                  rival |-> HasRival(els, chosen, cands, drag)]
        over(filled) == IF filled /= {} THEN CommonAncestor(els, filled) ELSE els[1]
        from(cands) == answer(cands, IF cands /= {} THEN els[Smallest(els, cands)]
                                     ELSE over({i \in 2..Len(els) : AtLeast(Fill(els[i].frac, drag), FillMin)}))
    IN from(Covering(els, drag))

(* ---- the rungs ----------------------------------------------------------------------- *)

(* element_rungs: the ladder's elements whose lines are in the chosen      *)
(* element's file and fit it; equal lines merge into the inner rung.  None *)
(* unless the chosen element has lines that fit.                           *)
ElementRungs(ladder, nLines) ==
    LET fits(e) == \E s \in e.src : /\ \E c \in ladder[1].src : c.file = s.file
                                    /\ s.hi <= nLines
        lines(r) == CHOOSE s \in r.el.src : TRUE
        met(before, r) == \E j \in DOMAIN before : before[j].lo = lines(r).lo /\ before[j].hi = lines(r).hi
        add(rungs, r) ==
            IF met(rungs, r) THEN rungs
            ELSE Append(rungs, [level |-> r.rung, el |-> r.el.id, lo |-> lines(r).lo, hi |-> lines(r).hi])
        from(rungs) == IF rungs /= <<>> /\ rungs[1].level = 1 THEN rungs ELSE <<>>
    IN from(FoldLeft(add, <<>>, SelectSeq([k \in DOMAIN ladder |-> [rung |-> k, el |-> ladder[k]]], LAMBDA r : fits(r.el))))
====
