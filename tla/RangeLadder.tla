---- MODULE RangeLadder ----
(* Which lines of a LaTeX source a drag means: pins/location/mapping.py     *)
(* with the sampling and weighing of pins/location/source.py.  A file is a *)
(* sequence of lines, a line the record                                    *)
(*     [cat, toks, t]                                                      *)
(* of what the rules can see of it: its category, the \begin and \end      *)
(* tokens on it as <<side, environment>> pairs, and the word that makes it *)
(* the line it is (NoWord on a line without words).                        *)
EXTENDS Integers, SequencesExt

CONSTANTS Listed,      \* the environments of --float-envs
          FloatKinds,  \* figure, table, algorithm
          Document,    \* the environment named document
          NoWord,
          LadderEnvs,  \* encl[:3], the environment rungs a ladder shows
          Gap,         \* densest's gap between two clusters of lines
          Common       \* a word on more than one line in Common names no place

Blank(l)     == l.cat = "blank"
Comment(l)   == l.cat = "comment"
Section(l)   == l.cat = "section"
Opens(l, e)  == \E i \in DOMAIN l.toks : l.toks[i] = <<"begin", e>>
Closes(l, e) == \E i \in DOMAIN l.toks : l.toks[i] = <<"end", e>>

(* ---- the two paths of a drag -------------------------------------------- *)

(* densest: a sorted sequence broken where two neighbours lie further than *)
(* Gap apart; the longest group, the first of the longest.                 *)
Densest(values) ==
    LET broken == {i \in 2..Len(values) : values[i] - values[i - 1] > Gap}
        starts == {1} \cup broken
        end(s) == Min({i - 1 : i \in {j \in broken : j > s}} \cup {Len(values)})
        size(s) == end(s) - s + 1
        best == CHOOSE s \in starts : \A o \in starts : size(s) > size(o) \/ (size(s) = size(o) /\ s <= o)
    IN SubSeq(values, best, end(best))

(* synctex_range: hits is a sequence of [file, line]; the answer names one *)
(* of the files hit most, {} when no sample mapped.                        *)
SynctexRange(hits) ==
    LET files == {h.file : h \in Range(hits)}
        linesIn(f) == LET mine == SelectSeq(hits, LAMBDA h : h.file = f)
                      IN SortSeq([i \in DOMAIN mine |-> mine[i].line], <)
        most == {f \in files : \A g \in files : Len(linesIn(f)) >= Len(linesIn(g))}
    IN {[file |-> f, lo |-> Densest(linesIn(f))[1], hi |-> Last(Densest(linesIn(f)))] : f \in most}

(* TokenCache.weights, the words that name a place: a word on too many     *)
(* lines (more than one in Common) is dropped, the rarer the heavier.    *)
(* Weights are in units of 1 / Unit.                                       *)
Freq(lines, w) == Cardinality({i \in DOMAIN lines : lines[i].t = w})
Kept(words, lines) == {w \in words : Freq(lines, w) * Common <= Len(lines)}
Unit == 60
Weight(lines, w) == Unit \div (1 + Freq(lines, w))
TotalWeight(words, lines) == MapThenSumSet(LAMBDA w : Weight(lines, w), words)
Held(words, lines, lo, hi) == {w \in words : \E i \in lo..hi : lines[i].t = w}

(* score_range, as its numerator over TotalWeight: the words found in the  *)
(* range and the line on either side of it.                                *)
ScoreRange(words, lines, lo, hi) ==
    TotalWeight(Held(words, lines, Max({1, lo - 1}), Min({hi + 1, Len(lines)})), lines)

WithoutText(l) == l.t = NoWord /\ l.cat /= "picture"
OneWordWillDo(words, lines, near) ==
    /\ Cardinality(words) = 1 /\ near \in DOMAIN lines
    /\ WithoutText(lines[near])
    /\ \A w \in words : Freq(lines, w) = 1

(* by_text: the heaviest line, the nearest to SyncTeX's line of equals,    *)
(* grown over the neighbours that hold a word.  near = 0 stands for None.  *)
ByText(words, lines, near) ==
    LET score(i) == IF lines[i].t \in words THEN Weight(lines, lines[i].t) ELSE 0
        away(i) == IF near = 0 THEN 0 ELSE IF i < near THEN near - i ELSE i - near
        better(i, j) == \/ score(i) > score(j)
                        \/ score(i) = score(j) /\ away(i) < away(j)
                        \/ score(i) = score(j) /\ away(i) = away(j) /\ i <= j
        grown(hits, peak) == [via |-> "text", lo |-> Min({i \in 1..peak : i..peak \subseteq hits}),
                              hi |-> Max({i \in peak..Len(lines) : peak..i \subseteq hits})]
        peaks(hits) == {grown(hits, peak) : peak \in {i \in hits : \A j \in hits : better(i, j)}}
    IN IF Cardinality(words) < 2 /\ ~OneWordWillDo(words, lines, near) THEN {}
       ELSE peaks({i \in DOMAIN lines : score(i) > 0})

(* ---- block expansion ------------------------------------------------------ *)

(* env_spans: every environment paired by name and depth, in the order in  *)
(* which they close; a token inside a comment is not read.                 *)
CloseSpan(acc, env, i, open) ==
    IF open = {} THEN acc
    ELSE [stack |-> SubSeq(acc.stack, 1, Max(open) - 1),
          spans |-> Append(acc.spans, [lo |-> acc.stack[Max(open)][2], hi |-> i, env |-> env])]
EnvSpans(lines) ==
    LET tokens == FlattenSeq([i \in DOMAIN lines |->
                      IF Comment(lines[i]) THEN <<>>
                      ELSE [k \in DOMAIN lines[i].toks |-> <<i, lines[i].toks[k]>>]])
        step(acc, tok) ==
            IF tok[2][1] = "begin" THEN [acc EXCEPT !.stack = Append(@, <<tok[2][2], tok[1]>>)]
            ELSE CloseSpan(acc, tok[2][2], tok[1], {k \in DOMAIN acc.stack : acc.stack[k][1] = tok[2][2]})
    IN FoldLeft(step, [stack |-> <<>>, spans |-> <<>>], tokens).spans

Flows(l) == ~Blank(l) /\ ~Section(l)

(* para_bounds: to the nearest blank line; a heading is not crossed.       *)
ParaBounds(lines, lo, hi) ==
    [lo |-> Min({a \in 1..lo : \A i \in a..(lo - 1) : Flows(lines[i])}),
     hi |-> Max({b \in hi..Len(lines) : \A i \in (hi + 1)..b : Flows(lines[i])})]

(* trim_comments: the comments at either end go, unless all are comments.  *)
TrimComments(lines, r) ==
    LET body == {i \in r.lo..r.hi : ~Comment(lines[i])}
    IN IF body = {} THEN r ELSE [lo |-> Min(body), hi |-> Max(body)]

(* expand_block: from lo upwards to the first \begin of a listed           *)
(* environment, unless an \end of one comes first; down to the \end of the *)
(* same name at the same depth.  Comments are read here as text is.        *)
ListedAt(l) == {k \in DOMAIN l.toks : l.toks[k][1] = "begin" /\ l.toks[k][2] \in Listed}
Closers(lines, i, env) ==
    LET openedBy(j) == Cardinality({k \in (i + 1)..j : Opens(lines[k], env)})
        closedBefore(j) == Cardinality({k \in (i + 1)..(j - 1) : Closes(lines[k], env)})
    IN {j \in (i + 1)..Len(lines) : Closes(lines[j], env) /\ openedBy(j) = closedBefore(j)}
ExpandBlock(lines, lo, hi) ==
    LET ended(i) == \E e \in Listed : Closes(lines[i], e)
        plain(para) == [lo |-> para.lo, hi |-> para.hi, kind |-> "paragraph"]
        block(i, env, closers) ==
            IF closers = {} THEN plain(ParaBounds(lines, lo, hi))
            ELSE [lo |-> i, hi |-> Min(closers), kind |-> IF env \in FloatKinds THEN "float" ELSE "block"]
        named(i, env) == block(i, env, Closers(lines, i, env))
        opened(i) == named(i, lines[i].toks[Min(ListedAt(lines[i]))][2])
        from(openers) == IF openers = {} THEN plain(ParaBounds(lines, lo, hi)) ELSE opened(Max(openers))
    IN from({i \in 1..lo : ListedAt(lines[i]) /= {} /\ \A j \in i..(lo - 1) : ~ended(j)})

(* ---- the ladder ------------------------------------------------------------ *)

(* add: a rung of the same lines is replaced, its name kept under merged.  *)
AddRung(levels, rung) ==
    LET same == {i \in DOMAIN levels : levels[i].lo = rung.lo /\ levels[i].hi = rung.hi}
        i == Min(same)
    IN IF same = {} THEN Append(levels, rung)
       ELSE [levels EXCEPT ![i] = [rung EXCEPT !.merged = levels[i].merged \cup {levels[i].level}]]

(* The environments whose lines hold the first dragged line, innermost     *)
(* first; of equals, the one that closed first.                            *)
Enclosing(spans, lo) ==
    LET around == {k \in DOMAIN spans : spans[k].lo <= lo /\ lo <= spans[k].hi /\ spans[k].env /= Document}
        size(k) == spans[k].hi - spans[k].lo
        inner(j, k) == \/ size(j) < size(k)
                       \/ size(j) = size(k) /\ spans[j].lo > spans[k].lo
                       \/ size(j) = size(k) /\ spans[j].lo = spans[k].lo /\ j < k
        order == SetToSortSeq(around, inner)
    IN [n \in DOMAIN order |-> spans[order[n]]]

(* A paragraph keeps inside the innermost environment around the drag, and *)
(* off its \begin and \end lines when the drag is off them.                *)
WithinInnermost(p, inner, lo, hi) ==
    LET strict == inner.lo < lo /\ hi < inner.hi
        a == Max({p.lo, IF strict THEN inner.lo + 1 ELSE inner.lo})
        b == Min({p.hi, IF strict THEN inner.hi - 1 ELSE inner.hi})
    IN IF a > b THEN [lo |-> lo, hi |-> hi] ELSE [lo |-> a, hi |-> b]

(* A mutant of ClearOf: the paragraph stops one line inside the environment.*)
ClearOfLate(p, s, lo, hi) ==
    IF s.env = Document \/ (s.lo <= lo /\ lo <= s.hi) THEN p
    ELSE IF s.hi < lo /\ s.lo < p.lo /\ p.lo <= s.hi THEN [p EXCEPT !.lo = s.hi]
    ELSE IF s.lo > hi /\ s.lo <= p.hi /\ p.hi < s.hi THEN [p EXCEPT !.hi = s.lo]
    ELSE p

(* ... and does not take the half of an environment outside the drag.      *)
ClearOf(p, s, lo, hi) ==
    IF s.env = Document \/ (s.lo <= lo /\ lo <= s.hi) THEN p
    ELSE IF s.hi < lo /\ s.lo < p.lo /\ p.lo <= s.hi THEN [p EXCEPT !.lo = s.hi + 1]
    ELSE IF s.lo > hi /\ s.lo <= p.hi /\ p.hi < s.hi THEN [p EXCEPT !.hi = s.lo - 1]
    ELSE p

Paragraph(lines, spans, encl, lo, hi) ==
    LET within(flow) == IF encl = <<>> THEN flow ELSE WithinInnermost(flow, encl[1], lo, hi)
        trimmed(clear) == TrimComments(lines, [lo |-> Min({clear.lo, lo}), hi |-> Max({clear.hi, hi})])
    IN trimmed(FoldLeft(LAMBDA p, s : ClearOf(p, s, lo, hi), within(ParaBounds(lines, lo, hi)), spans))

(* An environment one line inside another is left to the outer one.        *)
Apart(encl) ==
    LET kept == {i \in DOMAIN encl : \A j \in (i + 1)..Len(encl) :
                    ~(encl[j].lo = encl[i].lo - 1 /\ encl[j].hi = encl[i].hi + 1)}
        order == SetToSortSeq(kept, <)
    IN [n \in DOMAIN order |-> encl[order[n]]]

EnvLevel == <<"env", "env2", "env3">>
EnvLevels == {EnvLevel[k] : k \in DOMAIN EnvLevel}

(* compute_levels: the rungs of a drag on lines rawLo..rawHi, the rung it  *)
(* opens on, and that rung's kind.                                         *)
RungOf(level, r, env) == [level |-> level, lo |-> r.lo, hi |-> r.hi, env |-> env, merged |-> {}]
EnvRungs(base, shown) ==
    FoldLeftDomain(LAMBDA acc, k : AddRung(acc, RungOf(EnvLevel[k], shown[k], {shown[k].env})), base, shown)
First(n, s) == SubSeq(s, 1, Min({n, Len(s)}))
Rungs(lo, hi, para, encl) ==
    EnvRungs(AddRung(<<RungOf("raw", [lo |-> lo, hi |-> hi], {})>>, RungOf("para", para, {})),
             First(LadderEnvs, Apart(encl)))
Opening(levels, block) ==
    LET env == {i \in DOMAIN levels : levels[i].level \in EnvLevels}
        exact == {i \in env : levels[i].lo = block.lo /\ levels[i].hi = block.hi}
        para == {i \in DOMAIN levels : "para" \in {levels[i].level} \cup levels[i].merged}
    IN Min(IF block.kind = "paragraph" \/ env = {} THEN para ELSE IF exact /= {} THEN exact ELSE env)
ComputeLevels(lines, rawLo, rawHi) ==
    LET answer(lo, hi, levels, block, default) ==
            [levels |-> levels, default |-> default, raw |-> [lo |-> lo, hi |-> hi],
             kind |-> IF levels[default].level \in EnvLevels THEN block.kind ELSE "paragraph"]
        opened(lo, hi, levels, block) == answer(lo, hi, levels, block, Opening(levels, block))
        around(lo, hi, spans, encl) ==
            opened(lo, hi, Rungs(lo, hi, Paragraph(lines, spans, encl, lo, hi), encl), ExpandBlock(lines, lo, hi))
        spanned(lo, hi, spans) == around(lo, hi, spans, Enclosing(spans, lo))
        on(lo, hi) == spanned(lo, hi, EnvSpans(lines))
        from(lo) == on(lo, Max({lo, Min({rawHi, Len(lines)})}))
    IN from(Max({1, Min({rawLo, Len(lines)})}))

(* ---- the choice between the paths ------------------------------------------- *)

DrawsPicture(lines, sy) ==
    \E s \in sy : s.lo = s.hi /\ s.lo \in DOMAIN lines /\ lines[s.lo].cat = "picture"

(* trace_range: SyncTeX's range and the text's compete by what of the      *)
(* dragged words their lines hold; SyncTeX wins a tie.  sy is {} or one    *)
(* range.  {} when neither path gives one.                                 *)
Traced(words, lines, measured, cands, best, ladder, chosen, total) ==
    LET score(c) == ScoreRange(words, lines, c.lo, c.hi)
        answer(weak) ==
            [via |-> best.via, rawLo |-> best.lo, rawHi |-> best.hi, ladder |-> ladder, weak |-> weak,
             split |-> ~weak /\ \E d \in cands \ {best} :
                           /\ 100 * (score(best) - score(d)) < 12 * total \/ total = 0
                           /\ ~(chosen.lo <= d.lo /\ d.lo <= chosen.hi)]
    IN answer(measured /\ 10 * ScoreRange(words, lines, chosen.lo, chosen.hi) < 3 * total)
TraceRange(words, lines, sy) ==
    LET score(c) == ScoreRange(words, lines, c.lo, c.hi)
        beats(c, d) == score(c) > score(d) \/ (score(c) = score(d) /\ c.via = "synctex")
        opened(picture, cands, best, ladder) ==
            Traced(words, lines, words /= {} /\ ~picture, cands, best, ladder,
                   ladder.levels[ladder.default], TotalWeight(words, lines))
        traced(picture, cands, best) == opened(picture, cands, best, ComputeLevels(lines, best.lo, best.hi))
        chosen(picture, cands) ==
            {traced(picture, cands, best) : best \in {c \in cands : \A d \in cands \ {c} : beats(c, d)}}
        near == IF sy = {} THEN 0 ELSE (CHOOSE s \in sy : TRUE).lo
        from(picture) ==
            chosen(picture, {[via |-> "synctex", lo |-> s.lo, hi |-> s.hi] : s \in sy}
                            \cup (IF picture THEN {} ELSE ByText(words, lines, near)))
    IN from(DrawsPicture(lines, sy))
====
