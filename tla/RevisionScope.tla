---- MODULE RevisionScope ----
(* Which hunks of a commit belong to a pin, and what is made of them       *)
(* (revisions/scope.py): the blocks of a file change, their attribution to *)
(* a pin, the two patches shown, the text a comparison compiles; and how   *)
(* git's line numbers and the screen's name the same line                  *)
(* (revisions/core.py, git_line_starts).                                   *)
(*                                                                         *)
(* A line as git counts it is a sequence of screen lines, more than one    *)
(* when a form feed or the like stands in it.  A screen line is a text     *)
(* <<stem, rest>>: what an anchor's first 40 characters are looked for in, *)
(* and what tells it apart.  A file change is a record                     *)
(*   oldPath, newPath   NoPath for an added or deleted file                *)
(*   old, new           the lines of both sides                            *)
(*   blocks             <<[oldLo, oldN, newLo, newN], ...>>, from 0        *)
(*   kind               "text", "binary" or "link"                         *)
(* and a pin's facts are [path, lo, hi, stale, anchor, closeRef, changes]. *)
EXTENDS Integers, FiniteSets, SequencesExt, FiniteSetsExt

CONSTANTS NoPath,
          Context,    \* SCOPE_CONTEXT
          Short       \* stems of texts too short to be looked for by a part

Least(a, b) == IF a < b THEN a ELSE b
Most(a, b) == IF a > b THEN a ELSE b
Abs(n) == IF n < 0 THEN -n ELSE n
Ascending(S) == [i \in 1..Cardinality(S) |-> CHOOSE n \in S : Cardinality({m \in S : m < n}) = i - 1]

(* ---- the edit git reports: a sequence of [old, new], equal where kept ---------- *)

Changed(script) == {i \in DOMAIN script : script[i].old # script[i].new}
SideOf(script, side) == FlattenSeq([i \in DOMAIN script |-> script[i][side]])
Before(script, i, side) == Len(SideOf(SubSeq(script, 1, i - 1), side))

(* `git diff -U0`: @@ -a,b +c,d @@, a the line before where b = 0.         *)
U0Header(script, i) ==
    LET at(side) == LET n == Len(script[i][side])
                    IN <<Before(script, i, side) + (IF n = 0 THEN 0 ELSE 1), n>>
    IN at("old") \o at("new")
ParseU0(h) == [oldLo |-> IF h[2] = 0 THEN h[1] ELSE h[1] - 1, oldN |-> h[2],
               newLo |-> IF h[4] = 0 THEN h[3] ELSE h[3] - 1, newN |-> h[4]]
BlocksOf(script) == LET at == Ascending(Changed(script)) IN [b \in DOMAIN at |-> ParseU0(U0Header(script, at[b]))]

(* revision_changes, one file: an added or deleted one is one block.       *)
FileChange(oldPath, newPath, kind, script) ==
    LET old == SideOf(script, "old")
        new == SideOf(script, "new")
    IN [oldPath |-> oldPath, newPath |-> newPath, kind |-> kind,
        old |-> IF kind = "text" THEN old ELSE <<>>, new |-> IF kind = "text" THEN new ELSE <<>>,
        blocks |-> IF kind # "text" \/ old = new THEN <<>>
                   ELSE IF NoPath \in {oldPath, newPath}
                   THEN <<[oldLo |-> 0, oldN |-> Len(old), newLo |-> 0, newN |-> Len(new)]>>
                   ELSE BlocksOf(script)]

(* ---- line numbers ------------------------------------------------------------------ *)

Screen(lines) == FlattenSeq(lines)
ScreenStart(lines, g) == Len(Screen(SubSeq(lines, 1, g - 1))) + 1

(* git_line_starts: the pairs at which the two numbers part further, the   *)
(* line after the last included; none when they never part.                *)
GitLineStarts(lines) ==
    LET shift(g) == ScreenStart(lines, g) - g
        turns == IF lines = <<>> THEN {} ELSE {g \in 1..(Len(lines) + 1) : g = 1 \/ shift(g) # shift(g - 1)}
    IN IF Cardinality(turns) < 2 THEN <<>>
       ELSE [i \in 1..Cardinality(turns) |->
               LET g == Ascending(turns)[i] IN <<g, ScreenStart(lines, g)>>]
(* The viewer's reading of the pairs.                                      *)
ScreenOf(pairs, g) ==
    IF pairs = <<>> THEN g
    ELSE LET p == pairs[Max({i \in DOMAIN pairs : pairs[i][1] <= g})] IN p[2] + g - p[1]

(* _pin_lines: git's number of a screen line.                              *)
ToGit(lines, n) ==
    LET starts == FlattenSeq([g \in DOMAIN lines |-> [i \in DOMAIN lines[g] |-> g]])
    IN IF Len(starts) = Len(lines) \/ starts = <<>> THEN n ELSE starts[Least(Most(n, 1), Len(starts))]

(* ---- whose blocks ------------------------------------------------------------------ *)

(* A mutant of TouchRange: an empty side touches the line after it alone.  *)
TouchRangeAfter(lo, n) == IF n > 0 THEN <<lo + 1, lo + n>> ELSE <<lo + 1, lo + 1>>
TouchRange(lo, n) == IF n > 0 THEN <<lo + 1, lo + n>> ELSE <<Most(1, lo), lo + 1>>
Touches(b, side) == IF side = "new" THEN TouchRange(b.newLo, b.newN) ELSE TouchRange(b.oldLo, b.oldN)
Hit(f, side, lo, hi) == {i \in DOMAIN f.blocks : LET t == Touches(f.blocks[i], side) IN t[1] <= hi /\ t[2] >= lo}

(* _find_line: the nearest line that is the text, else holds its stem; 0   *)
(* when there is none.                                                     *)
FindLine(texts, needle, near) ==
    LET same == {n \in DOMAIN texts : texts[n] = needle}
        held == IF needle[1] \in Short THEN {} ELSE {n \in DOMAIN texts : texts[n][1] = needle[1]}
        found == IF same # {} THEN same ELSE held
    IN IF found = {} THEN 0
       ELSE CHOOSE n \in found : \A m \in found : Abs(n - near) < Abs(m - near) \/ (Abs(n - near) = Abs(m - near) /\ n <= m)

(* pin_range_candidates: where the anchor sits on each side, the nearer to *)
(* the recorded lines first; then those lines as they are.                 *)
Place(f, pin, side, a, b) == [side |-> side, far |-> Abs(a - pin.lo), lo |-> ToGit(f[side], a), hi |-> ToGit(f[side], b)]
FoundFrom(f, pin, anchor, side, texts, head, a) ==
    LET end(tail) == Least(Len(texts), IF tail # 0 /\ tail >= head THEN tail + anchor.tailOff ELSE a + pin.hi - pin.lo)
    IN Place(f, pin, side, a, Most(a, end(FindLine(texts, anchor.tail, pin.hi - anchor.tailOff + a - pin.lo))))
FoundHead(f, pin, anchor, side, texts, head) ==
    IF head = 0 THEN {} ELSE {FoundFrom(f, pin, anchor, side, texts, head, Most(1, head - anchor.headOff))}
FoundIn(f, pin, anchor, side, texts) ==
    FoundHead(f, pin, anchor, side, texts, FindLine(texts, anchor.head, pin.lo + anchor.headOff))
Candidates(f, pin) ==
    LET found == UNION {FoundIn(f, pin, anchor, side, Screen(f[side])) : anchor \in pin.anchor, side \in {"old", "new"}}
        raw == IF pin.stale THEN "old" ELSE "new"
        sooner(p, q) == p.far < q.far \/ (p.far = q.far /\ p.side = "new")
    IN SetToSortSeq(found, sooner)
       \o <<[side |-> raw, far |-> 0, lo |-> ToGit(f[raw], pin.lo), hi |-> ToGit(f[raw], pin.hi)]>>

InferredFrom(f, places) ==
    LET hit(p) == Hit(f, p.side, p.lo, p.hi)
        first(meets) == IF meets = {} THEN {} ELSE hit(places[Min(meets)])
    IN first({i \in DOMAIN places : hit(places[i]) # {}})
Inferred(f, pin) == IF pin.path \notin {f.oldPath, f.newPath} THEN {} ELSE InferredFrom(f, Candidates(f, pin))

(* attribute_blocks: the recorded changes that count, else the pin's own   *)
(* lines; block ids are <<index of the file, index of the block>>.         *)
Attributed(files, pin, changes) ==
    LET recorded == UNION {{<<i, b>> : b \in Hit(files[i], "new", c.lo, c.hi)} :
                             <<i, c>> \in {<<i, c>> \in (DOMAIN files) \X changes : files[i].newPath = c.path}}
        from(known, inferred) ==
            IF known # {} THEN [source |-> "changes", blocks |-> known]
            ELSE [source |-> IF inferred = {} THEN "none" ELSE "inferred", blocks |-> inferred]
    IN from(recorded, UNION {{<<i, b>> : b \in Inferred(files[i], pin)} : i \in DOMAIN files})

(* ---- what is shown and compiled ------------------------------------------------------ *)

End(b) == b.oldLo + b.oldN

(* _hunk: blocks i..j of f with the lines around them, up to the next      *)
(* block on either side.                                                   *)
HunkStart(f, i) == Most(IF i > 1 THEN End(f.blocks[i - 1]) ELSE 0, f.blocks[i].oldLo - Context)
HunkEnd(f, j) ==
    Least(IF j < Len(f.blocks) THEN f.blocks[j + 1].oldLo ELSE Len(f.old), Least(End(f.blocks[j]) + Context, Len(f.old)))
Hunk(f, i, j) ==
    LET bl == f.blocks
        start == HunkStart(f, i)
        end == HunkEnd(f, j)
        shift == MapThenSumSet(LAMBDA b : bl[b].newN - bl[b].oldN, 1..(i - 1))
        grown == MapThenSumSet(LAMBDA b : bl[b].newN - bl[b].oldN, i..j)
        kept(from, to) == [n \in 1..Most(0, to - from) |-> <<" ", f.old[from + n]>>]
        one(b) == kept(IF b = i THEN start ELSE End(bl[b - 1]), bl[b].oldLo)
                  \o [n \in 1..bl[b].oldN |-> <<"-", f.old[bl[b].oldLo + n]>>]
                  \o [n \in 1..bl[b].newN |-> <<"+", f.new[bl[b].newLo + n]>>]
        oc == end - start
        nc == end - start + grown
    IN [oldStart |-> IF oc > 0 THEN start + 1 ELSE start, oldCount |-> oc,
        newStart |-> IF nc > 0 THEN start + shift + 1 ELSE start + shift, newCount |-> nc,
        body |-> FlattenSeq([n \in 1..(j - i + 1) |-> one(i + n - 1)]) \o kept(End(bl[j]), end)]

(* scoped_patch, one file: blocks next to each other and near share a hunk.*)
FilePatch(f, pick) ==
    LET joins(b) == b - 1 \in pick /\ f.blocks[b].oldLo - End(f.blocks[b - 1]) <= 2 * Context
        firsts == Ascending({b \in pick : ~joins(b)})
        last(b) == Max({e \in pick : e >= b /\ \A m \in (b + 1)..e : m \in pick /\ joins(m)})
    IN [n \in DOMAIN firsts |-> Hunk(f, firsts[n], last(firsts[n]))]
Picked(i, f, chosen, want) == {b \in DOMAIN f.blocks : (<<i, b>> \in chosen) = want}
Patch(files, chosen, want) ==
    [i \in DOMAIN files |-> FilePatch(files[i], Picked(i, files[i], chosen, want))]
Places(files, chosen, want) ==
    Cardinality({p \in UNION {{<<i, b>> : b \in DOMAIN files[i].blocks} : i \in DOMAIN files} : (p \in chosen) = want})
    + (IF want THEN 0 ELSE Cardinality({i \in DOMAIN files : files[i].blocks = <<>>}))

(* apply_blocks: the old text with the chosen blocks' new lines.           *)
ApplyBlocks(f, idx) ==
    LET at == Ascending(idx)
        from(n) == IF n = 1 THEN 0 ELSE End(f.blocks[at[n - 1]])
        piece(n) == SubSeq(f.old, from(n) + 1, f.blocks[at[n]].oldLo)
                    \o SubSeq(f.new, f.blocks[at[n]].newLo + 1, f.blocks[at[n]].newLo + f.blocks[at[n]].newN)
    IN FlattenSeq([n \in DOMAIN at |-> piece(n)]) \o SubSeq(f.old, from(Len(at) + 1) + 1, Len(f.old))

Item(f, b) == <<f.oldPath, f.newPath, b>>
ScopeKey(files, chosen) == {Item(files[p[1]], files[p[1]].blocks[p[2]]) : p \in chosen}

(* plan_scope_writes: {} for a refusal, else the files written (NoPath for *)
(* text: removed).  A renamed file keeps its old name.  All files lie      *)
(* under the build root here, so none is skipped or refused for its path.  *)
ScopeWrites(files, scope) ==
    LET idx(f) == {b \in DOMAIN f.blocks : Item(f, f.blocks[b]) \in scope}
        held == {i \in DOMAIN files : idx(files[i]) # {}}
        write(f) == [path |-> IF f.oldPath # NoPath THEN f.oldPath ELSE f.newPath,
                     text |-> IF f.newPath = NoPath THEN NoPath ELSE ApplyBlocks(f, idx(f))]
    IN IF UNION {{Item(files[i], files[i].blocks[b]) : b \in idx(files[i])} : i \in held} = scope
       THEN {[i \in held |-> write(files[i])]} ELSE {}

(* pin_scope: files is {} when the commit could not be read.               *)
WholeCommit(source, mine, other) == [mode |-> "commit", source |-> source, hunks |-> mine, other |-> other, blocks |-> {}]
ScopeFrom(files, a, mine, other) ==
    IF a.blocks = {} \/ other = 0 THEN WholeCommit(a.source, mine, other)
    ELSE [mode |-> "pin", source |-> a.source, hunks |-> mine, other |-> other, blocks |-> ScopeKey(files, a.blocks)]
PinScope(read, pin, changes) ==
    LET of(files, a) == ScopeFrom(files, a, Places(files, a.blocks, TRUE), Places(files, a.blocks, FALSE))
        decide(files) == of(files, Attributed(files, pin, changes))
    IN IF read = {} THEN WholeCommit("none", 0, 0) ELSE decide(CHOOSE files \in read : TRUE)
====
