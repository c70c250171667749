---- MODULE PinLocation ----
(* From a drag on the page to lines of a file, and where those lines are   *)
(* afterwards.  A drag is traced (pins/location/resolve.py) through the    *)
(* range ladder of a LaTeX source or the element map of a figure; the rung *)
(* a person chooses becomes a pin with an anchor (pins/editing); the       *)
(* author edits the file, moves the checkout or is served from another     *)
(* folder; and every transaction of the store re-matches the pin           *)
(* (pins/location/lookup.py, position.py).  Several processes act: the     *)
(* viewer, the author's editor and the server's transactions.              *)
(*                                                                         *)
(* A path is a sequence of names; disk maps the files' absolute paths to   *)
(* [lines, ids, mtime], where ids (a history variable) tells every line's  *)
(* identity apart from its text.                                           *)
EXTENDS RangeLadder

CONSTANTS Drafts,      \* the LaTeX files a drag is tried on
          FollowedFiles, \* those whose pins are then followed
          Scripts,     \* the drawing scripts of a figure document
          RawMaps,     \* the element maps a figure document's producer writes
          Drags,       \* LaTeX: the sampled SyncTeX hits and the words of the region
          Boxes,       \* figure: the drag boxes
          NewTexts,    \* what an edit may write on a line
          Home,        \* the manuscript root at first
          PinnedRel,   \* the pinned file, relative to it
          OtherRel,    \* a file of the same name elsewhere in the manuscript
          Roots,       \* the roots the manuscript may be moved to
          DocFolder,   \* the document's folder: relative to the first root
          Decoy,       \* a folder of it a link at an old place may be led to
          Private,     \* the names of hidden folders and of the state folder
          MaxEdits, MaxMoves, MaxChanges   \* bounds: edits, moves, both together

(* A path is a sequence of names, a file a sequence of lines; the files     *)
(* whose pins are followed have two lines at least.                         *)
PathsAreNames == {Home, PinnedRel, OtherRel, DocFolder, Decoy} \cup Roots \subseteq Seq(STRING)
FilesAreLines ==
    /\ \A lines \in Drafts \cup Scripts : lines \in Seq(Range(lines))
    /\ \A lines \in FollowedFiles : Len(lines) > 1
ASSUME PathsAssumption == PathsAreNames
ASSUME FilesAssumption == FilesAreLines

CONSTANTS Grid, MinSide, LadderMax, MaxDepth, MaxElements, NoParent
Elements == INSTANCE ElementMap

VARIABLES surface,   \* "latex" or "figure": the document's kind
          disk, root,
          links,     \* what stands at places the checkout was moved from
          folders,   \* the folders startup translated (recorded_folders)
          misled,    \* history: the server started, or wrote the pin, while a
                     \* link led elsewhere; or wrote it serving a folder
                     \* without its file
          fmap,      \* the pages of the published element map, <<>> for none
          picked,    \* the answer the viewer holds, or {}
          pin,       \* the stored pin, or {}
          seen,      \* the rev and lines a client saw last, or {}
          truth,     \* history: where the pinned file really is, {} once gone
          own,       \* history: the identities of the lines the pin was put on
          unseen,    \* history: the file was changed without a newer time
          edits, moves

linkVars == <<links, folders, misled>>
vars == <<surface, disk, root, fmap, picked, pin, seen, truth, own, unseen, edits, moves, links, folders, misled>>

The(S) == CHOOSE x \in S : TRUE
Under(path, folder) == IsStrictPrefix(folder, path)
RelTo(path, folder) == SubSeq(path, Len(folder) + 1, Len(path))

(* ---- where a pin's file is (ADR-0006) ---------------------------------------- *)

(* os.path.realpath, Path.resolve: through what stands at an old place.    *)
Real(path, at) ==
    LET on == {l \in at : IsPrefix(l.at, path)}
    IN IF on = {} THEN path ELSE The(on).to \o RelTo(path, The(on).at)

Exists(rel) == root \o rel \in DOMAIN disk
TailsOf(path) == [k \in 1..Len(path) |-> SubSeq(path, k, Len(path))]
FirstThat(seq, P(_)) == IF \E k \in DOMAIN seq : P(seq[k])
                        THEN {seq[Min({k \in DOMAIN seq : P(seq[k])})]} ELSE {}

(* doc_scope: the document's folder below the root, all of the root when   *)
(* the folder is not below it.                                             *)
DocHome == (IF truth = {} THEN Home ELSE SubSeq(The(truth), 1, Len(The(truth)) - Len(PinnedRel))) \o DocFolder
Scope == IF Under(DocHome, root) THEN RelTo(DocHome, root) ELSE <<>>

(* pin_rel_path: the stored path when it lies under the root; else the     *)
(* recorded file_rel when the stored path ends with it, or a longer tail   *)
(* that exists; else the longest tail that exists under the document.      *)
PinRelPath(file, fileRel) ==
    LET longer(r) == SelectSeq(TailsOf(file), LAMBDA t : Len(t) > Len(r))
        recorded(r, widened) == IF widened /= {} THEN widened ELSE {r}
        scoped(tails, scope) == FirstThat([k \in DOMAIN tails |-> scope \o tails[k]], Exists)
        from(usable) ==
            IF usable = {} THEN scoped(TailsOf(file), Scope)
            ELSE UNION {recorded(r, FirstThat(longer(r), Exists)) : r \in usable}
    IN IF Under(Real(file, links), root) THEN {RelTo(Real(file, links), root)}
       ELSE from({r \in fileRel : Len(r) < Len(file) /\ IsSuffix(r, file)})

(* locate_file: {} for a path the rule does not place on a file there.     *)
Locate(file, fileRel) == {root \o r : r \in {r \in PinRelPath(file, fileRel) : Exists(r)}}

(* ---- where a record says its file is, for the changes view ---------------------- *)

(* recorded_root: the root a record was written under, as it says itself.  *)
RecordedRoot(p) == {SubSeq(p.file, 1, Len(p.file) - Len(r)) : r \in {r \in p.fileRel : IsStrictSuffix(r, p.file)}}
(* _recorded_rel: below the root served, else below the one it was written *)
(* under; by the names alone, no link is asked.                            *)
RecordedRel(p, at) == IF Under(p.file, at) THEN {RelTo(p.file, at)}
                      ELSE {RelTo(p.file, base) : base \in RecordedRoot(p)}
InTree(rel) == Range(rel) \cap Private = {}

(* recorded_folders, at startup with the manuscript at `at`: where the     *)
(* folders lead whose records those rules do not place.                    *)
Led(at, p, by) ==
    IF RecordedRel(p, at) = {} THEN {[folder |-> Front(p.file), real |-> Real(Front(p.file), by)]} ELSE {}
RecordedFolders(at, records, by) ==
    {f \in UNION {Led(at, p, by) : p \in records} : IsPrefix(at, f.real) /\ InTree(RelTo(f.real, at))}

(* A mutant of RecordedPlace: the folder is resolved when it is asked for. *)
RecordedPlaceNow(p) ==
    LET rel == IF RecordedRel(p, root) /= {} THEN RecordedRel(p, root)
               ELSE {RelTo(f.real \o <<Last(p.file)>>, root) : f \in RecordedFolders(root, {p}, links)}
    IN {root \o r : r \in {r \in rel : InTree(r)}}
(* recorded_place.                                                         *)
RecordedPlace(p) ==
    LET known == {f \in folders : f.folder = Front(p.file)}
        rel == IF RecordedRel(p, root) /= {} THEN RecordedRel(p, root)
               ELSE {RelTo(f.real \o <<Last(p.file)>>, root) : f \in known}
    IN {root \o r : r \in {r \in rel : InTree(r)}}

(* ---- anchors and re-matching ----------------------------------------------------- *)

HasText(l) == ~Blank(l)

(* anchor_of: the first and last line of the range that is no comment, and *)
(* how far they are from its ends; {} for a range of blank lines.          *)
AnchorOf(lines, lo, hi) ==
    LET said(idx) == IF \E i \in idx : ~Comment(lines[i]) THEN {i \in idx : ~Comment(lines[i])} ELSE idx
        anchor(body) == IF body = {} THEN {}
                        ELSE {[head |-> lines[Min(body)], tail |-> lines[Max(body)],
                               headOff |-> Min(body) - lo, tailOff |-> hi - Max(body)]}
    IN anchor(said({i \in lo..Min({hi, Len(lines)}) : HasText(lines[i])}))

(* find_line: the nearest line that reads so, the earlier of two as near.  *)
(* Lines here are the same or not: left out is that a line which holds the *)
(* first 40 letters of a needle of 12 or more will do when none reads so   *)
(* (partial_key), here and in AnchorHolds.                                 *)
FindLine(lines, needle, near) ==
    LET away(i) == IF i < near THEN near - i ELSE i - near
        nearest(found) == IF found = {} THEN {} ELSE {Min({i \in found : \A j \in found : away(i) <= away(j)})}
    IN nearest({i \in DOMAIN lines : lines[i] = needle})

AnchorHolds(a, lo, lines) == lo + a.headOff \in DOMAIN lines /\ lines[lo + a.headOff] = a.head

(* follow_anchor, once the head line is found on line h of a range from    *)
(* newLo on.                                                               *)
FollowTail(a, lo, hi, lines, h, newLo) ==
    LET end(tail) == IF tail /= {} THEN The(tail) + a.tailOff ELSE newLo + (hi - lo)
        near == FindLine(lines, a.tail, hi - a.tailOff + newLo - lo)
    IN [lo |-> newLo, hi |-> Max({newLo, Min({Len(lines), end({t \in near : t >= h})})})]
(* follow_anchor: {} when the head line is nowhere, else the new lines.    *)
FollowAnchor(a, lo, hi, lines) ==
    {FollowTail(a, lo, hi, lines, h, Max({1, h - a.headOff})) : h \in FindLine(lines, a.head, lo + a.headOff)}

(* resync of the pin p against the file found at path: p itself when       *)
(* nothing is to be done.                                                  *)
Matched(p, to) ==
    IF to = {} THEN [p EXCEPT !.stale = TRUE, !.sync = "lost"]
    ELSE [p EXCEPT !.lo = The(to).lo, !.hi = The(to).hi, !.stale = FALSE,
                   !.sync = IF The(to).lo = p.lo /\ The(to).hi = p.hi THEN "ok" ELSE "moved"]
InSync(p, now, moved) ==
    p.anchor = {} \/ (p.syncedAt >= now.mtime /\ (~moved \/ AnchorHolds(The(p.anchor), p.lo, now.lines)))
Stamped(p, path, now) == [p EXCEPT !.file = path, !.syncedAt = now.mtime]
Bumped(p, matched) ==
    IF <<matched.lo, matched.hi, matched.stale>> /= <<p.lo, p.hi, p.stale>> THEN [matched EXCEPT !.rev = @ + 1] ELSE matched
Rematched(p, path, now) ==
    Stamped(Bumped(p, Matched(p, FollowAnchor(The(p.anchor), p.lo, p.hi, now.lines))), path, now)
(* A mutant of Resync: a re-match that moves the lines keeps the rev.      *)
ResyncKeepingRev(p, path) ==
    IF ~p.anchored \/ InSync(p, disk[path], path /= p.file) THEN p
    ELSE [Rematched(p, path, disk[path]) EXCEPT !.rev = p.rev]
Resync(p, path) ==
    CASE ~p.anchored /\ path /= p.file -> p
      [] ~p.anchored /\ path = p.file ->
           [p EXCEPT !.anchored = TRUE, !.anchor = AnchorOf(disk[path].lines, p.lo, p.hi), !.syncedAt = disk[path].mtime]
      [] p.anchored /\ InSync(p, disk[path], path /= p.file) -> p
      [] OTHER -> Rematched(p, path, disk[path])

(* sync_all: what the transaction makes of the stored pin before its own   *)
(* step; a pin whose file is not found is left alone.                      *)
Synced(p) == LET from(at) == IF at = {} THEN p ELSE Resync(p, The(at)) IN from(Locate(p.file, p.fileRel))

(* ---- picking ------------------------------------------------------------------------ *)

PinnedPath == Home \o PinnedRel
OtherPath == Home \o OtherRel

(* pick on a LaTeX document: the kind of refusal, or the ladder's rungs.   *)
(* SyncTeX's file "pinned" is the checked file; "bib" a generated one;     *)
(* "outside" a file that is not in the tree.  Without an answer of SyncTeX *)
(* the document's main file is searched.                                   *)
RungsOf(traced) ==
    IF traced = {} THEN [refused |-> {"no_source"}, rungs |-> <<>>]
    ELSE [refused |-> {}, rungs |-> LET levels == The(traced).ladder.levels
                                    IN [k \in DOMAIN levels |-> [lo |-> levels[k].lo, hi |-> levels[k].hi]]]
PickSource(lines, drag) ==
    LET answer(range) == RungsOf(TraceRange(Kept(drag.words, lines), lines, range))
        of(s) == CASE s.file = "bib" -> [refused |-> {"generated"}, rungs |-> <<>>]
                   [] s.file = "outside" -> [refused |-> {"outside"}, rungs |-> <<>>]
                   [] OTHER -> answer({[lo |-> s.lo, hi |-> s.hi]})
        from(sy) == IF sy = {} THEN {answer({})} ELSE {of(s) : s \in sy}
    IN from(SynctexRange(drag.hits))

(* pick_figure on the published map: the rungs of the chosen element, or   *)
(* the region with why there are no lines.                                 *)
PickFigure(lines, box) ==
    LET of(rungs) ==
            IF rungs = <<>> THEN [refused |-> {"element_without_source"}, rungs |-> <<>>]
            ELSE [refused |-> {}, rungs |-> [k \in DOMAIN rungs |-> [lo |-> rungs[k].lo, hi |-> rungs[k].hi]]]
    IN IF fmap = <<>> THEN [refused |-> {"figure_map_unavailable"}, rungs |-> <<>>]
       ELSE of(Elements!ElementRungs(Elements!PickElement(fmap[1].elements, box).ladder, Len(lines)))

(* ---- the state machine ------------------------------------------------------------------ *)

Content(lines, t) == [lines |-> lines, ids |-> [i \in DOMAIN lines |-> i], mtime |-> t]
NewPin(path, rel, lo, hi, anchored, anchor, t) ==
    [file |-> path, fileRel |-> rel, lo |-> lo, hi |-> hi, anchored |-> anchored, anchor |-> anchor,
     syncedAt |-> t, stale |-> FALSE, sync |-> "ok", rev |-> 0]
OwnOf(content, lo, hi) == IF hi <= Len(content.ids) THEN SubSeq(content.ids, lo, hi) ELSE <<>>

(* A record older than file_rel or older than anchors may be there already.*)
LegacyPins(content) ==
    LET lo == 2
        hi == Min({3, Len(content.lines)})
    IN {NewPin(PinnedPath, {}, lo, hi, FALSE, {}, 0),
        NewPin(PinnedPath, {}, lo, hi, TRUE, AnchorOf(content.lines, lo, hi), content.mtime)}

Init ==
    /\ surface \in {"latex", "figure"}
    /\ \E lines \in IF surface = "latex" THEN Drafts ELSE Scripts :
          /\ disk = [f \in {PinnedPath, OtherPath} |-> Content(lines, 1)]
          /\ pin \in {{}} \cup {{p} : p \in IF lines \in FollowedFiles THEN LegacyPins(Content(lines, 1)) ELSE {}}
          /\ own = IF pin = {} THEN <<>> ELSE OwnOf(Content(lines, 1), The(pin).lo, The(pin).hi)
    /\ root = Home
    /\ fmap \in IF surface = "latex" THEN {<<>>} ELSE {Elements!ParseMap(m).pages : m \in RawMaps}
    /\ picked = {} /\ seen = {} /\ truth = {PinnedPath} /\ unseen = FALSE
    /\ edits = 0 /\ moves = 0
    /\ links = {} /\ folders = {} /\ misled = FALSE

MayEdit == edits < MaxEdits /\ edits + moves < MaxChanges
MayMove == moves < MaxMoves /\ edits + moves < MaxChanges

(* POST /api/pick on a document that is there.                             *)
Pick ==
    /\ pin = {} /\ picked = {} /\ truth \subseteq DOMAIN disk /\ truth /= {}
    /\ \/ /\ surface = "latex"
          /\ \E d \in Drags : \E a \in PickSource(disk[The(truth)].lines, d) :
                picked' = {[rungs |-> a.rungs, refused |-> a.refused]}
       \/ /\ surface = "figure"
          /\ \E b \in Boxes : LET a == PickFigure(disk[The(truth)].lines, b)
                              IN picked' = {[rungs |-> a.rungs, refused |-> a.refused]}
    /\ UNCHANGED <<surface, disk, root, fmap, pin, seen, truth, own, unseen, edits, moves, linkVars>>

(* POST /api/pin with a rung of the answer: parse_loc checks the range     *)
(* against the file as it is now, add_pin takes the anchor from it.        *)
Save ==
    /\ pin = {} /\ picked /= {} /\ truth /= {}
    /\ disk[The(truth)].lines \in FollowedFiles
    /\ \E k \in DOMAIN The(picked).rungs :
          LET r == The(picked).rungs[k]  now == disk[The(truth)]
          IN /\ r.hi \in DOMAIN now.lines /\ r.lo \in 1..r.hi
             /\ pin' = {NewPin(The(truth), {RelTo(The(truth), root)}, r.lo, r.hi, TRUE,
                               AnchorOf(now.lines, r.lo, r.hi), now.mtime)}
             /\ own' = OwnOf(now, r.lo, r.hi)
             /\ unseen' = FALSE
    /\ picked' = {}
    /\ UNCHANGED <<surface, disk, root, fmap, seen, truth, edits, moves, linkVars>>

(* The author's editor writes the file: a line more, a line less, a line   *)
(* reworded.  The time is newer, or not (a write within the clock's tick,  *)
(* a tool that keeps an older time).                                       *)
Fresh == -edits
WithLine(c, i, l) == [c EXCEPT !.lines = SubSeq(@, 1, i - 1) \o <<l>> \o SubSeq(@, i, Len(@)),
                               !.ids = SubSeq(@, 1, i - 1) \o <<Fresh>> \o SubSeq(@, i, Len(@))]
Without(c, i) == [c EXCEPT !.lines = RemoveAt(@, i), !.ids = RemoveAt(@, i)]
Reworded(c, i, l) == [c EXCEPT !.lines[i] = l, !.ids[i] = Fresh]

Revisions(c) ==
    LET n == Len(c.lines)
    IN {WithLine(c, i, l) : i \in 1..(n + 1), l \in NewTexts}
       \cup {Without(c, i) : i \in IF n > 1 THEN 1..n ELSE {}}
       \cup {Reworded(c, i, l) : i \in 1..n, l \in NewTexts}

Edit ==
    /\ MayEdit /\ truth /= {} /\ pin /= {}
    /\ LET c == disk[The(truth)]
       IN \E e \in Revisions(c), newer \in BOOLEAN :
             /\ disk' = [disk EXCEPT ![The(truth)] = [e EXCEPT !.mtime = IF newer THEN @ + 1 ELSE @]]
             /\ unseen' = (~newer /\ (unseen \/ pin = {} \/ The(pin).syncedAt >= c.mtime))
    /\ edits' = edits + 1
    /\ UNCHANGED <<surface, root, fmap, picked, pin, seen, truth, own, moves, linkVars>>

(* The folder served holds the pinned file.                                *)
Serving == \E at \in truth : Under(at, root)
Astray(by) == \E l \in by : ~l.own

(* A transaction of the store, and the listing, re-match the pin first;    *)
(* the client that asked then knows its lines and rev.                     *)
Sync ==
    /\ pin /= {}
    /\ pin' = {Synced(The(pin))}
    /\ misled' = (misled \/ ((Astray(links) \/ ~Serving) /\ pin' /= pin))
    /\ seen' = {[rev |-> p.rev, lo |-> p.lo, hi |-> p.hi] : p \in pin'}
    /\ own' = IF The(pin).anchored THEN own
              ELSE IF \E p \in pin' : p.anchored THEN OwnOf(disk[The(pin).file], The(pin).lo, The(pin).hi) ELSE own
    /\ UNCHANGED <<surface, disk, root, fmap, picked, truth, unseen, edits, moves, links, folders>>

(* A lo/hi edit by the client: the transaction re-matches the pin, refuses *)
(* a stale base_rev and a range outside the file, else takes a new anchor. *)
Edited(p, path, now, lo, hi) ==
    [Stamped(p, path, now) EXCEPT !.lo = lo, !.hi = hi, !.anchored = TRUE, !.anchor = AnchorOf(now.lines, lo, hi),
                                  !.rev = @ + 1, !.stale = FALSE, !.sync = "ok", !.fileRel = {RelTo(path, root)}]
EditRange ==
    /\ pin /= {} /\ seen /= {}
    /\ \E p \in {Synced(q) : q \in pin} : \E at \in Locate(p.file, p.fileRel) :
          /\ The(seen).rev = p.rev
          /\ \E lo, hi \in DOMAIN disk[at].lines :
                /\ lo <= hi /\ lo \in {p.lo, p.lo + 1} /\ hi \in {p.hi, p.hi + 1}
                /\ <<lo, hi>> /= <<p.lo, p.hi>> \/ p.stale
                /\ pin' = {Edited(p, at, disk[at], lo, hi)}
                /\ own' = OwnOf(disk[at], lo, hi)
    /\ MayEdit /\ edits' = edits + 1
    /\ unseen' = FALSE /\ seen' = {} /\ misled' = (misled \/ Astray(links) \/ ~Serving)
    /\ UNCHANGED <<surface, disk, root, fmap, picked, truth, moves, links, folders>>

(* The server starts on the folder `at`, with the links as they are then.  *)
StartAt(at, by) ==
    /\ root' = at
    /\ folders' = RecordedFolders(at, pin, by)
    /\ misled' = (misled \/ Astray(by))

(* The checkout is moved, with every file in it, and a link to it perhaps  *)
(* left at the old place; the server restarts there.                       *)
Renamed(path, to) == IF Under(path, root) THEN to \o RelTo(path, root) ELSE path
MoveCheckout ==
    /\ MayMove /\ pin /= {}
    /\ \E to \in Roots \ {root} :
          /\ \A p \in DOMAIN disk : ~Under(p, to)
          /\ LET new == {Renamed(p, to) : p \in DOMAIN disk}
             IN disk' = [q \in new |-> disk[CHOOSE p \in DOMAIN disk : Renamed(p, to) = q]]
          /\ truth' = {Renamed(p, to) : p \in truth}
          /\ links' \in {{}, {[at |-> root, to |-> to, own |-> TRUE]}}
          /\ StartAt(to, links')
    /\ moves' = moves + 1 /\ seen' = {}
    /\ UNCHANGED <<surface, fmap, picked, pin, own, unseen, edits>>

(* The server is started on the folder above, or on one below.             *)
ServeFrom ==
    /\ MayMove /\ pin /= {}
    /\ \/ Len(root) > 1 /\ StartAt(Front(root), links)
       \/ \E p \in DOMAIN disk :
             Under(p, root) /\ Len(p) > Len(root) + 1 /\ StartAt(SubSeq(p, 1, Len(root) + 1), links)
    /\ moves' = moves + 1 /\ seen' = {}
    /\ UNCHANGED <<surface, disk, fmap, picked, pin, truth, own, unseen, edits, links>>

(* The link at the old place is taken away, or led to another folder.      *)
Relink ==
    /\ links /= {}
    /\ links' \in {{}, {[l EXCEPT !.to = root \o Decoy, !.own = FALSE] : l \in links}}
    /\ UNCHANGED <<surface, disk, root, fmap, picked, pin, seen, truth, own, unseen, edits, moves, folders, misled>>

Restart ==
    /\ links /= {} /\ StartAt(root, links)
    /\ UNCHANGED <<surface, disk, fmap, picked, pin, seen, truth, own, unseen, edits, moves, links>>

(* The pinned file is deleted; the file of the same name stays.            *)
RemoveFile ==
    /\ MayMove /\ pin /= {} /\ truth /= {}
    /\ disk' = [p \in DOMAIN disk \ truth |-> disk[p]]
    /\ truth' = {} /\ moves' = moves + 1
    /\ UNCHANGED <<surface, root, fmap, picked, pin, seen, own, unseen, edits, linkVars>>

Next == \/ Pick \/ Save \/ Edit \/ Sync \/ EditRange
        \/ MoveCheckout \/ ServeFrom \/ RemoveFile \/ Relink \/ Restart
Spec == Init /\ [][Next]_vars

(* ---- properties ----------------------------------------------------------------------------- *)

TypeOK ==
    /\ surface \in {"latex", "figure"} /\ unseen \in BOOLEAN
    /\ truth \subseteq DOMAIN disk
    /\ \A p \in pin : p.lo <= p.hi /\ p.lo >= 1 /\ p.rev \in Nat /\ (p.stale <=> p.sync = "lost")
    /\ \A p \in DOMAIN disk : Len(disk[p].lines) = Len(disk[p].ids)

HalfOverlaps(r, s) ==
    /\ r.lo <= s.hi /\ s.lo <= r.hi
    /\ ~(r.lo <= s.lo /\ s.hi <= r.hi) /\ ~(s.lo <= r.lo /\ r.hi <= s.hi)
Balanced(lines, r, e) ==
    LET read == {i \in r.lo..r.hi : ~Comment(lines[i])}
    IN Cardinality({i \in read : Opens(lines[i], e)}) = Cardinality({i \in read : Closes(lines[i], e)})

WellNested(lines, spans) ==
    LET tokens == MapThenSumSet(LAMBDA i : IF Comment(lines[i]) THEN 0 ELSE Len(lines[i].toks), DOMAIN lines)
    IN 2 * Len(spans) = tokens /\ \A s, t \in Range(spans) : ~(s.lo < t.lo /\ t.lo < s.hi /\ s.hi < t.hi)

(* Whatever lines a drag lands on, its ladder is sound: the dragged lines  *)
(* are a rung; no two rungs are the same lines and none leaves the file;   *)
(* an environment's rung starts and ends with its own \begin and \end and  *)
(* the outer rungs hold the inner ones; and the paragraph takes no half of *)
(* an environment that lies outside the drag                               *)
(* (pins/location/mapping.py, compute_levels).                             *)
SoundRung(lines, spans, r, lo, hi) ==
    /\ 1 <= r.lo /\ r.lo <= r.hi /\ r.hi <= Len(lines)
    /\ "para" \in {r.level} \cup r.merged => \A s \in Range(spans) : (s.hi < lo \/ s.lo > hi) => ~HalfOverlaps(r, s)
    /\ r.level \in EnvLevels => \A e \in r.env :
          /\ Opens(lines[r.lo], e) /\ Closes(lines[r.hi], e)
          /\ WellNested(lines, spans) => Balanced(lines, r, e)
          /\ r.lo <= lo /\ lo <= r.hi
SoundRungs(lines, spans, rungs, lo, hi) ==
    /\ \E k \in DOMAIN rungs : rungs[k].lo = lo /\ rungs[k].hi = hi
    /\ \A k \in DOMAIN rungs : SoundRung(lines, spans, rungs[k], lo, hi)
    /\ \A j, k \in DOMAIN rungs : j /= k => <<rungs[j].lo, rungs[j].hi>> /= <<rungs[k].lo, rungs[k].hi>>
    /\ \A j, k \in DOMAIN rungs : (j < k /\ {rungs[j].level, rungs[k].level} \subseteq EnvLevels) =>
          rungs[k].lo <= rungs[j].lo /\ rungs[j].hi <= rungs[k].hi
SoundLadder(lines, lo, hi) == SoundRungs(lines, EnvSpans(lines), ComputeLevels(lines, lo, hi).levels, lo, hi)

LaddersAreSound ==
    (surface = "latex" /\ pin = {} /\ picked = {}) =>
        LET lines == disk[The(truth)].lines
        IN \A lo \in DOMAIN lines : \A hi \in lo..Len(lines) : SoundLadder(lines, lo, hi)

(* What parse_map accepts, every drag on it is answered with: each element *)
(* leads up to the page's root; the chosen element has no candidate below  *)
(* it, and a drag exactly round an element never goes to one around it;    *)
(* without a candidate it is the innermost element that holds all the drag *)
(* filled; and the ladder climbs from the choice to the root, the rungs in *)
(* one file and within it (builds/figure_map.py, pins/location/figure.py). *)
SoundChoice(els, box, p) ==
    LET up(id) == Elements!ChainOf(els, id)
        above(id) == {e.id : e \in Range(Tail(up(id)))}
        filled == {e \in Range(Tail(els)) : Elements!AtLeast(Elements!Fill(e.frac, box), 5)}
        inOrder(rungs, n) ==
            \A k \in DOMAIN rungs :
                rungs[k].hi <= n /\ \A j \in DOMAIN rungs : j < k => rungs[j].level < rungs[k].level
    IN /\ \A i \in p.cands : p.chosen.id \notin above(els[i].id)
       /\ \A e \in Range(Tail(els)) : box = e.frac => p.chosen.id \notin above(e.id)
       /\ p.cands = {} =>
             /\ \A e \in filled : p.chosen.id \in above(e.id) \cup {e.id}
             /\ \A c \in Range(els) : c.parent = p.chosen.id =>
                   filled = {} \/ \E e \in filled : c.id \notin above(e.id) \cup {e.id}
       /\ p.ladder[1] = p.chosen /\ Last(p.ladder) = els[1] /\ Len(p.ladder) <= LadderMax + 1
       /\ \A k \in 2..Len(p.ladder) : p.ladder[k].id \in above(p.ladder[k - 1].id)
       /\ \A n \in 1..4 : inOrder(Elements!ElementRungs(p.ladder, n), n)
SoundPick(els, box) == SoundChoice(els, box, Elements!PickElement(els, box))

ElementsAreSound ==
    (pin = {} /\ picked = {}) => \A k \in DOMAIN fmap :
        /\ \A el \in Range(fmap[k].elements) :
              Last(Elements!ChainOf(fmap[k].elements, el.id)) = fmap[k].elements[1]
        /\ \A b \in Boxes : SoundPick(fmap[k].elements, b)

(* A pin is found in its own file: as long as the folder served holds the  *)
(* file it was put on, no other file is taken for it, wherever the         *)
(* checkout was moved to and whatever has the same name, now and as the    *)
(* next transaction re-matches it - unless a link at the old place was led *)
(* elsewhere, or the pin was written while a folder without its file was   *)
(* served (pins/location/mapping.py, pin_rel_path).                        *)
LocatedIsOwnFile ==
    \A p \in pin : (Serving /\ ~misled /\ ~Astray(links)) =>
        \A q \in {p, Synced(p)} : Locate(q.file, q.fileRel) \subseteq truth

(* The changes view, which reads a pin's file out of the history, never    *)
(* takes another file for it either, even while a link is led elsewhere:   *)
(* only the links as they were when the server started, or wrote the pin,  *)
(* and the folder it served then count (pins/location/lookup.py,           *)
(* recorded_place, recorded_folders).                                      *)
RecordedIsOwnFile ==
    \A p \in pin : (Serving /\ ~misled) => RecordedPlace(p) \cap DOMAIN disk \subseteq truth

(* However the file was edited and the checkout moved between re-matches,  *)
(* a pin just re-matched stands on exactly the lines it was put on, as     *)
(* long as they still stand together and its first and last line read like *)
(* no other - unless the file was changed without a newer time, or the pin *)
(* was written while a link led elsewhere or its file was not served       *)
(* (pins/location/position.py, follow_anchor, resync).                     *)
StandsTogether(content, at) == SubSeq(content.ids, at, at + Len(own) - 1) = own
PinKeepsItsLines ==
    \A p \in pin :
        LET now == disk[The(truth)]
            ends == {l \in Range(now.lines) : \E a \in p.anchor : l \in {a.head, a.tail}}
        IN (/\ truth /= {} /\ own /= <<>> /\ Locate(p.file, p.fileRel) = truth /\ Synced(p) = p /\ ~unseen /\ ~misled
            /\ p.anchored /\ p.anchor /= {}
            /\ \A l \in ends : Cardinality({i \in DOMAIN now.lines : now.lines[i] = l}) = 1)
           => \A at \in DOMAIN now.ids :
                 (at + Len(own) - 1 <= Len(now.ids) /\ StandsTogether(now, at)) =>
                    ~p.stale /\ p.lo = at /\ p.hi = at + Len(own) - 1

(* A lo/hi edit lands only on a pin whose lines are the ones its sender    *)
(* saw: had a re-match moved them since, the rev it names would be stale   *)
(* (pins/location/position.py, resync; pins/editing/rules.py, decide_edit).*)
EditsLandOnSeenLines ==
    [][EditRange => \A s \in seen : s.lo = Synced(The(pin)).lo /\ s.hi = Synced(The(pin)).hi]_vars

(* Together: the rungs a drag offers are sound, on a page and on a figure. *)
RungsAreSound == LaddersAreSound /\ ElementsAreSound

(* Together: a pin stays in its own file and on its own lines.             *)
PinsKeepTheirPlace == /\ TypeOK /\ LocatedIsOwnFile /\ RecordedIsOwnFile
                      /\ PinKeepsItsLines
====
