---- MODULE VerdictOrder ----
(* Which verdict pin is the current one about its target (ADR-0023): the   *)
(* server's superseded_by (pins/verdict.py) and the viewer's verdictOrder  *)
(* (viewer/js/verdict.js), two programs for one rule.                      *)
(*                                                                         *)
(* A pin is read here as a record with                                     *)
(*   place    [sort |-> "lines", lo, hi]     a range of its file           *)
(*            [sort |-> "element", path]     a figure's element            *)
(*            [sort |-> "region", page, whole]  of a view-only PDF         *)
(*   open, stale, anchor ({} for none), verdict ({} or {key})              *)
(* and its number is its place in the sequence of pins.                    *)
EXTENDS Integers, SequencesExt, FiniteSetsExt

CONSTANT SurfaceOf   \* the capability of a document's kind: "element", "region" or "lines"

NoTarget == {}
Target(key) == {[key |-> key, onLines |-> FALSE, open |-> FALSE, anchor |-> {}]}
LinesTarget(p) == {[key |-> <<"lines", p.place.lo, p.place.hi>>, onLines |-> TRUE, open |-> p.open, anchor |-> p.anchor]}

(* ---- the server -------------------------------------------------------------- *)

WholePage(p) == p.place.sort = "region" /\ p.place.whole
FigureRoot(p) == IF p.place.sort = "element" /\ p.place.path /= <<>> THEN {Head(p.place.path)} ELSE {}

(* order_target, by what the document can do; estimated: the pin's mark is *)
(* only a guess on the PDF on screen.                                      *)
OrderTarget(p, kind, estimated) ==
    CASE SurfaceOf[kind] = "element" -> UNION {Target(<<"figure", root>>) : root \in FigureRoot(p)}
      [] SurfaceOf[kind] = "region" -> IF estimated \/ ~WholePage(p) THEN NoTarget ELSE Target(<<"page", p.place.page>>)
      [] SurfaceOf[kind] = "lines" -> IF p.place.sort /= "lines" \/ p.stale THEN NoTarget ELSE LinesTarget(p)

(* OrderTarget.same_text: the classes of text a range belongs to.          *)
SameText(t) ==
    IF ~t.onLines THEN {} ELSE (IF t.open THEN {<<"open">>} ELSE {}) \cup {<<"anchor", a>> : a \in t.anchor}

(* superseded_by: the newest pin of every group and of every class in it,  *)
(* then every pin's answer read off them.  guess is the set of pins whose  *)
(* mark is only an estimate; a pin in the Trash is not read.               *)
VerdictPins(pins) == {i \in DOMAIN pins : pins[i].live /\ pins[i].verdict /= {}}
Entries(pins, kind, guess) ==
    UNION {{[pid |-> i, t |-> t] : t \in OrderTarget(pins[i], kind, i \in guess)} : i \in VerdictPins(pins)}
Group(entries, key) == {e \in entries : e.t.key = key}
NewestOfClass(group, c) == Max({e.pid : e \in {x \in group : c \in SameText(x.t)}})
CurrentByIndex(group, e) ==
    IF e.t.onLines THEN Max({NewestOfClass(group, c) : c \in SameText(e.t)} \cup {e.pid})
    ELSE Max({x.pid : x \in group})
SupersededBy(pins, kind, guess) ==
    LET answers(entries) == {<<e.pid, CurrentByIndex(Group(entries, e.t.key), e)>> : e \in entries}
    IN {a \in answers(Entries(pins, kind, guess)) : a[2] > a[1]}

(* ---- the viewer ----------------------------------------------------------------- *)

(* verdictTargetOf: the page's whole target first (pageTargetOf), then the *)
(* figure whose page is gone, then lines.                                  *)
ViewerTarget(p, kind, estimated) ==
    LET figure == SurfaceOf[kind] = "element"
        viewOnly == SurfaceOf[kind] = "region"
        root == IF p.place.sort = "element" THEN {h \in {Head(p.place.path)} : p.place.path /= <<>>} ELSE {}
    IN CASE figure -> UNION {Target(<<"figure", r>>) : r \in root}
         [] viewOnly /\ p.place.sort = "region" /\ ~estimated /\ p.place.whole -> Target(<<"page", p.place.page>>)
         [] ~figure /\ ~viewOnly /\ p.place.sort = "lines" /\ ~p.stale -> LinesTarget(p)
         [] OTHER -> NoTarget

SameLines(a, b) ==
    ~a.onLines \/ ~b.onLines \/ (a.open /\ b.open) \/ (a.anchor /= {} /\ a.anchor = b.anchor)

(* verdictOrder: of a target's pins, the newest first, a pin's current one *)
(* is the first that is itself or about the same lines.                    *)
About(x, y) == ~x.t.onLines \/ y.pid = x.pid \/ SameLines(x.t, y.t)
ViewerCurrent(group, x) == Max({y.pid : y \in {z \in group : About(x, z)}})
ViewerOrder(pins, kind, guess) ==
    LET read == UNION {{[pid |-> i, t |-> t] : t \in ViewerTarget(pins[i], kind, i \in guess)} : i \in VerdictPins(pins)}
        current(all) == {<<x.pid, ViewerCurrent({y \in all : y.t.key = x.t.key}, x)>> : x \in all}
    IN {pair \in current(read) : pair[2] /= pair[1]}
====
