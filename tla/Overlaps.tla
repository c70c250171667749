------------------------------ MODULE Overlaps ------------------------------
(***************************************************************************)
(* How the open line pins of one file relate to each other, and to a range *)
(* that is not saved yet.  Computed on every read from the pins' lines and *)
(* the file each is found in now; never stored.                            *)
(***************************************************************************)
EXTENDS Integers

CONSTANTS Files,   \* the files pins are counted in (located_file)
          NoLines  \* the place of a region's pin

Span  == {s \in Int \X Int : s[1] <= s[2]}
Pin   == [id : Int, open : BOOLEAN, place : Span \cup {NoLines}, file : Files]
Rels  == {"inside", "contains", "partial"}
Apart == "apart"  \* the program's None

(* range_rel: a's relationship to b; equal ranges contain each other. *)
RangeRel(a, b) ==
  CASE a[2] < b[1] \/ b[2] < a[1]                  -> Apart
    [] b[1] <= a[1] /\ a[2] <= b[2] /\ a # b       -> "inside"
    [] a[1] <= b[1] /\ b[2] <= a[2]                -> "contains"
    [] OTHER                                       -> "partial"

Reversed(rel) == CASE rel = "inside"   -> "contains"
                   [] rel = "contains" -> "inside"
                   [] OTHER            -> rel

(* Of two pins on the same lines the one with the smaller id is the outer. *)
FirstRel(p, q) ==
  IF p.place = q.place THEN IF p.id < q.id THEN "contains" ELSE "inside"
  ELSE RangeRel(p.place, q.place)

(* overlaps_by_id asks range_rel once for a pair, for the pin that stands  *)
(* first among the pins, and tells the other one the reverse: before(p, q) *)
(* is that p stands first.                                                 *)
PairRel(p, q, before) ==
  IF before THEN FirstRel(p, q) ELSE Reversed(FirstRel(q, p))

Counted(p)     == p.open /\ p.place # NoLines
Related(p, q)  == Counted(p) /\ Counted(q) /\ p.file = q.file

(* The views of a pair on the same file: what overlaps_by_id lists of q    *)
(* under p.                                                                *)
Overlap(p, q, before) == IF Related(p, q) THEN PairRel(p, q, before) ELSE Apart

(* selection_rel: a range that is not saved yet has no id, so the same     *)
(* lines are told apart as "equal".                                        *)
SelectionRel(range, saved) == IF range = saved THEN "equal" ELSE RangeRel(range, saved)

(* overlaps_for_range: what is said of p to the one about to pin range.    *)
OverlapForRange(file, range, p) ==
  IF Counted(p) /\ p.file = file THEN SelectionRel(range, p.place) ELSE Apart
=============================================================================
