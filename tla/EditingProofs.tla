--------------------------- MODULE EditingProofs ---------------------------
(* Proofs about PinEditing: an accepted edit, verdict or suggestion fitted *)
(* when it was accepted and stays as it is, whatever the author, the       *)
(* builds and the other clients do between a request's reads and its       *)
(* transaction, and the server and the viewer name the same current        *)
(* verdict.  For every document, every set of requests and every bound.    *)
(* And about PinLocation, as Places: a re-matched pin stands on the lines  *)
(* it was put on, and an edit of its lines is of the ones its sender saw.  *)
EXTENDS PinEditing, SequenceTheorems, FiniteSetTheorems, WellFoundedInduction, TLAPS

(* ---- the inductive invariant --------------------------------------------- *)

(* A stored pin is a record with the fields it was made with, and has one  *)
(* anchor at most.                                                         *)
PinFields == {"live", "open", "place", "verdict", "question", "suggest", "rev", "stale", "anchor", "syncedAt", "build"}
IsPinRecord(p) == p = [f \in PinFields |-> p[f]]
IsPin(p, k) ==
    /\ IsPinRecord(p)
    /\ p.live \in BOOLEAN /\ p.open \in BOOLEAN /\ p.question \in BOOLEAN /\ p.stale \in BOOLEAN
    /\ IsPlace(p.place, k)
    /\ (p.anchor = {} \/ p.anchor = {The(p.anchor)}) /\ \A a \in p.anchor : a.tailOff \in Int
ArePins(ps, k) == \E n \in Nat : ps = [i \in 1..n |-> ps[i]] /\ \A i \in 1..n : IsPin(ps[i], k)

(* A request is an add's record or an edit's.                              *)
AddFields ==
    {"at", "do", "place", "verdict", "question", "suggest", "sent", "lines", "mtime", "version", "seen", "answer",
     "keys", "holds", "screen", "held", "texts"}
IsAddRecord(r) == r = [f \in AddFields |-> r[f]]
IsAdd(r, k) ==
    /\ r /= Idle /\ r.do = "add" /\ IsAddRecord(r)
    /\ r.at \in {"snapshot", "version", "lookup", "load", "publish", "root", "commit"}
    /\ r.question \in BOOLEAN /\ r.holds \in BOOLEAN
    /\ IsPlace(r.place, k) /\ r.lines \in Seq(Texts)
ChangeFields == {"loc", "lo", "hi", "scope", "kindReq", "suggest", "removes", "append", "verdictSent", "nulls"}
IsChangeRecord(e) == e = [f \in ChangeFields |-> e[f]]
IsChange(e, k) ==
    /\ IsChangeRecord(e)
    /\ e.scope \in BOOLEAN /\ e.removes \in BOOLEAN /\ e.append \in BOOLEAN
    /\ e.verdictSent \in BOOLEAN /\ e.nulls \in BOOLEAN
    /\ e.lo \subseteq Int /\ e.hi \subseteq Int
    /\ e.loc = {Unread} \/ \A l \in e.loc : IsPlace(l, k)
EditFields == {"at", "do", "pid", "change", "base", "build", "texts"}
IsEditRecord(r) == r = [f \in EditFields |-> r[f]]
IsEdit(r, k) ==
    /\ r /= Idle /\ r.do = "edit" /\ IsEditRecord(r)
    /\ r.at \in {"scope", "commit", "anchor"}
    /\ IsChange(r.change, k)
    /\ r.build /= {} => r.change.loc /= {}

IsVersion(v) == v \in {Absent, Unopened} \/ \E n \in 1..Len(contents) : v = At(n)
DataInv ==
    /\ kind \in Kinds /\ file.lines \in Seq(Texts)
    /\ contents \in Seq(Words[kind]) /\ IsVersion(version)
    /\ ArePins(pins, kind) /\ PageTargetsAreTrue

(* An entry holds the answer for its version.                              *)
EntryInv == \A e \in entry : IsVersion(e.version) /\ e.answer = AnswerOf(e.version)

(* What a request for a verdict reads of the word file is an answer for a  *)
(* version the file had since the request came.                            *)
WordsTold(r) ==
    /\ AnswerOf(version) \in r.held
    /\ r.at \in {"lookup", "load", "publish"} => IsVersion(r.version) /\ AnswerOf(r.version) \in r.held
    /\ r.at = "publish" => r.answer = AnswerOf(r.version)
    /\ r.at \in {"root", "commit"} => \E a \in r.held : a.keys = r.keys

(* A whole figure that holds is the one of the build the pin will record.  *)
RootRead(r) ==
    (r.at = "commit" /\ r.verdict /= {} /\ WholeFigure(r.place) /\ r.holds) =>
        /\ r.sent /= {} \/ r.screen /= {}
        /\ RootOf[BuildOf(r)] = r.place.path[1]

(* A suggestion was decided on the lines the pin is anchored in, which are *)
(* among those its request met.                                            *)
Decided(r) ==
    r.suggest /= {} =>
        /\ file.lines \in r.texts
        /\ (r.verdict = {} /\ r.at /= "snapshot") =>
              r.lines \in r.texts /\ \A s \in r.suggest : DecideNewSuggestion(s, r.place, r.lines)

AddInv(r) ==
    /\ r.at \in {"version", "lookup", "load", "publish", "root"} => r.verdict /= {}
    /\ r.verdict /= {} => WordsTold(r)
    /\ RootRead(r) /\ Decided(r)
EditInv(r) == r.pid \in DOMAIN pins /\ (r.change.suggest /= {} => file.lines \in r.texts)
RequestInv(r) ==
    r = Idle \/ (IsAdd(r, kind) /\ AddInv(r)) \/ (IsEdit(r, kind) /\ EditInv(r))
RequestsInv == req = [c \in Clients |-> req[c]] /\ \A c \in Clients : RequestInv(req[c])

(* One edit at most is inside its transaction.  The pins it will write are *)
(* the stored ones re-matched against the file it found, and its decision  *)
(* was taken on them.                                                      *)
Reread(lines, p, q) ==
    /\ q.live = p.live /\ q.open = p.open /\ q.verdict = p.verdict /\ q.question = p.question
    /\ q.suggest = p.suggest /\ q.build = p.build /\ q.anchor = p.anchor /\ q.place.sort = p.place.sort
    /\ q.place /= p.place => /\ p.open /\ p.place.sort = "lines"
                             /\ \A a \in p.anchor : lines[q.place.lo] = a.head
Accepted(l, r) ==
    /\ r.at = "anchor" /\ IsEdit(r, kind)
    /\ l.pins[r.pid].live /\ ~Refused(l.pins[r.pid], r.change, r.base, l.lines)
    /\ r.change.suggest /= {} => l.lines \in r.texts
InsideInv(l) ==
    /\ l.by \in Clients /\ Accepted(l, req[l.by])
    /\ ArePins(l.pins, kind) /\ DOMAIN l.pins = DOMAIN pins
    /\ \A i \in DOMAIN pins : Reread(l.lines, pins[i], l.pins[i])
LockInv ==
    /\ lock = {} \/ lock = {The(lock)}
    /\ \A c \in Clients : req[c].at = "anchor" => \E l \in lock : l.by = c
    /\ \A l \in lock : InsideInv(l)

Inv == DataInv /\ EntryInv /\ RequestsInv /\ LockInv

-----------------------------------------------------------------------------
(* The order of verdicts.                                                    *)

(* Both programs read the same target of a pin.                              *)
LEMMA TargetsAgree ==
  ASSUME NEW p, NEW k \in Kinds, NEW estimated \in BOOLEAN, IsPin(p, k)
  PROVE  OrderTarget(p, k, estimated) = ViewerTarget(p, k, estimated)
<1> DEFINE root == IF p.place.sort = "element" THEN {h \in {Head(p.place.path)} : p.place.path /= <<>>} ELSE {}
<1>1. SurfaceOf[k] \in {"element", "region", "lines"}
  BY DocumentsAssumption DEF Documents
<1>2. FigureRoot(p) = root
  BY DEF FigureRoot
<1>3. p.stale \in BOOLEAN /\ (p.place.sort = "region" => p.place.whole \in BOOLEAN)
  BY DEF IsPin, IsPlace, IsLines, IsElement, IsRegion
<1> HIDE DEF root
<1>4. CASE SurfaceOf[k] = "element"
  <2>1. OrderTarget(p, k, estimated) = UNION {Target(<<"figure", r>>) : r \in FigureRoot(p)}
    BY <1>4 DEF OrderTarget
  <2>2. ViewerTarget(p, k, estimated) = UNION {Target(<<"figure", r>>) : r \in root}
    BY <1>4 DEF ViewerTarget, root
  <2> QED BY <1>2, <2>1, <2>2
<1>5. CASE SurfaceOf[k] = "region"
  <2>1. OrderTarget(p, k, estimated) = IF estimated \/ ~WholePage(p) THEN NoTarget ELSE Target(<<"page", p.place.page>>)
    BY <1>5 DEF OrderTarget
  <2>2. ViewerTarget(p, k, estimated) =
          IF p.place.sort = "region" /\ ~estimated /\ p.place.whole THEN Target(<<"page", p.place.page>>) ELSE NoTarget
    BY <1>5, <1>3 DEF ViewerTarget
  <2>3. (estimated \/ ~WholePage(p)) <=> ~(p.place.sort = "region" /\ ~estimated /\ p.place.whole)
    BY <1>3 DEF WholePage
  <2> QED BY <2>1, <2>2, <2>3
<1>6. CASE SurfaceOf[k] = "lines"
  <2>1. OrderTarget(p, k, estimated) = IF p.place.sort /= "lines" \/ p.stale THEN NoTarget ELSE LinesTarget(p)
    BY <1>6 DEF OrderTarget
  <2>2. ViewerTarget(p, k, estimated) = IF p.place.sort = "lines" /\ ~p.stale THEN LinesTarget(p) ELSE NoTarget
    BY <1>6, <1>3 DEF ViewerTarget
  <2> QED BY <1>3, <2>1, <2>2
<1> QED BY <1>1, <1>4, <1>5, <1>6

(* What a target looks like, and that a document's targets are of one kind.  *)
LEMMA TargetShape ==
  ASSUME NEW p, NEW k \in Kinds, NEW estimated \in BOOLEAN, IsPin(p, k), NEW t \in OrderTarget(p, k, estimated)
  PROVE  /\ t = [key |-> t.key, onLines |-> t.onLines, open |-> t.open, anchor |-> t.anchor]
         /\ t.onLines \in BOOLEAN /\ (t.onLines <=> SurfaceOf[k] = "lines") /\ t.open \in BOOLEAN
         /\ t.anchor = {} \/ t.anchor = {The(t.anchor)}
<1>1. SurfaceOf[k] \in {"element", "region", "lines"} /\ p.open \in BOOLEAN
      /\ (p.anchor = {} \/ p.anchor = {The(p.anchor)})
  BY DocumentsAssumption DEF Documents, IsPin
<1>2. ASSUME NEW key, NEW u \in Target(key)
      PROVE  /\ u = [key |-> u.key, onLines |-> u.onLines, open |-> u.open, anchor |-> u.anchor]
             /\ u.onLines = FALSE /\ u.open = FALSE /\ u.anchor = {}
  <2>1. u = [key |-> key, onLines |-> FALSE, open |-> FALSE, anchor |-> {}]
    BY DEF Target
  <2> QED BY <2>1
<1>3. CASE SurfaceOf[k] = "element"
  <2>1. PICK r : t \in Target(<<"figure", r>>)
    BY <1>3 DEF OrderTarget
  <2>2. t.onLines = FALSE /\ t.open = FALSE /\ t.anchor = {} /\ SurfaceOf[k] /= "lines"
    BY <1>2, <1>3, <2>1
  <2>3. t = [key |-> t.key, onLines |-> t.onLines, open |-> t.open, anchor |-> t.anchor]
    BY <1>2, <2>1
  <2> QED BY <2>2, <2>3
<1>4. CASE SurfaceOf[k] = "region"
  <2>1. t \in Target(<<"page", p.place.page>>)
    BY <1>4 DEF OrderTarget, NoTarget
  <2>2. t.onLines = FALSE /\ t.open = FALSE /\ t.anchor = {} /\ SurfaceOf[k] /= "lines"
    BY <1>2, <1>4, <2>1
  <2>3. t = [key |-> t.key, onLines |-> t.onLines, open |-> t.open, anchor |-> t.anchor]
    BY <1>2, <2>1
  <2> QED BY <2>2, <2>3
<1>5. CASE SurfaceOf[k] = "lines"
  <2>1. t = [key |-> <<"lines", p.place.lo, p.place.hi>>, onLines |-> TRUE, open |-> p.open, anchor |-> p.anchor]
    BY <1>5 DEF OrderTarget, NoTarget, LinesTarget
  <2> QED BY <1>1, <1>5, <2>1
<1> QED BY <1>1, <1>3, <1>4, <1>5

(* A set of pins' numbers that is not empty has a greatest.                  *)
LEMMA MaxIs ==
  ASSUME NEW n \in Nat, NEW A, A \subseteq 1..n, A # {}
  PROVE  Max(A) \in A /\ \A j \in A : j <= Max(A)
<1> DEFINE above(x) == {j \in A : x < j}
           T == {above(x) : x \in A}
<1>1. A \subseteq Int /\ IsFiniteSet(A) /\ \A x \in A : above(x) \in SUBSET A
  <2>1. IsFiniteSet(1..n) /\ A \in SUBSET (1..n)
    BY FS_Interval
  <2>2. IsFiniteSet(A)
    BY <2>1, FS_Subset
  <2> QED BY <2>2
<1>2. T \subseteq FiniteSubsetsOf(A) /\ T # {}
  <2>1. T \subseteq SUBSET A /\ T # {}
    BY <1>1
  <2> HIDE DEF T
  <2> QED BY <1>1, <2>1, FS_FiniteSubsetsOfFinite
<1>3. PICK B \in T : \A C \in T : ~ (<<C, B>> \in StrictSubsetOrdering(A))
  <2>1. IsWellFoundedOn(StrictSubsetOrdering(A), FiniteSubsetsOf(A))
    BY <1>1, FS_StrictSubsetOrderingWellFounded
  <2> HIDE DEF T
  <2> QED BY <1>2, <2>1, WFMin
<1>4. PICK m \in A : B = above(m)
  OBVIOUS
<1>5. ASSUME NEW y \in A, m < y PROVE FALSE
  <2>1. y \in Int /\ m \in Int /\ \A j \in A : j \in Int /\ (y < j => m < j) /\ ~(j < j)
    BY <1>1, <1>5
  <2>2. above(y) \in T /\ above(y) \in SUBSET A /\ above(m) \in SUBSET A
    BY <1>1
  <2>3. above(y) \subseteq above(m) /\ y \in above(m) /\ y \notin above(y)
    <3> HIDE DEF T
    <3> QED BY <1>5, <2>1
  <2>4. <<above(y), B>> \in StrictSubsetOrdering(A)
    BY <1>4, <2>2, <2>3 DEF StrictSubsetOrdering
  <2> QED BY <1>3, <2>2, <2>4
<1>6. \A j \in A : m >= j
  <2> SUFFICES ASSUME NEW j \in A PROVE m >= j
    OBVIOUS
  <2>1. ~(m < j) /\ j \in Int /\ m \in Int
    BY <1>1, <1>5
  <2> QED BY <2>1
<1> HIDE DEF above, T
<1>7. Max(A) \in A /\ \A j \in A : Max(A) >= j
  BY <1>6 DEF Max
<1> QED BY <1>1, <1>7

(* Of one target's pins, the newest read off the index of classes and the    *)
(* newest about the same lines are the same one, and none is newer than      *)
(* itself.                                                                   *)
IsTarget(t, onLines) ==
    /\ t = [key |-> t.key, onLines |-> t.onLines, open |-> t.open, anchor |-> t.anchor]
    /\ t.onLines \in BOOLEAN /\ (t.onLines <=> onLines) /\ t.open \in BOOLEAN /\ (t.anchor = {} \/ t.anchor = {The(t.anchor)})
LEMMA SharedClass ==
  ASSUME NEW t, NEW u, IsTarget(t, TRUE), IsTarget(u, TRUE)
  PROVE  SameLines(t, u) <=> \E class \in SameText(t) : class \in SameText(u)
<1>1. t.onLines = TRUE /\ u.onLines = TRUE /\ t.open \in BOOLEAN /\ u.open \in BOOLEAN
  BY DEF IsTarget
<1>2. SameText(t) = (IF t.open THEN {<<"open">>} ELSE {}) \cup {<<"anchor", a>> : a \in t.anchor}
  BY <1>1 DEF SameText
<1>3. SameText(u) = (IF u.open THEN {<<"open">>} ELSE {}) \cup {<<"anchor", a>> : a \in u.anchor}
  BY <1>1 DEF SameText
<1>4. SameLines(t, u) <=> (t.open /\ u.open) \/ (t.anchor /= {} /\ t.anchor = u.anchor)
  BY <1>1 DEF SameLines
<1>5. (t.anchor /= {} /\ t.anchor = u.anchor) <=> \E a \in t.anchor : a \in u.anchor
  BY DEF IsTarget
<1>6. ASSUME NEW a, NEW b PROVE /\ <<"open">> /= <<"anchor", a>>
                                /\ <<"anchor", a>> = <<"anchor", b>> => a = b
  OBVIOUS
<1>7. ASSUME SameLines(t, u) PROVE \E class \in SameText(t) : class \in SameText(u)
  <2>1. CASE t.open /\ u.open
    BY <1>2, <1>3, <2>1
  <2>2. CASE \E a \in t.anchor : a \in u.anchor
    <3>1. PICK a \in t.anchor : a \in u.anchor
      BY <2>2
    <3>2. <<"anchor", a>> \in SameText(t)
      BY <1>2, <3>1
    <3>3. <<"anchor", a>> \in SameText(u)
      BY <1>3, <3>1
    <3> QED BY <3>2, <3>3
  <2> QED BY <1>4, <1>5, <1>7, <2>1, <2>2
<1>8. ASSUME NEW class \in SameText(t), class \in SameText(u) PROVE SameLines(t, u)
  <2>1. (class = <<"open">> /\ t.open) \/ \E a \in t.anchor : class = <<"anchor", a>>
    BY <1>2, <1>8
  <2>2. (class = <<"open">> /\ u.open) \/ \E a \in u.anchor : class = <<"anchor", a>>
    BY <1>3, <1>8
  <2> QED BY <1>4, <1>5, <1>6, <2>1, <2>2
<1> QED BY <1>7, <1>8

LEMMA CurrentAgrees ==
  ASSUME NEW n \in Nat, NEW group, NEW onLines \in BOOLEAN,
         \A y \in group : y = [pid |-> y.pid, t |-> y.t] /\ y.pid \in 1..n /\ IsTarget(y.t, onLines),
         NEW x \in group
  PROVE  CurrentByIndex(group, x) = ViewerCurrent(group, x) /\ CurrentByIndex(group, x) >= x.pid
         /\ CurrentByIndex(group, x) \in Int
<1> DEFINE about == {y.pid : y \in {z \in group : About(x, z)}}
           ofClass(class) == {e.pid : e \in {z \in group : class \in SameText(z.t)}}
<1>1. (x.t.onLines <=> onLines) /\ x.pid \in 1..n
  BY DEF IsTarget
<1>2. about \subseteq 1..n /\ x.pid \in about
  BY DEF About
<1>3. Max(about) \in about /\ \A j \in about : j <= Max(about)
  <2> HIDE DEF about
  <2> QED BY <1>2, MaxIs
<1>4. ViewerCurrent(group, x) = Max(about)
  BY DEF ViewerCurrent
<1>5. CASE ~onLines
  <2>1. {z \in group : About(x, z)} = group
    BY <1>1, <1>5 DEF About
  <2>2. CurrentByIndex(group, x) = Max({y.pid : y \in group})
    BY <1>1, <1>5 DEF CurrentByIndex
  <2>3. about = {y.pid : y \in group}
    BY <2>1
  <2> HIDE DEF about
  <2> QED BY <1>2, <1>3, <1>4, <2>2, <2>3
<1>6. CASE onLines
  <2> DEFINE newest == {NewestOfClass(group, class) : class \in SameText(x.t)} \cup {x.pid}
  <2>1. CurrentByIndex(group, x) = Max(newest)
    BY <1>1, <1>6 DEF CurrentByIndex
  <2>2. ASSUME NEW class \in SameText(x.t)
        PROVE  NewestOfClass(group, class) \in about /\ \A j \in ofClass(class) : j <= NewestOfClass(group, class)
    <3>1. ofClass(class) \subseteq 1..n /\ x.pid \in ofClass(class)
      BY <2>2
    <3>2. NewestOfClass(group, class) = Max(ofClass(class))
      BY DEF NewestOfClass
    <3>3. Max(ofClass(class)) \in ofClass(class) /\ \A j \in ofClass(class) : j <= Max(ofClass(class))
      <4> HIDE DEF ofClass
      <4> QED BY <3>1, MaxIs
    <3>4. ofClass(class) \subseteq about
      <4> SUFFICES ASSUME NEW z \in group, class \in SameText(z.t) PROVE z.pid \in about
        OBVIOUS
      <4>1. SameLines(x.t, z.t)
        BY <1>6, <2>2, SharedClass
      <4> QED BY <4>1 DEF About
    <3> QED BY <3>2, <3>3, <3>4
  <2>3. newest \subseteq about /\ x.pid \in newest
    BY <1>2, <2>2
  <2>4. ASSUME NEW j \in about PROVE \E m \in newest : j <= m
    <3>1. PICK z \in group : About(x, z) /\ j = z.pid
      BY <2>4
    <3>2. CASE z.pid = x.pid
      BY <1>1, <3>1, <3>2
    <3>3. CASE z.pid /= x.pid
      <4>1. SameLines(x.t, z.t)
        BY <1>1, <1>6, <3>1, <3>3 DEF About
      <4>2. PICK class \in SameText(x.t) : class \in SameText(z.t)
        BY <1>6, <4>1, SharedClass
      <4>3. j \in ofClass(class)
        BY <3>1, <4>2
      <4> QED BY <2>2, <4>2, <4>3
    <3> QED BY <3>2, <3>3
  <2> HIDE DEF about, newest
  <2>5. newest \subseteq 1..n /\ newest /= {}
    BY <1>2, <2>3
  <2>6. Max(newest) \in newest /\ \A j \in newest : j <= Max(newest)
    BY <2>5, MaxIs
  <2>7. Max(newest) = Max(about)
    <3>1. Max(about) \in Int /\ Max(newest) \in Int
      BY <1>2, <1>3, <2>5, <2>6
    <3>2. Max(newest) <= Max(about)
      BY <1>3, <2>3, <2>6
    <3>3. PICK m \in newest : Max(about) <= m
      BY <1>3, <2>4
    <3>4. m <= Max(newest) /\ m \in Int
      BY <2>5, <2>6
    <3> QED BY <3>1, <3>2, <3>3, <3>4
  <2> QED BY <1>2, <1>3, <1>4, <2>1, <2>7
<1> QED BY <1>5, <1>6

(* The server and the viewer name the same current verdict of every target,  *)
(* whatever the pins are and whichever marks are guesses.                    *)
THEOREM VerdictOrdersAgree ==
  ASSUME NEW ps, NEW k \in Kinds, NEW guess, ArePins(ps, k)
  PROVE  SupersededBy(ps, k, guess) = ViewerOrder(ps, k, guess)
<1>1. PICK n \in Nat : ps = [i \in 1..n |-> ps[i]] /\ \A i \in 1..n : IsPin(ps[i], k)
  BY DEF ArePins
<1> DEFINE entries == Entries(ps, k, guess)
           read == UNION {{[pid |-> i, t |-> t] : t \in ViewerTarget(ps[i], k, i \in guess)} : i \in VerdictPins(ps)}
           server(e) == CurrentByIndex(Group(entries, e.t.key), e)
           viewer(e) == ViewerCurrent({y \in entries : y.t.key = e.t.key}, e)
<1>2. VerdictPins(ps) \subseteq 1..n
  BY <1>1 DEF VerdictPins
<1>3. \A i \in VerdictPins(ps) : OrderTarget(ps[i], k, i \in guess) = ViewerTarget(ps[i], k, i \in guess)
  <2> SUFFICES ASSUME NEW i \in VerdictPins(ps), NEW estimated \in BOOLEAN, estimated <=> i \in guess
               PROVE  OrderTarget(ps[i], k, i \in guess) = ViewerTarget(ps[i], k, i \in guess)
    OBVIOUS
  <2> QED BY <1>1, <1>2, TargetsAgree
<1>4. entries = read
  BY <1>3 DEF Entries
<1>5. ASSUME NEW y \in entries
      PROVE  y = [pid |-> y.pid, t |-> y.t] /\ y.pid \in 1..n /\ IsTarget(y.t, SurfaceOf[k] = "lines")
  <2>1. PICK i \in VerdictPins(ps) : \E t \in OrderTarget(ps[i], k, i \in guess) : y = [pid |-> i, t |-> t]
    BY DEF Entries
  <2>2. PICK t \in OrderTarget(ps[i], k, i \in guess) : y = [pid |-> i, t |-> t]
    BY <2>1
  <2>3. (i \in guess) \in BOOLEAN /\ IsPin(ps[i], k)
    BY <1>1, <1>2
  <2>4. IsTarget(t, SurfaceOf[k] = "lines")
    BY <2>3, TargetShape DEF IsTarget
  <2> QED BY <1>2, <2>2, <2>4
<1> HIDE DEF entries
<1>6. ASSUME NEW e \in entries PROVE server(e) = viewer(e) /\ server(e) >= e.pid /\ server(e) \in Int /\ e.pid \in Int
  <2> DEFINE group == {y \in entries : y.t.key = e.t.key}
  <2>1. Group(entries, e.t.key) = group
    BY DEF Group
  <2>2. e \in group /\ \A y \in group : y = [pid |-> y.pid, t |-> y.t] /\ y.pid \in 1..n
                                        /\ IsTarget(y.t, SurfaceOf[k] = "lines")
    BY <1>5
  <2> HIDE DEF group
  <2>3. (SurfaceOf[k] = "lines") \in BOOLEAN
    OBVIOUS
  <2>4. CurrentByIndex(group, e) = ViewerCurrent(group, e) /\ CurrentByIndex(group, e) >= e.pid
        /\ CurrentByIndex(group, e) \in Int
    BY <2>2, <2>3, CurrentAgrees
  <2> QED BY <1>5, <2>1, <2>4 DEF group
<1>7. SupersededBy(ps, k, guess) = {a \in {<<e.pid, server(e)>> : e \in entries} : a[2] > a[1]}
  BY DEF SupersededBy, entries
<1>8. ViewerOrder(ps, k, guess) = {a \in {<<e.pid, viewer(e)>> : e \in entries} : a[2] /= a[1]}
  BY <1>4 DEF ViewerOrder
<1> HIDE DEF server, viewer
<1>9. {<<e.pid, server(e)>> : e \in entries} = {<<e.pid, viewer(e)>> : e \in entries}
  BY <1>6
<1>10. \A a \in {<<e.pid, server(e)>> : e \in entries} : a[2] > a[1] <=> a[2] /= a[1]
  BY <1>6
<1> QED BY <1>7, <1>8, <1>9, <1>10

-----------------------------------------------------------------------------
(* Stored pins.                                                              *)

(* A pin whose range is moved.                                               *)
LEMMA FirstMoved ==
  ASSUME NEW place, place = [sort |-> "lines", lo |-> place.lo, hi |-> place.hi], NEW lo
  PROVE  [place EXCEPT !.lo = lo] = [sort |-> "lines", lo |-> lo, hi |-> place.hi]
OBVIOUS
LEMMA LastMoved ==
  ASSUME NEW place, NEW lo, NEW last, place = [sort |-> "lines", lo |-> lo, hi |-> last], NEW hi
  PROVE  [place EXCEPT !.hi = hi] = [sort |-> "lines", lo |-> lo, hi |-> hi]
OBVIOUS

IsMovedTo(p, q, lo, hi) == q = [p EXCEPT !.place.lo = lo, !.place.hi = hi, !.stale = FALSE]
Moved(p, q) == IsPinRecord(q) /\ \A f \in PinFields \ {"place", "stale"} : q[f] = p[f]
LEMMA PinMoved ==
  ASSUME NEW p, IsPinRecord(p), IsLines(p.place), NEW lo, NEW hi,
         NEW q, IsMovedTo(p, q, lo, hi)
  PROVE  Moved(p, q) /\ q.place = [sort |-> "lines", lo |-> lo, hi |-> hi] /\ q.stale \in BOOLEAN
<1>1. Moved(p, q) /\ q.stale \in BOOLEAN
  BY DEF IsPinRecord, PinFields, Moved, IsMovedTo
<1>2. PICK half : half = [p.place EXCEPT !.lo = lo]
  OBVIOUS
<1>3. PICK moved : moved = [half EXCEPT !.hi = hi]
  OBVIOUS
<1>4. q.place = moved
  BY <1>2, <1>3 DEF IsPinRecord, PinFields, IsMovedTo
<1>5. half = [sort |-> "lines", lo |-> lo, hi |-> p.place.hi]
  <2>1. PICK place : place = p.place
    OBVIOUS
  <2>2. place = [sort |-> "lines", lo |-> place.lo, hi |-> place.hi]
    BY <2>1 DEF IsLines
  <2> QED BY <1>2, <2>1, <2>2, FirstMoved
<1>6. moved = [sort |-> "lines", lo |-> lo, hi |-> hi]
  BY <1>3, <1>5, LastMoved
<1> QED BY <1>1, <1>4, <1>6

IsFollowed(p, q, a, h) == q = Followed(p, a, h)
LEMMA FollowedIs ==
  ASSUME NEW p, IsPin(p, kind), IsLines(p.place), file.lines \in Seq(Texts),
         NEW a, a.tailOff \in Int, NEW h \in DOMAIN file.lines, NEW q, IsFollowed(p, q, a, h)
  PROVE  Moved(p, q) /\ q.stale \in BOOLEAN /\ IsLines(q.place) /\ q.place.lo = h
<1> DEFINE ends == {t + a.tailOff : t \in {u \in Where(file.lines, a.tail) : u >= h}}
           end == IF ends = {} THEN h + p.place.hi - p.place.lo ELSE The(ends)
           hi == Most(h, Least(Len(file.lines), end))
<1>1. Len(file.lines) \in Nat /\ DOMAIN file.lines = 1..Len(file.lines)
  BY LenProperties
<1>2. end \in Int
  <2>1. ends \subseteq Int
    BY <1>1 DEF Where
  <2>2. ends /= {} => The(ends) \in ends
    BY DEF The
  <2>3. p.place.hi \in Int /\ p.place.lo \in Int /\ h \in Int
    BY <1>1 DEF IsLines
  <2> HIDE DEF ends
  <2>4. CASE ends = {}
    BY <2>3, <2>4
  <2>5. CASE ends /= {}
    BY <2>1, <2>2, <2>5
  <2> QED BY <2>4, <2>5
<1>3. hi \in Int
  <2> HIDE DEF end
  <2> QED BY <1>1, <1>2 DEF Most, Least
<1>4. PICK last \in Int : IsMovedTo(p, q, h, last)
  <2>1. IsMovedTo(p, q, h, hi)
    BY DEF IsFollowed, Followed, IsMovedTo
  <2> HIDE DEF hi
  <2> QED BY <1>3, <2>1
<1> HIDE DEF hi, end, ends
<1>5. IsPinRecord(p) /\ h \in Int
  BY <1>1 DEF IsPin
<1>6. Moved(p, q) /\ q.place = [sort |-> "lines", lo |-> h, hi |-> last] /\ q.stale \in BOOLEAN
  BY <1>4, <1>5, PinMoved
<1> QED BY <1>5, <1>6 DEF IsLines

(* Re-matching moves an open line pin to its first line, and changes nothing *)
(* of a pin but its range and the marks of matching.                         *)
LEMMA ResyncIs ==
  ASSUME NEW p, IsPin(p, kind), file.lines \in Seq(Texts), NEW q, q = Resync(p)
  PROVE  IsPin(q, kind) /\ Reread(file.lines, p, q)
<1>1. CASE q = p
  BY <1>1 DEF Reread
<1>2. CASE q /= p
  <2>1. p.open /\ p.place.sort = "lines" /\ p.anchor /= {} /\ q = Rematched(p)
    BY <1>2 DEF Resync
  <2>0. PICK a, heads : a = The(p.anchor) /\ heads = Where(file.lines, a.head)
    OBVIOUS
  <2>2. p.anchor = {a} /\ a.tailOff \in Int
    BY <2>0, <2>1 DEF IsPin
  <2>3. IsLines(p.place) /\ IsPinRecord(p) /\ p.stale \in BOOLEAN
    BY <2>1 DEF IsPin, IsPlace, IsElement, IsRegion
  <2>4. PICK found : found = (IF heads = {} THEN [p EXCEPT !.stale = TRUE] ELSE Followed(p, a, The(heads)))
    OBVIOUS
  <2>5. Moved(p, found) /\ found.stale \in BOOLEAN /\ IsLines(found.place)
        /\ (found.place /= p.place => file.lines[found.place.lo] = a.head)
    <3>1. CASE heads = {}
      <4>1. found = [p EXCEPT !.stale = TRUE]
        BY <2>4, <3>1
      <4> QED BY <2>3, <4>1 DEF IsPinRecord, Moved, PinFields
    <3>2. CASE heads /= {}
      <4>1. PICK h : h = The(heads)
        OBVIOUS
      <4>2. h \in heads
        BY <3>2, <4>1 DEF The
      <4>3. h \in DOMAIN file.lines /\ file.lines[h] = a.head
        BY <2>0, <4>2 DEF Where
      <4>4. IsFollowed(p, found, a, h)
        BY <2>4, <3>2, <4>1 DEF IsFollowed
      <4>5. Moved(p, found) /\ found.stale \in BOOLEAN /\ IsLines(found.place) /\ found.place.lo = h
        BY <2>2, <2>3, <4>3, <4>4, FollowedIs
      <4> QED BY <4>3, <4>5
    <3> QED BY <3>1, <3>2
  <2>6. PICK rev : q = [found EXCEPT !.syncedAt = file.mtime, !.rev = rev]
    BY <2>0, <2>1, <2>4 DEF Rematched
  <2>7. IsPinRecord(q) /\ (\A f \in PinFields \ {"place", "stale", "syncedAt", "rev"} : q[f] = p[f]) /\ q.place = found.place /\ q.stale = found.stale
    BY <2>5, <2>6 DEF IsPinRecord, Moved, PinFields
  <2>8. IsPin(q, kind)
    BY <2>2, <2>5, <2>7 DEF IsPin, IsPlace, Moved, PinFields
  <2>9. Reread(file.lines, p, q)
    BY <2>1, <2>2, <2>3, <2>5, <2>7 DEF Reread, IsLines, Moved, PinFields
  <2> QED BY <2>8, <2>9
<1> QED BY <1>1, <1>2

-----------------------------------------------------------------------------
(* The sequence of pins.                                                     *)

LEMMA PinsSequence ==
  ASSUME NEW ps, NEW k, ArePins(ps, k)
  PROVE  /\ Len(ps) \in Nat /\ DOMAIN ps = 1..Len(ps) /\ ps \in Seq({ps[i] : i \in DOMAIN ps})
         /\ \A i \in DOMAIN ps : IsPin(ps[i], k)
<1>1. PICK n \in Nat : ps = [i \in 1..n |-> ps[i]] /\ \A i \in 1..n : IsPin(ps[i], k)
  BY DEF ArePins
<1>2. PICK S : S = {ps[i] : i \in DOMAIN ps}
  OBVIOUS
<1>3. DOMAIN ps = 1..n
  BY <1>1
<1>4. ps \in [1..n -> S]
  BY <1>1, <1>2, <1>3
<1>5. ps \in Seq(S)
  BY <1>4, SeqDef
<1>6. Len(ps) \in Nat /\ DOMAIN ps = 1..Len(ps)
  BY <1>5, LenProperties
<1> QED BY <1>1, <1>2, <1>3, <1>5, <1>6

LEMMA PinsAre ==
  ASSUME NEW n \in Nat, NEW k, NEW ps, DOMAIN ps = 1..n, ps = [i \in 1..n |-> ps[i]],
         \A i \in 1..n : IsPin(ps[i], k)
  PROVE  ArePins(ps, k)
BY DEF ArePins

IsAppended(qs, ps, p) == qs = Append(ps, p)
LEMMA PinAppended ==
  ASSUME NEW k, NEW ps, ArePins(ps, k), NEW p, IsPin(p, k), NEW qs, IsAppended(qs, ps, p)
  PROVE  /\ ArePins(qs, k) /\ Len(qs) = Len(ps) + 1 /\ DOMAIN qs = 1..(Len(ps) + 1)
         /\ \A i \in DOMAIN ps : qs[i] = ps[i]
         /\ qs[Len(ps) + 1] = p
<1>1. PICK S : S = {ps[i] : i \in DOMAIN ps} \cup {p}
  OBVIOUS
<1>2. Len(ps) \in Nat /\ DOMAIN ps = 1..Len(ps) /\ ps \in Seq({ps[i] : i \in DOMAIN ps})
      /\ \A i \in DOMAIN ps : IsPin(ps[i], k)
  BY PinsSequence
<1>3. ps \in Seq(S) /\ p \in S
  BY <1>1, <1>2, SeqMonotonic
<1>4. /\ qs \in Seq(S) /\ Len(qs) = Len(ps) + 1
      /\ \A i \in 1..Len(ps) : qs[i] = ps[i]
      /\ qs[Len(ps) + 1] = p
  BY <1>3, AppendProperties DEF IsAppended
<1>5. qs \in [1..Len(qs) -> S] /\ DOMAIN qs = 1..Len(qs)
  BY <1>4, LenProperties
<1>6. \A i \in 1..(Len(ps) + 1) : i \in 1..Len(ps) \/ i = Len(ps) + 1
  BY <1>2
<1>7. qs = [i \in 1..(Len(ps) + 1) |-> qs[i]] /\ \A i \in 1..(Len(ps) + 1) : IsPin(qs[i], k)
  BY <1>2, <1>4, <1>5, <1>6
<1>8. ArePins(qs, k)
  BY <1>2, <1>4, <1>5, <1>7, PinsAre
<1> QED BY <1>2, <1>4, <1>5, <1>8

IsReplaced(qs, ps, i, p) == qs = [ps EXCEPT ![i] = p]
LEMMA PinReplaced ==
  ASSUME NEW k, NEW ps, ArePins(ps, k), NEW i \in DOMAIN ps, NEW p, IsPin(p, k), NEW qs, IsReplaced(qs, ps, i, p)
  PROVE  /\ ArePins(qs, k) /\ Len(qs) = Len(ps) /\ DOMAIN qs = DOMAIN ps
         /\ \A j \in DOMAIN ps : qs[j] = IF j = i THEN p ELSE ps[j]
<1>1. Len(ps) \in Nat /\ DOMAIN ps = 1..Len(ps) /\ \A j \in DOMAIN ps : IsPin(ps[j], k)
  BY PinsSequence
<1>2. DOMAIN qs = DOMAIN ps /\ \A j \in DOMAIN ps : qs[j] = IF j = i THEN p ELSE ps[j]
  BY DEF IsReplaced
<1>3. qs = [j \in 1..Len(ps) |-> qs[j]]
  BY <1>1 DEF IsReplaced
<1>4. ArePins(qs, k)
  BY <1>1, <1>2, <1>3, PinsAre
<1>5. Len(qs) \in Nat /\ DOMAIN qs = 1..Len(qs)
  BY <1>4, PinsSequence
<1>6. Len(qs) = Len(ps)
  BY <1>1, <1>2, <1>5
<1> QED BY <1>2, <1>4, <1>6

(* Re-matching all pins.                                                     *)
LEMMA SyncedIs ==
  ASSUME ArePins(pins, kind), file.lines \in Seq(Texts), NEW synced, synced = Synced
  PROVE  /\ ArePins(synced, kind) /\ DOMAIN synced = DOMAIN pins /\ Len(synced) = Len(pins)
         /\ \A i \in DOMAIN pins : IsPin(synced[i], kind) /\ Reread(file.lines, pins[i], synced[i])
<1>1. Len(pins) \in Nat /\ DOMAIN pins = 1..Len(pins) /\ \A i \in DOMAIN pins : IsPin(pins[i], kind)
  BY PinsSequence
<1>2. DOMAIN synced = DOMAIN pins /\ \A i \in DOMAIN pins : synced[i] = Resync(pins[i])
  BY DEF Synced
<1>3. ASSUME NEW i \in DOMAIN pins PROVE IsPin(synced[i], kind) /\ Reread(file.lines, pins[i], synced[i])
  <2>1. IsPin(pins[i], kind)
    BY <1>1
  <2> QED BY <1>2, <2>1, ResyncIs
<1>4. synced = [i \in 1..Len(pins) |-> synced[i]]
  BY <1>1 DEF Synced
<1>5. ArePins(synced, kind)
  BY <1>1, <1>2, <1>3, <1>4, PinsAre
<1>6. Len(synced) \in Nat /\ DOMAIN synced = 1..Len(synced)
  BY <1>5, PinsSequence
<1>7. Len(synced) = Len(pins)
  BY <1>1, <1>2, <1>6
<1> QED BY <1>2, <1>3, <1>5, <1>7

(* A new pin's fields.                                                       *)
LEMMA AnchorIs ==
  ASSUME NEW lines \in Seq(Texts), NEW lo \in Int, NEW hi \in Int, NEW anchor, anchor = AnchorOf(lines, lo, hi)
  PROVE  /\ anchor = {} \/ anchor = {The(anchor)}
         /\ \A a \in anchor : /\ a.tailOff \in Int
                              /\ hi <= Len(lines) => a.head = lines[lo] /\ a.tail = lines[hi]
<1>1. Len(lines) \in Nat
  BY LenProperties
<1>2. PICK last : last = Least(hi, Len(lines))
  OBVIOUS
<1>3. last \in Int /\ (hi <= Len(lines) => last = hi)
  BY <1>1, <1>2 DEF Least
<1>4. anchor = (IF last < lo THEN {} ELSE {[head |-> lines[lo], tail |-> lines[last], tailOff |-> hi - last]})
  BY <1>2 DEF AnchorOf
<1>5. CASE last < lo
  BY <1>4, <1>5
<1>6. CASE ~(last < lo)
  <2>1. PICK a : a = [head |-> lines[lo], tail |-> lines[last], tailOff |-> hi - last]
    OBVIOUS
  <2>2. anchor = {a}
    BY <1>4, <1>6, <2>1
  <2>3. a.head = lines[lo] /\ a.tail = lines[last] /\ a.tailOff \in Int
    BY <1>3, <2>1
  <2>4. The(anchor) = a
    BY <2>2 DEF The
  <2> QED BY <1>3, <2>2, <2>3, <2>4
<1> QED BY <1>5, <1>6

LEMMA NewPinIs ==
  ASSUME kind \in Kinds, NEW r, IsAdd(r, kind), NEW p, p = NewPin(r)
  PROVE  /\ IsPin(p, kind) /\ p.live /\ p.open /\ p.place = r.place /\ p.verdict = r.verdict
         /\ p.suggest = r.suggest /\ (\A b \in p.build : b = BuildOf(r))
         /\ p.place.sort = "lines" => p.anchor = AnchorOf(r.lines, r.place.lo, r.place.hi)
<1>1. PICK anchor : anchor = IF r.place.sort = "lines" THEN AnchorOf(r.lines, r.place.lo, r.place.hi) ELSE {}
  OBVIOUS
<1>2. PICK build : build = IF Paged THEN {BuildOf(r)} ELSE {}
  OBVIOUS
<1>3. p = [live |-> TRUE, open |-> TRUE, place |-> r.place, verdict |-> r.verdict, question |-> r.question,
           suggest |-> r.suggest, rev |-> 0, stale |-> FALSE, anchor |-> anchor, syncedAt |-> r.mtime, build |-> build]
  BY <1>1, <1>2 DEF NewPin
<1>4. IsPinRecord(p) /\ p.live /\ p.open /\ p.live \in BOOLEAN /\ p.open \in BOOLEAN /\ p.stale \in BOOLEAN
      /\ p.place = r.place /\ p.verdict = r.verdict /\ p.question = r.question /\ p.suggest = r.suggest
      /\ p.anchor = anchor /\ p.build = build
  BY <1>3 DEF IsPinRecord, PinFields
<1>5. (anchor = {} \/ anchor = {The(anchor)}) /\ \A a \in anchor : a.tailOff \in Int
  <2>1. CASE r.place.sort = "lines"
    <3>1. r.lines \in Seq(Texts) /\ r.place.lo \in Int /\ r.place.hi \in Int
      BY <2>1 DEF IsAdd, IsPlace, IsLines, IsElement, IsRegion
    <3> QED BY <1>1, <2>1, <3>1, AnchorIs
  <2>2. CASE r.place.sort /= "lines"
    BY <1>1, <2>2
  <2> QED BY <2>1, <2>2
<1>6. IsPlace(r.place, kind) /\ r.question \in BOOLEAN
  BY DEF IsAdd
<1>7. IsPin(p, kind)
  BY <1>4, <1>5, <1>6 DEF IsPin
<1> QED BY <1>1, <1>2, <1>4, <1>7

-----------------------------------------------------------------------------
(* An edit's writing.                                                        *)

LEMMA OnlyOne == ASSUME NEW x PROVE The({x}) = x
BY DEF The

(* The range an edit leaves a pin with.                                      *)
LEMMA SpanOfPlace ==
  ASSUME NEW place, NEW k, IsPlace(place, k)
  PROVE  IF place.sort = "lines" THEN /\ SpanOf(place) = {<<place.lo, place.hi>>}
                                      /\ IsLines(place) /\ place.lo \in Int /\ place.hi \in Int
         ELSE SpanOf(place) = {}
BY DEF SpanOf, IsPlace, IsLines, IsElement, IsRegion

LEMMA NewLinesAre ==
  ASSUME NEW p, NEW k, IsPin(p, k), NEW e, IsChange(e, k), p.place.sort = "lines"
  PROVE  NewLines(p, e) = <<NewLines(p, e)[1], NewLines(p, e)[2]>> /\ NewLines(p, e)[1] \in Int /\ NewLines(p, e)[2] \in Int
<1>1. p.place.lo \in Int /\ p.place.hi \in Int /\ e.lo \subseteq Int /\ e.hi \subseteq Int
  BY SpanOfPlace DEF IsPin, IsChange
<1>2. e.lo /= {} => The(e.lo) \in e.lo
  BY DEF The
<1>3. e.hi /= {} => The(e.hi) \in e.hi
  BY DEF The
<1>4. PICK lo : lo = IF e.lo /= {} THEN The(e.lo) ELSE p.place.lo
  OBVIOUS
<1>5. PICK hi : hi = IF e.hi /= {} THEN The(e.hi) ELSE p.place.hi
  OBVIOUS
<1>6. lo \in Int /\ hi \in Int
  BY <1>1, <1>2, <1>3, <1>4, <1>5
<1>7. NewLines(p, e) = <<lo, hi>>
  BY <1>4, <1>5 DEF NewLines
<1> QED BY <1>6, <1>7

IsRangeSet(p, q, lo, hi) == q = [p EXCEPT !.place.lo = lo, !.place.hi = hi]
KeepsAll(p, q) == IsPinRecord(q) /\ \A f \in PinFields \ {"place"} : q[f] = p[f]
LEMMA RangeSet ==
  ASSUME NEW p, IsPinRecord(p), IsLines(p.place), NEW lo, NEW hi, NEW q, IsRangeSet(p, q, lo, hi)
  PROVE  KeepsAll(p, q) /\ q.place = [sort |-> "lines", lo |-> lo, hi |-> hi]
<1>1. KeepsAll(p, q)
  BY DEF IsPinRecord, PinFields, KeepsAll, IsRangeSet
<1>2. PICK half : half = [p.place EXCEPT !.lo = lo]
  OBVIOUS
<1>3. PICK moved : moved = [half EXCEPT !.hi = hi]
  OBVIOUS
<1>4. q.place = moved
  BY <1>2, <1>3 DEF IsPinRecord, PinFields, IsRangeSet
<1>5. half = [sort |-> "lines", lo |-> lo, hi |-> p.place.hi]
  <2>1. PICK place : place = p.place
    OBVIOUS
  <2>2. place = [sort |-> "lines", lo |-> place.lo, hi |-> place.hi]
    BY <2>1 DEF IsLines
  <2> QED BY <1>2, <2>1, <2>2, FirstMoved
<1>6. moved = [sort |-> "lines", lo |-> lo, hi |-> hi]
  BY <1>3, <1>5, LastMoved
<1> QED BY <1>1, <1>4, <1>6

(* evolve_edit, first the anchor ...                                         *)
KeepsPlace(p, q) ==
    /\ IsPinRecord(q) /\ q.stale \in BOOLEAN
    /\ \A f \in PinFields \ {"anchor", "syncedAt", "stale"} : q[f] = p[f]
    /\ (q.anchor = {} \/ q.anchor = {The(q.anchor)}) /\ \A a \in q.anchor : a.tailOff \in Int
LEMMA ReanchoredIs ==
  ASSUME NEW p, IsPin(p, kind), NEW e, IsChange(e, kind), e.loc /= {Unread}, SetsLines(e) => p.place.sort = "lines",
         file.lines \in Seq(Texts), NEW q, q = Reanchored(p, e)
  PROVE  KeepsPlace(p, q) /\ (~RangeChanged(p, e) => q = p)
<1>1. CASE ~RangeChanged(p, e)
  <2>1. q = p
    BY <1>1 DEF Reanchored
  <2> QED BY <1>1, <2>1 DEF KeepsPlace, IsPin
<1>2. CASE RangeChanged(p, e)
  <2>1. PICK lo \in Int, hi \in Int : SpanAfter(p, e) = {<<lo, hi>>}
    <3>1. CASE e.loc /= {}
      <4>1. PICK loc : loc = The(e.loc)
        OBVIOUS
      <4>2. loc \in e.loc
        BY <3>1, <4>1 DEF The
      <4>3. IsPlace(loc, kind)
        BY <4>2 DEF IsChange
      <4>4. loc.sort = "lines"
        BY <1>2, <3>1, <4>1 DEF RangeChanged, SetsLines
      <4>5. SpanAfter(p, e) = SpanOf(loc)
        BY <3>1, <4>1 DEF SpanAfter
      <4>6. SpanOf(loc) = {<<loc.lo, loc.hi>>} /\ loc.lo \in Int /\ loc.hi \in Int
        BY <4>3, <4>4, SpanOfPlace
      <4> QED BY <4>5, <4>6
    <3>2. CASE e.loc = {}
      <4>1. SetsLines(e) /\ p.place.sort = "lines"
        BY <1>2, <3>2 DEF RangeChanged
      <4>2. SpanAfter(p, e) = {NewLines(p, e)}
        BY <3>2, <4>1 DEF SpanAfter
      <4> QED BY <4>1, <4>2, NewLinesAre
    <3> QED BY <3>1, <3>2
  <2>2. PICK span : span = The(SpanAfter(p, e))
    OBVIOUS
  <2>3. span = <<lo, hi>>
    BY <2>1, <2>2, OnlyOne
  <2>4. span[1] = lo /\ span[2] = hi
    BY <2>3
  <2>5. PICK anchor : anchor = AnchorOf(file.lines, span[1], span[2])
    OBVIOUS
  <2>6. q = [p EXCEPT !.anchor = anchor, !.syncedAt = file.mtime, !.stale = FALSE]
    BY <1>2, <2>2, <2>5 DEF Reanchored
  <2>7. (anchor = {} \/ anchor = {The(anchor)}) /\ \A a \in anchor : a.tailOff \in Int
    BY <2>4, <2>5, AnchorIs
  <2>8. IsPinRecord(p)
    BY DEF IsPin
  <2>9. IsPinRecord(q) /\ q.stale \in BOOLEAN /\ q.anchor = anchor
        /\ \A f \in PinFields \ {"anchor", "syncedAt", "stale"} : q[f] = p[f]
    BY <2>6, <2>8 DEF IsPinRecord, PinFields
  <2> QED BY <1>2, <2>7, <2>9 DEF KeepsPlace
<1> QED BY <1>1, <1>2

(* ... then the place ...                                                    *)
LEMMA ReplacedIs ==
  ASSUME NEW p, IsPinRecord(p), IsPlace(p.place, kind), NEW e, IsChange(e, kind), e.loc /= {Unread},
         SetsLines(e) => p.place.sort = "lines", NEW q, q = Replaced(p, e)
  PROVE  /\ KeepsAll(p, q) /\ IsPlace(q.place, kind)
         /\ SpanAfter(p, e) /= {} => q.place.sort = "lines" /\ SpanAfter(p, e) = {<<q.place.lo, q.place.hi>>}
         /\ ~Reshapes(e) => q = p
<1>1. CASE e.loc /= {}
  <2>1. PICK loc : loc = The(e.loc)
    OBVIOUS
  <2>2. loc \in e.loc
    BY <1>1, <2>1 DEF The
  <2>3. IsPlace(loc, kind)
    BY <2>2 DEF IsChange
  <2>4. q = [p EXCEPT !.place = loc]
    BY <1>1, <2>1 DEF Replaced
  <2>5. KeepsAll(p, q) /\ q.place = loc
    BY <2>4 DEF KeepsAll, IsPinRecord, PinFields
  <2>6. SpanAfter(p, e) = SpanOf(loc)
    BY <1>1, <2>1 DEF SpanAfter
  <2>7. SpanAfter(p, e) /= {} => loc.sort = "lines" /\ SpanAfter(p, e) = {<<loc.lo, loc.hi>>}
    BY <2>3, <2>6, SpanOfPlace
  <2>8. Reshapes(e)
    BY <1>1 DEF Reshapes
  <2> QED BY <2>3, <2>5, <2>7, <2>8
<1>2. CASE e.loc = {} /\ SetsLines(e)
  <2>1. PICK lo, hi : lo = NewLines(p, e)[1] /\ hi = NewLines(p, e)[2]
    OBVIOUS
  <2>2. IsLines(p.place) /\ p.place.lo \in Int /\ p.place.hi \in Int
    BY <1>2, SpanOfPlace
  <2>3. NewLines(p, e) = <<lo, hi>> /\ lo \in Int /\ hi \in Int
    <3>1. e.lo \subseteq Int /\ e.hi \subseteq Int
      BY DEF IsChange
    <3>2. e.lo /= {} => The(e.lo) \in e.lo
      BY DEF The
    <3>3. e.hi /= {} => The(e.hi) \in e.hi
      BY DEF The
    <3>4. PICK x : x = IF e.lo /= {} THEN The(e.lo) ELSE p.place.lo
      OBVIOUS
    <3>5. PICK y : y = IF e.hi /= {} THEN The(e.hi) ELSE p.place.hi
      OBVIOUS
    <3>6. x \in Int /\ y \in Int
      BY <2>2, <3>1, <3>2, <3>3, <3>4, <3>5
    <3>7. NewLines(p, e) = <<x, y>>
      BY <3>4, <3>5 DEF NewLines
    <3> QED BY <2>1, <3>6, <3>7
  <2>4. IsRangeSet(p, q, lo, hi)
    BY <1>2, <2>1 DEF Replaced, IsRangeSet
  <2>5. KeepsAll(p, q) /\ q.place = [sort |-> "lines", lo |-> lo, hi |-> hi]
    BY <2>2, <2>4, RangeSet
  <2>6. q.place.sort = "lines" /\ q.place.lo = lo /\ q.place.hi = hi /\ IsPlace(q.place, kind)
    BY <2>3, <2>5 DEF IsPlace, IsLines
  <2>7. SpanAfter(p, e) = {<<lo, hi>>}
    BY <1>2, <2>3 DEF SpanAfter
  <2>8. Reshapes(e)
    BY <1>2 DEF Reshapes, SetsLines
  <2> QED BY <2>5, <2>6, <2>7, <2>8
<1>3. CASE e.loc = {} /\ ~SetsLines(e)
  <2>1. q = p
    BY <1>3 DEF Replaced
  <2>2. SpanAfter(p, e) = SpanOf(p.place)
    BY <1>3 DEF SpanAfter
  <2>3. SpanOf(p.place) /= {} => p.place.sort = "lines" /\ SpanOf(p.place) = {<<p.place.lo, p.place.hi>>}
    BY SpanOfPlace
  <2>4. KeepsAll(p, p)
    BY DEF KeepsAll
  <2> QED BY <2>1, <2>2, <2>3, <2>4
<1> QED BY <1>1, <1>2, <1>3

(* ... then the rest.                                                        *)
LEMMA EvolvedIs ==
  ASSUME NEW p, IsPin(p, kind), NEW e, IsChange(e, kind), e.loc /= {Unread}, SetsLines(e) => p.place.sort = "lines",
         file.lines \in Seq(Texts), NEW build, NEW q, q = EvolveEdit(p, e, build)
  PROVE  /\ IsPin(q, kind) /\ q.live = p.live /\ q.open = p.open /\ q.verdict = p.verdict
         /\ q.suggest = IF Suggests(e) THEN e.suggest ELSE p.suggest
         /\ SpanAfter(p, e) /= {} => q.place.sort = "lines" /\ SpanAfter(p, e) = {<<q.place.lo, q.place.hi>>}
         /\ (~MovesVerdict(e) /\ build = {}) => /\ q.place = p.place /\ q.anchor = p.anchor /\ q.build = p.build
                                                /\ q.question = p.question /\ q.suggest = p.suggest
<1>1. PICK anchored : anchored = Reanchored(p, e)
  OBVIOUS
<1>2. KeepsPlace(p, anchored) /\ (~RangeChanged(p, e) => anchored = p)
  BY <1>1, ReanchoredIs
<1>3. IsPinRecord(anchored) /\ anchored.place = p.place
  BY <1>2 DEF KeepsPlace, PinFields
<1>4. PICK placed : placed = Replaced(anchored, e)
  OBVIOUS
<1>5. IsPlace(p.place, kind)
  BY DEF IsPin
<1>6. /\ KeepsAll(anchored, placed) /\ IsPlace(placed.place, kind)
      /\ SpanAfter(anchored, e) /= {} => placed.place.sort = "lines" /\ SpanAfter(anchored, e) = {<<placed.place.lo, placed.place.hi>>}
      /\ ~Reshapes(e) => placed = anchored
  BY <1>3, <1>4, <1>5, ReplacedIs
<1>7. SpanAfter(anchored, e) = SpanAfter(p, e)
  BY <1>3 DEF SpanAfter, NewLines
<1>14. PICK suggest, now, rev : /\ suggest = (IF Suggests(e) THEN e.suggest ELSE p.suggest)
                                /\ now = (IF build = {} THEN p.build ELSE build)
                                /\ rev = p.rev + 1
  OBVIOUS
<1>8. PICK question \in BOOLEAN : question = (IF e.kindReq = {} THEN p.question ELSE "question" \in e.kindReq)
  <2>1. p.question \in BOOLEAN
    BY DEF IsPin
  <2>2. CASE e.kindReq = {}
    BY <2>1, <2>2
  <2>3. CASE e.kindReq /= {}
    <3>1. ("question" \in e.kindReq) \in BOOLEAN
      OBVIOUS
    <3> QED BY <2>3, <3>1
  <2> QED BY <2>2, <2>3
<1>9. placed.question = p.question /\ placed.suggest = p.suggest /\ placed.build = p.build /\ placed.rev = p.rev
      /\ placed.live = p.live /\ placed.open = p.open /\ placed.verdict = p.verdict /\ placed.anchor = anchored.anchor
      /\ placed.stale = anchored.stale /\ IsPinRecord(placed)
  BY <1>2, <1>6 DEF KeepsAll, KeepsPlace, PinFields
<1>10. q = [placed EXCEPT !.question = question, !.suggest = suggest, !.build = now, !.rev = rev]
  BY <1>1, <1>4, <1>8, <1>14, <1>9 DEF EvolveEdit
<1>11. /\ IsPinRecord(q) /\ q.question = question /\ q.suggest = suggest /\ q.build = now
       /\ q.live = p.live /\ q.open = p.open /\ q.verdict = p.verdict /\ q.anchor = anchored.anchor
       /\ q.stale = anchored.stale /\ q.place = placed.place
  <2>1. IsPinRecord(placed)
    BY <1>9
  <2>2. /\ IsPinRecord(q) /\ q.question = question /\ q.suggest = suggest /\ q.build = now
        /\ \A f \in PinFields \ {"question", "suggest", "build", "rev"} : q[f] = placed[f]
    BY <1>10, <2>1 DEF IsPinRecord, PinFields
  <2>3. /\ q.live = placed.live /\ q.open = placed.open /\ q.verdict = placed.verdict /\ q.anchor = placed.anchor
        /\ q.stale = placed.stale /\ q.place = placed.place
    BY <2>2 DEF PinFields
  <2> QED BY <1>9, <2>2, <2>3
<1>12. IsPin(q, kind)
  BY <1>2, <1>6, <1>11 DEF IsPin, KeepsPlace
<1>13. ASSUME ~MovesVerdict(e), build = {}
       PROVE  /\ q.place = p.place /\ q.anchor = p.anchor /\ q.build = p.build
              /\ q.question = p.question /\ q.suggest = p.suggest
  <2>1. ~Reshapes(e) /\ e.kindReq = {} /\ ~Suggests(e)
    BY <1>13 DEF MovesVerdict
  <2>2. ~RangeChanged(p, e)
    BY <2>1 DEF RangeChanged, Reshapes, SetsLines
  <2> QED BY <1>2, <1>3, <1>6, <1>8, <1>14, <1>11, <1>13, <2>1, <2>2
<1> QED BY <1>6, <1>7, <1>8, <1>14, <1>11, <1>12, <1>13

-----------------------------------------------------------------------------
(* A client's request on its way to its transaction.                         *)

(* What a step owes to what was accepted.                                    *)
Ends(c) == req[c] /= Idle /\ req'[c] = Idle
StandStep == \A i \in DOMAIN pins : Stands(pins[i], pins'[i])
TimeStep ==
    \A c \in Clients : (Ends(c) /\ req[c].do = "add") =>
        (req[c].verdict /= {} => InTime(c, req[c], Len(pins') > Len(pins)))
FitStep ==
    \A c \in Clients : Ends(c) =>
        \A i \in DOMAIN pins' : \A s \in pins'[i].suggest \ Earlier(i) : Fits(req[c], pins'[i], s)
Good == StandStep /\ TimeStep /\ FitStep

(* A step that writes no pin and ends no request about a verdict owes nothing. *)
Quiet == pins' = pins /\ \A c \in Clients : (Ends(c) /\ req[c].do = "add") => req[c].verdict = {}
LEMMA QuietIsGood == ASSUME Quiet PROVE Good
<1>1. StandStep
  BY DEF Quiet, StandStep, Stands, OnlyFollows
<1>2. TimeStep
  BY DEF Quiet, TimeStep
<1>3. FitStep
  BY DEF Quiet, FitStep, Earlier
<1> QED BY <1>1, <1>2, <1>3 DEF Good

LEMMA RequestStays ==
  ASSUME NEW r, RequestInv(r), kind' = kind, file' = file, contents' = contents, version' = version,
         DOMAIN pins \subseteq DOMAIN pins'
  PROVE  RequestInv(r)'
<1>1. CASE r = Idle
  BY <1>1 DEF RequestInv
<1>2. CASE IsAdd(r, kind) /\ AddInv(r)
  <2>1. AnswerOf(version)' = AnswerOf(version)
    BY DEF AnswerOf
  <2>2. r.verdict /= {} => WordsTold(r)'
    <3> SUFFICES ASSUME r.verdict /= {} PROVE WordsTold(r)'
      OBVIOUS
    <3>1. WordsTold(r)
      BY <1>2 DEF AddInv
    <3>2. \A v : AnswerOf(v)' = AnswerOf(v) /\ (IsVersion(v) => IsVersion(v)')
      BY DEF AnswerOf, IsVersion
    <3> QED BY <2>1, <3>1, <3>2 DEF WordsTold
  <2>3. RootRead(r)'
    <3>1. RootRead(r)
      BY <1>2 DEF AddInv
    <3> QED BY <3>1 DEF RootRead, BuildOf
  <2>4. Decided(r)'
    <3>1. Decided(r)
      BY <1>2 DEF AddInv
    <3>2. \A s : DecideNewSuggestion(s, r.place, r.lines)' <=> DecideNewSuggestion(s, r.place, r.lines)
      BY DEF DecideNewSuggestion, CheckSuggestion, TakesSuggestions
    <3> QED BY <3>1, <3>2 DEF Decided
  <2> QED BY <1>2, <2>2, <2>3, <2>4 DEF RequestInv, AddInv
<1>3. CASE IsEdit(r, kind) /\ EditInv(r)
  BY <1>3 DEF RequestInv, EditInv
<1> QED BY <1>1, <1>2, <1>3 DEF RequestInv

LEMMA DataStays ==
  ASSUME DataInv, UNCHANGED <<kind, file, contents, version, pins>>
  PROVE  DataInv'
BY DEF DataInv, IsVersion, PageTargetsAreTrue

LEMMA AcceptedStays ==
  ASSUME NEW l, NEW r, Accepted(l, r), kind' = kind
  PROVE  Accepted(l, r)'
<1>1. Refused(l.pins[r.pid], r.change, r.base, l.lines)' <=> Refused(l.pins[r.pid], r.change, r.base, l.lines)
  BY DEF Refused, CheckSuggestion, TakesSuggestions
<1> QED BY <1>1 DEF Accepted

(* A step of one request outside its transaction.  An add about a verdict is *)
(* not ended by it.                                                          *)
EndsPlainly(r, x) == (x = Idle /\ r /= Idle /\ r.do = "add") => r.verdict = {}
LEMMA RequestStep ==
  ASSUME Inv, NEW c \in Clients, NEW r, req' = [req EXCEPT ![c] = r], RequestInv(r),
         req[c].at /= "anchor", r.at /= "anchor", EndsPlainly(req[c], r),
         UNCHANGED <<kind, file, contents, version, pins, lock>>, EntryInv'
  PROVE  Inv' /\ Quiet
<1>1. DataInv'
  BY DataStays DEF Inv
<1>2. req' = [d \in Clients |-> req'[d]] /\ req'[c] = r /\ \A d \in Clients \ {c} : req'[d] = req[d]
  BY DEF Inv, RequestsInv
<1>3. ASSUME NEW d \in Clients PROVE RequestInv(req[d])'
  <2>1. PICK x : x = req'[d]
    OBVIOUS
  <2>2. RequestInv(x)
    BY <1>2, <2>1 DEF Inv, RequestsInv
  <2>3. RequestInv(x)'
    BY <2>2, RequestStays
  <2> QED BY <2>1, <2>3
<1>4. RequestsInv'
  BY <1>2, <1>3 DEF RequestsInv
<1>5. LockInv'
  <2>1. ASSUME NEW d \in Clients, req'[d].at = "anchor" PROVE \E l \in lock : l.by = d
    BY <1>2, <2>1 DEF Inv, LockInv
  <2>2. ASSUME NEW l \in lock PROVE InsideInv(l)'
    <3>1. InsideInv(l)
      BY <2>2 DEF Inv, LockInv
    <3>2. l.by \in Clients \ {c} /\ req'[l.by] = req[l.by]
      BY <1>2, <3>1 DEF InsideInv, Accepted
    <3>3. PICK x : x = req[l.by]
      OBVIOUS
    <3>4. Accepted(l, x)'
      BY <3>1, <3>3, AcceptedStays DEF InsideInv
    <3> QED BY <3>1, <3>2, <3>3, <3>4 DEF InsideInv
  <2> QED BY <2>1, <2>2 DEF Inv, LockInv
<1>6. Quiet
  BY <1>2 DEF Quiet, Ends, EndsPlainly
<1> QED BY <1>1, <1>4, <1>5, <1>6 DEF Inv

LEMMA AtAdd ==
  ASSUME NEW r, RequestInv(r), r.at \in {"snapshot", "version", "lookup", "load", "publish", "root"}
  PROVE  IsAdd(r, kind) /\ AddInv(r)
BY DEF RequestInv, IsEdit, Idle

LEMMA EntryStays == ASSUME EntryInv, UNCHANGED <<entry, contents>> PROVE EntryInv'
BY DEF EntryInv, IsVersion, AnswerOf

LEMMA ArriveAddKeeps ==
  ASSUME Inv, NEW c \in Clients, ArriveAdd(c)
  PROVE  Inv' /\ Quiet
<1>1. PICK a \in NewPins[kind] : \E sent : \E s :
         /\ req' = [req EXCEPT ![c] =
                    [at |-> IF a.place.sort = "lines" \/ s /= {} THEN "snapshot" ELSE AfterPlace(a), do |-> "add",
                     place |-> a.place, verdict |-> a.verdict, question |-> a.question, suggest |-> s, sent |-> sent,
                     lines |-> <<>>, mtime |-> 0, version |-> Absent, seen |-> {}, answer |-> Unusable("absent"),
                     keys |-> {}, holds |-> TRUE, screen |-> {},
                     held |-> IF a.verdict = {} THEN {} ELSE {AnswerOf(version)},
                     texts |-> IF s = {} THEN {} ELSE {file.lines}]]
  BY DEF ArriveAdd
<1>2. PICK sent, s : 
         /\ req' = [req EXCEPT ![c] =
                    [at |-> IF a.place.sort = "lines" \/ s /= {} THEN "snapshot" ELSE AfterPlace(a), do |-> "add",
                     place |-> a.place, verdict |-> a.verdict, question |-> a.question, suggest |-> s, sent |-> sent,
                     lines |-> <<>>, mtime |-> 0, version |-> Absent, seen |-> {}, answer |-> Unusable("absent"),
                     keys |-> {}, holds |-> TRUE, screen |-> {},
                     held |-> IF a.verdict = {} THEN {} ELSE {AnswerOf(version)},
                     texts |-> IF s = {} THEN {} ELSE {file.lines}]]
  BY <1>1
<1>3. PICK at : at = IF a.place.sort = "lines" \/ s /= {} THEN "snapshot" ELSE AfterPlace(a)
  OBVIOUS
<1>4. PICK held : held = IF a.verdict = {} THEN {} ELSE {AnswerOf(version)}
  OBVIOUS
<1>5. PICK texts : texts = IF s = {} THEN {} ELSE {file.lines}
  OBVIOUS
<1>6. PICK answer : answer = Unusable("absent")
  OBVIOUS
<1>7. PICK r : r = [at |-> at, do |-> "add",
                    place |-> a.place, verdict |-> a.verdict, question |-> a.question, suggest |-> s, sent |-> sent,
                    lines |-> <<>>, mtime |-> 0, version |-> Absent, seen |-> {}, answer |-> answer,
                    keys |-> {}, holds |-> TRUE, screen |-> {}, held |-> held, texts |-> texts]
  OBVIOUS
<1>8. req' = [req EXCEPT ![c] = r]
  BY <1>2, <1>3, <1>4, <1>5, <1>6, <1>7
<1>9. at \in {"snapshot", "version", "commit"} /\ (at = "commit" <=> at # "snapshot" /\ a.verdict = {}) /\ (s /= {} => at = "snapshot")
  BY <1>3 DEF AfterPlace
<1>10. /\ IsAddRecord(r) /\ r.do = "add" /\ r.at = at /\ r.place = a.place /\ r.verdict = a.verdict
       /\ r.question = a.question /\ r.lines = <<>> /\ r.holds \in BOOLEAN /\ r.held = held /\ r.texts = texts
       /\ r.suggest = s
  BY <1>7 DEF IsAddRecord, AddFields
<1>11. IsPlace(a.place, kind) /\ a.question \in BOOLEAN
  BY DocumentsAssumption DEF Documents, Inv, DataInv
<1>12. r /= Idle
  BY <1>9, <1>10 DEF Idle
<1>13. <<>> \in Seq(Texts)
  BY EmptySeq
<1>14. IsAdd(r, kind)
  BY <1>9, <1>10, <1>11, <1>12, <1>13 DEF IsAdd
<1>15. AddInv(r)
  <2>1. r.verdict /= {} => WordsTold(r)
    BY <1>4, <1>9, <1>10 DEF WordsTold
  <2>2. RootRead(r)
    BY <1>9, <1>10 DEF RootRead
  <2>3. Decided(r)
    BY <1>5, <1>9, <1>10 DEF Decided
  <2> QED BY <1>9, <1>10, <2>1, <2>2, <2>3 DEF AddInv
<1>16. req[c].at /= "anchor" /\ r.at /= "anchor" /\ EndsPlainly(req[c], r)
  BY <1>9, <1>10 DEF ArriveAdd, Idle, EndsPlainly
<1>17. UNCHANGED <<kind, file, contents, version, pins, lock, entry>>
  BY DEF ArriveAdd, environment
<1>18. EntryInv'
  BY <1>17, EntryStays DEF Inv
<1>19. RequestInv(r)
  BY <1>14, <1>15 DEF RequestInv
<1> QED BY <1>8, <1>16, <1>17, <1>18, <1>19, RequestStep

(* Of an add only what a step writes changes.                                *)
LEMMA SnapshotKeeps ==
  ASSUME Inv, NEW c \in Clients, Snapshot(c)
  PROVE  Inv' /\ Quiet
<1>1. PICK r : r = req[c]
  OBVIOUS
<1>2. r.at = "snapshot" /\ RequestInv(r)
  BY <1>1 DEF Snapshot, Inv, RequestsInv
<1>3. IsAdd(r, kind) /\ AddInv(r)
  BY <1>2, AtAdd
<1>4. UNCHANGED <<kind, file, contents, version, pins, lock, entry>>
  BY DEF Snapshot, environment
<1>5. EntryInv'
  BY <1>4, EntryStays DEF Inv
<1>6. CASE r.verdict = {} /\ \E s \in r.suggest : ~DecideNewSuggestion(s, r.place, file.lines)
  <2>1. RequestInv(Idle) /\ Idle.at /= "anchor" /\ EndsPlainly(req[c], Idle)
    BY <1>1, <1>6 DEF RequestInv, Idle, EndsPlainly
  <2>2. req' = [req EXCEPT ![c] = Idle]
    BY <1>1, <1>6 DEF Snapshot
  <2> QED BY <1>1, <1>2, <1>4, <1>5, <2>1, <2>2, RequestStep
<1>7. CASE ~(r.verdict = {} /\ \E s \in r.suggest : ~DecideNewSuggestion(s, r.place, file.lines))
  <2>1. PICK at : at = AfterPlace(r)
    OBVIOUS
  <2>2. PICK x : x = [r EXCEPT !.at = at, !.lines = file.lines, !.mtime = file.mtime]
    OBVIOUS
  <2>3. req' = [req EXCEPT ![c] = x] /\ (r.verdict = {} => \A s \in r.suggest : DecideNewSuggestion(s, r.place, file.lines))
    BY <1>1, <1>7, <2>1, <2>2 DEF Snapshot
  <2>4. at \in {"commit", "version"} /\ (at = "commit" <=> r.verdict = {})
    BY <2>1 DEF AfterPlace
  <2>5. IsAddRecord(x) /\ x.at = at /\ x.lines = file.lines
        /\ \A f \in AddFields \ {"at", "lines", "mtime"} : x[f] = r[f]
    BY <1>3, <2>2 DEF IsAdd, IsAddRecord, AddFields
  <2>6. /\ x.do = r.do /\ x.place = r.place /\ x.verdict = r.verdict /\ x.question = r.question
        /\ x.suggest = r.suggest /\ x.holds = r.holds /\ x.held = r.held /\ x.texts = r.texts
    BY <2>5 DEF AddFields
  <2>7. IsAdd(x, kind)
    BY <1>3, <2>4, <2>5, <2>6 DEF IsAdd, Idle, Inv, DataInv
  <2>8. AddInv(x)
    <3>1. x.verdict /= {} => WordsTold(x)
      BY <1>3, <2>4, <2>5, <2>6 DEF AddInv, WordsTold
    <3>2. RootRead(x)
      BY <2>4, <2>5, <2>6 DEF RootRead
    <3>3. Decided(x)
      BY <1>3, <2>3, <2>5, <2>6 DEF AddInv, Decided
    <3> QED BY <2>4, <2>5, <2>6, <3>1, <3>2, <3>3 DEF AddInv
  <2>9. RequestInv(x) /\ x.at /= "anchor" /\ EndsPlainly(req[c], x)
    BY <2>4, <2>5, <2>7, <2>8 DEF RequestInv, EndsPlainly, Idle
  <2> QED BY <1>1, <1>2, <1>4, <1>5, <2>3, <2>9, RequestStep
<1> QED BY <1>6, <1>7

LEMMA ReadVersionKeeps ==
  ASSUME Inv, NEW c \in Clients, ReadVersion(c)
  PROVE  Inv' /\ Quiet
<1>1. PICK r : r = req[c]
  OBVIOUS
<1>2. r.at = "version" /\ RequestInv(r)
  BY <1>1 DEF ReadVersion, Inv, RequestsInv
<1>3. IsAdd(r, kind) /\ AddInv(r)
  BY <1>2, AtAdd
<1>4. UNCHANGED <<kind, file, contents, version, pins, lock, entry>>
  BY DEF ReadVersion, environment
<1>5. EntryInv'
  BY <1>4, EntryStays DEF Inv
<1>6. PICK x : x = [r EXCEPT !.at = "lookup", !.version = version]
  OBVIOUS
<1>7. req' = [req EXCEPT ![c] = x]
  BY <1>1, <1>6 DEF ReadVersion
<1>8. IsAddRecord(x) /\ x.at = "lookup" /\ x.version = version
      /\ \A f \in AddFields \ {"at", "version"} : x[f] = r[f]
  BY <1>3, <1>6 DEF IsAdd, IsAddRecord, AddFields
<1>9. /\ x.do = r.do /\ x.place = r.place /\ x.verdict = r.verdict /\ x.question = r.question /\ x.lines = r.lines
      /\ x.suggest = r.suggest /\ x.holds = r.holds /\ x.held = r.held /\ x.texts = r.texts
  BY <1>8 DEF AddFields
<1>10. IsAdd(x, kind)
  BY <1>3, <1>8, <1>9 DEF IsAdd, Idle
<1>11. AddInv(x)
  <2>1. x.verdict /= {} => WordsTold(x)
    BY <1>3, <1>8, <1>9 DEF AddInv, WordsTold, Inv, DataInv
  <2>2. RootRead(x)
    BY <1>8 DEF RootRead
  <2>3. Decided(x)
    BY <1>2, <1>3, <1>8, <1>9 DEF AddInv, Decided
  <2> QED BY <1>2, <1>3, <1>8, <1>9, <2>1, <2>2, <2>3 DEF AddInv
<1>12. RequestInv(x) /\ x.at /= "anchor" /\ EndsPlainly(req[c], x)
  BY <1>8, <1>10, <1>11 DEF RequestInv, EndsPlainly, Idle
<1> QED BY <1>1, <1>2, <1>4, <1>5, <1>7, <1>12, RequestStep

(* The keys a request decides on are those of an answer the word file had.   *)
LEMMA WordsRead ==
  ASSUME Inv, NEW r, IsAdd(r, kind), AddInv(r), r.at \in {"lookup", "publish"},
         NEW answer, r.verdict /= {} => answer \in r.held,
         NEW x, IsAddRecord(x), x.at = AfterWords(r), x.keys = answer.keys,
         \A f \in AddFields \ {"at", "keys", "version", "seen", "answer"} : x[f] = r[f]
  PROVE  RequestInv(x) /\ x.at \in {"root", "commit"}
<1>1. /\ x.do = r.do /\ x.place = r.place /\ x.verdict = r.verdict /\ x.question = r.question /\ x.lines = r.lines
      /\ x.suggest = r.suggest /\ x.holds = r.holds /\ x.held = r.held /\ x.texts = r.texts
  BY DEF AddFields
<1>2. x.at \in {"root", "commit"} /\ (x.at = "commit" => ~WholeFigure(x.place))
  <2>1. WholeFigure(r.place) => SurfaceOf[kind] = "element"
    BY DEF WholeFigure, IsAdd, IsPlace, IsLines, IsElement, IsRegion
  <2> QED BY <1>1, <2>1 DEF AfterWords
<1>3. IsAdd(x, kind)
  BY <1>1, <1>2 DEF IsAdd, Idle
<1>4. x.verdict /= {} => WordsTold(x)
  BY <1>1, <1>2 DEF AddInv, WordsTold
<1>5. RootRead(x)
  BY <1>2 DEF RootRead
<1>6. Decided(x)
  BY <1>1, <1>2 DEF AddInv, Decided
<1> QED BY <1>1, <1>2, <1>3, <1>4, <1>5, <1>6 DEF RequestInv, AddInv

LEMMA LookUpKeeps ==
  ASSUME Inv, NEW c \in Clients, LookUp(c)
  PROVE  Inv' /\ Quiet
<1>1. PICK r : r = req[c]
  OBVIOUS
<1>2. r.at = "lookup" /\ RequestInv(r)
  BY <1>1 DEF LookUp, Inv, RequestsInv
<1>3. IsAdd(r, kind) /\ AddInv(r)
  BY <1>2, AtAdd
<1>4. UNCHANGED <<kind, file, contents, version, pins, lock, entry>>
  BY DEF LookUp, environment
<1>5. EntryInv'
  BY <1>4, EntryStays DEF Inv
<1>6. PICK hits : hits = Fresh(entry, r.version)
  OBVIOUS
<1>7. CASE hits /= {}
  <2>1. PICK e : e = The(hits)
    OBVIOUS
  <2>2. e \in entry /\ e.version = r.version
    BY <1>6, <1>7, <2>1 DEF The, Fresh
  <2>3. e.answer = AnswerOf(r.version)
    BY <2>2 DEF Inv, EntryInv
  <2>4. r.verdict /= {} => e.answer \in r.held
    BY <1>2, <1>3, <2>3 DEF AddInv, WordsTold
  <2>5. PICK at : at = AfterWords(r)
    OBVIOUS
  <2>6. PICK x : x = [r EXCEPT !.at = at, !.keys = e.answer.keys, !.version = Absent]
    OBVIOUS
  <2>7. req' = [req EXCEPT ![c] = x]
    BY <1>1, <1>6, <1>7, <2>1, <2>5, <2>6 DEF LookUp
  <2>8. IsAddRecord(x) /\ x.at = at /\ x.keys = e.answer.keys
        /\ \A f \in AddFields \ {"at", "keys", "version", "seen", "answer"} : x[f] = r[f]
    BY <1>3, <2>6 DEF IsAdd, IsAddRecord, AddFields
  <2>9. RequestInv(x) /\ x.at \in {"root", "commit"}
    BY <1>2, <1>3, <2>4, <2>5, <2>8, WordsRead
  <2>10. EndsPlainly(req[c], x)
    BY <2>9 DEF EndsPlainly, Idle
  <2> QED BY <1>1, <1>2, <1>4, <1>5, <2>7, <2>9, <2>10, RequestStep
<1>8. CASE hits = {}
  <2>1. PICK x : x = [r EXCEPT !.at = "load", !.seen = entry]
    OBVIOUS
  <2>2. req' = [req EXCEPT ![c] = x]
    BY <1>1, <1>6, <1>8, <2>1 DEF LookUp
  <2>3. IsAddRecord(x) /\ x.at = "load" /\ \A f \in AddFields \ {"at", "seen"} : x[f] = r[f]
    BY <1>3, <2>1 DEF IsAdd, IsAddRecord, AddFields
  <2>4. /\ x.do = r.do /\ x.place = r.place /\ x.verdict = r.verdict /\ x.question = r.question /\ x.lines = r.lines
        /\ x.suggest = r.suggest /\ x.holds = r.holds /\ x.held = r.held /\ x.texts = r.texts
        /\ x.version = r.version
    BY <2>3 DEF AddFields
  <2>5. IsAdd(x, kind)
    BY <1>3, <2>3, <2>4 DEF IsAdd, Idle
  <2>6. x.verdict /= {} => WordsTold(x)
    BY <1>2, <1>3, <2>3, <2>4 DEF AddInv, WordsTold
  <2>7. RootRead(x) /\ Decided(x)
    BY <1>2, <1>3, <2>3, <2>4 DEF AddInv, Decided, RootRead
  <2>8. RequestInv(x) /\ x.at /= "anchor" /\ EndsPlainly(req[c], x)
    BY <1>2, <1>3, <2>3, <2>4, <2>5, <2>6, <2>7 DEF RequestInv, AddInv, EndsPlainly, Idle
  <2> QED BY <1>1, <1>2, <1>4, <1>5, <2>2, <2>8, RequestStep
<1> QED BY <1>7, <1>8

LEMMA LoadKeeps ==
  ASSUME Inv, NEW c \in Clients, Load(c)
  PROVE  Inv' /\ Quiet
<1>1. PICK r : r = req[c]
  OBVIOUS
<1>2. r.at = "load" /\ RequestInv(r)
  BY <1>1 DEF Load, Inv, RequestsInv
<1>3. IsAdd(r, kind) /\ AddInv(r)
  BY <1>2, AtAdd
<1>4. UNCHANGED <<kind, file, contents, version, pins, lock, entry>>
  BY DEF Load, environment
<1>5. EntryInv'
  BY <1>4, EntryStays DEF Inv
<1>6. PICK v : v = LoadOf(r.version)
  OBVIOUS
<1>7. v = r.version \/ v = version
  BY <1>6 DEF LoadOf
<1>8. PICK answer : answer = AnswerOf(v)
  OBVIOUS
<1>9. PICK x : x = [r EXCEPT !.at = "publish", !.version = v, !.answer = answer]
  OBVIOUS
<1>10. req' = [req EXCEPT ![c] = x]
  BY <1>1, <1>6, <1>8, <1>9 DEF Load
<1>11. IsAddRecord(x) /\ x.at = "publish" /\ x.version = v /\ x.answer = answer
       /\ \A f \in AddFields \ {"at", "version", "answer"} : x[f] = r[f]
  BY <1>3, <1>9 DEF IsAdd, IsAddRecord, AddFields
<1>12. /\ x.do = r.do /\ x.place = r.place /\ x.verdict = r.verdict /\ x.question = r.question /\ x.lines = r.lines
       /\ x.suggest = r.suggest /\ x.holds = r.holds /\ x.held = r.held /\ x.texts = r.texts
  BY <1>11 DEF AddFields
<1>13. IsAdd(x, kind)
  BY <1>3, <1>11, <1>12 DEF IsAdd, Idle
<1>14. x.verdict /= {} => WordsTold(x)
  <2> SUFFICES ASSUME x.verdict /= {} PROVE WordsTold(x)
    OBVIOUS
  <2>1. AnswerOf(version) \in r.held /\ AnswerOf(r.version) \in r.held /\ IsVersion(r.version)
    BY <1>2, <1>3, <1>12 DEF AddInv, WordsTold
  <2>2. IsVersion(version)
    BY DEF Inv, DataInv
  <2> QED BY <1>7, <1>8, <1>11, <1>12, <2>1, <2>2 DEF WordsTold
<1>15. RootRead(x) /\ Decided(x)
  BY <1>2, <1>3, <1>11, <1>12 DEF AddInv, Decided, RootRead
<1>16. RequestInv(x) /\ x.at /= "anchor" /\ EndsPlainly(req[c], x)
  BY <1>2, <1>3, <1>11, <1>12, <1>13, <1>14, <1>15 DEF RequestInv, AddInv, EndsPlainly, Idle
<1> QED BY <1>1, <1>2, <1>4, <1>5, <1>10, <1>16, RequestStep

LEMMA PublishKeeps ==
  ASSUME Inv, NEW c \in Clients, Publish(c)
  PROVE  Inv' /\ Quiet
<1>1. PICK r : r = req[c]
  OBVIOUS
<1>2. r.at = "publish" /\ RequestInv(r)
  BY <1>1 DEF Publish, Inv, RequestsInv
<1>3. IsAdd(r, kind) /\ AddInv(r)
  BY <1>2, AtAdd
<1>4. UNCHANGED <<kind, file, contents, version, pins, lock>>
  BY DEF Publish, environment
<1>5. PICK held : held = Fresh(entry, r.version)
  OBVIOUS
<1>6. PICK answer : answer = IF held /= {} THEN The(held).answer ELSE r.answer
  OBVIOUS
<1>7. (held /= {} => answer = AnswerOf(r.version)) /\ (held = {} => answer = r.answer)
  <2>1. held /= {} => The(held) \in held
    BY DEF The
  <2>2. \A e \in held : e \in entry /\ e.version = r.version
    BY <1>5 DEF Fresh
  <2> QED BY <1>6, <2>1, <2>2 DEF Inv, EntryInv
<1>8. answer = AnswerOf(r.version) /\ answer \in r.held /\ IsVersion(r.version)
  BY <1>2, <1>3, <1>7 DEF AddInv, WordsTold
<1>9. PICK at : at = AfterWords(r)
  OBVIOUS
<1>10. PICK none : none = Unusable("absent")
  OBVIOUS
<1>11. PICK x : x = [r EXCEPT !.at = at, !.keys = answer.keys, !.seen = {}, !.version = Absent, !.answer = none]
  OBVIOUS
<1>12. req' = [req EXCEPT ![c] = x]
  BY <1>1, <1>5, <1>6, <1>9, <1>10, <1>11 DEF Publish
<1>13. IsAddRecord(x) /\ x.at = at /\ x.keys = answer.keys
       /\ \A f \in AddFields \ {"at", "keys", "version", "seen", "answer"} : x[f] = r[f]
  BY <1>3, <1>11 DEF IsAdd, IsAddRecord, AddFields
<1>14. RequestInv(x) /\ x.at \in {"root", "commit"}
  BY <1>2, <1>3, <1>8, <1>9, <1>13, WordsRead
<1>16. EndsPlainly(req[c], x)
  BY <1>14 DEF EndsPlainly, Idle
<1>15. EntryInv'
  <2>1. PICK stamp : entry' = entry \/ entry' = {[version |-> r.version, answer |-> answer, stamp |-> stamp]}
    BY <1>1, <1>5, <1>6 DEF Publish
  <2>2. \A v : AnswerOf(v)' = AnswerOf(v) /\ (IsVersion(v) => IsVersion(v)')
    BY <1>4 DEF AnswerOf, IsVersion
  <2>3. \A e \in entry : IsVersion(e.version)' /\ e.answer = AnswerOf(e.version)'
    BY <2>2 DEF Inv, EntryInv
  <2> QED BY <1>8, <2>1, <2>2, <2>3 DEF EntryInv
<1> QED BY <1>1, <1>2, <1>4, <1>12, <1>14, <1>15, <1>16, RequestStep

LEMMA ReadRootKeeps ==
  ASSUME Inv, NEW c \in Clients, ReadRoot(c)
  PROVE  Inv' /\ Quiet
<1>1. PICK r : r = req[c]
  OBVIOUS
<1>2. r.at = "root" /\ RequestInv(r)
  BY <1>1 DEF ReadRoot, Inv, RequestsInv
<1>3. IsAdd(r, kind) /\ AddInv(r)
  BY <1>2, AtAdd
<1>4. UNCHANGED <<kind, file, contents, version, pins, lock, entry>>
  BY DEF ReadRoot, environment
<1>5. EntryInv'
  BY <1>4, EntryStays DEF Inv
<1>6. PICK on : on = IF r.sent /= {} THEN The(r.sent) ELSE screen
  OBVIOUS
<1>7. PICK seen : seen = IF r.sent /= {} THEN {} ELSE {screen}
  OBVIOUS
<1>8. PICK holds \in BOOLEAN : holds = (RootOf[on] = r.place.path[1])
  OBVIOUS
<1>9. PICK x : x = [r EXCEPT !.at = "commit", !.holds = holds, !.screen = seen]
  OBVIOUS
<1>10. req' = [req EXCEPT ![c] = x]
  BY <1>1, <1>6, <1>7, <1>8, <1>9 DEF ReadRoot
<1>11. IsAddRecord(x) /\ x.at = "commit" /\ x.holds = holds /\ x.screen = seen
       /\ \A f \in AddFields \ {"at", "holds", "screen"} : x[f] = r[f]
  BY <1>3, <1>9 DEF IsAdd, IsAddRecord, AddFields
<1>12. /\ x.do = r.do /\ x.place = r.place /\ x.verdict = r.verdict /\ x.question = r.question /\ x.lines = r.lines
       /\ x.suggest = r.suggest /\ x.sent = r.sent /\ x.held = r.held /\ x.texts = r.texts /\ x.keys = r.keys
  BY <1>11 DEF AddFields
<1>13. IsAdd(x, kind)
  BY <1>3, <1>11, <1>12 DEF IsAdd, Idle
<1>14. x.verdict /= {} => WordsTold(x)
  BY <1>2, <1>3, <1>11, <1>12 DEF AddInv, WordsTold
<1>15. RootRead(x)
  <2>1. BuildOf(x) = on
    <3>1. CASE r.sent /= {}
      BY <1>6, <1>12, <3>1 DEF BuildOf
    <3>2. CASE r.sent = {}
      <4>1. seen = {screen} /\ on = screen
        BY <1>6, <1>7, <3>2
      <4>2. The(seen) = screen
        BY <4>1, OnlyOne
      <4> QED BY <1>11, <1>12, <3>2, <4>1, <4>2 DEF BuildOf
    <3> QED BY <3>1, <3>2
  <2> QED BY <1>7, <1>8, <1>11, <1>12, <2>1 DEF RootRead
<1>16. Decided(x)
  BY <1>2, <1>3, <1>11, <1>12 DEF AddInv, Decided
<1>17. RequestInv(x) /\ x.at /= "anchor" /\ EndsPlainly(req[c], x)
  BY <1>11, <1>13, <1>14, <1>15, <1>16 DEF RequestInv, AddInv, EndsPlainly, Idle
<1> QED BY <1>1, <1>2, <1>4, <1>5, <1>10, <1>17, RequestStep

LEMMA ArriveEditKeeps ==
  ASSUME Inv, NEW c \in Clients, ArriveEdit(c)
  PROVE  Inv' /\ Quiet
<1>1. PICK pid \in DOMAIN pins, e \in Changes[kind] : \E base :
         req' = [req EXCEPT ![c] = [at |-> "scope", do |-> "edit", pid |-> pid, change |-> e, base |-> base,
                                    build |-> {}, texts |-> IF e.suggest = {} THEN {} ELSE {file.lines}]]
  BY DEF ArriveEdit
<1>2. PICK base :
         req' = [req EXCEPT ![c] = [at |-> "scope", do |-> "edit", pid |-> pid, change |-> e, base |-> base,
                                    build |-> {}, texts |-> IF e.suggest = {} THEN {} ELSE {file.lines}]]
  BY <1>1
<1>3. PICK texts : texts = IF e.suggest = {} THEN {} ELSE {file.lines}
  OBVIOUS
<1>4. PICK r : r = [at |-> "scope", do |-> "edit", pid |-> pid, change |-> e, base |-> base, build |-> {}, texts |-> texts]
  OBVIOUS
<1>5. req' = [req EXCEPT ![c] = r]
  BY <1>2, <1>3, <1>4
<1>6. /\ IsEditRecord(r) /\ r.at = "scope" /\ r.do = "edit" /\ r.pid = pid /\ r.change = e /\ r.build = {} /\ r.texts = texts
  BY <1>4 DEF IsEditRecord, EditFields
<1>7. IsChange(e, kind)
  <2>1. IsEditBody(e, kind)
    BY DocumentsAssumption DEF Documents, Inv, DataInv
  <2>2. IsChangeRecord(e)
    BY <2>1 DEF IsEditBody, IsChangeRecord, ChangeFields
  <2>3. /\ e.scope \in BOOLEAN /\ e.removes \in BOOLEAN /\ e.append \in BOOLEAN /\ e.verdictSent \in BOOLEAN
        /\ e.nulls \in BOOLEAN /\ e.lo \subseteq Int /\ e.hi \subseteq Int /\ \A l \in e.loc : IsPlace(l, kind)
    BY <2>1 DEF IsEditBody
  <2> QED BY <2>2, <2>3 DEF IsChange
<1>8. IsEdit(r, kind) /\ EditInv(r)
  BY <1>3, <1>6, <1>7 DEF IsEdit, EditInv, Idle
<1>9. RequestInv(r) /\ r.at /= "anchor" /\ EndsPlainly(req[c], r)
  BY <1>6, <1>8 DEF RequestInv, EndsPlainly, Idle
<1>10. req[c].at /= "anchor"
  BY DEF ArriveEdit, Idle
<1>11. UNCHANGED <<kind, file, contents, version, pins, lock, entry>>
  BY DEF ArriveEdit, environment
<1>12. EntryInv'
  BY <1>11, EntryStays DEF Inv
<1> QED BY <1>5, <1>9, <1>10, <1>11, <1>12, RequestStep

LEMMA ReadScopeKeeps ==
  ASSUME Inv, NEW c \in Clients, ReadScope(c)
  PROVE  Inv' /\ Quiet
<1>1. PICK r : r = req[c]
  OBVIOUS
<1>2. r.at = "scope" /\ RequestInv(r)
  BY <1>1 DEF ReadScope, Inv, RequestsInv
<1>3. IsEdit(r, kind) /\ EditInv(r)
  BY <1>2 DEF RequestInv, IsAdd, Idle
<1>4. UNCHANGED <<kind, file, contents, version, pins, lock, entry>>
  BY DEF ReadScope, environment
<1>5. EntryInv'
  BY <1>4, EntryStays DEF Inv
<1>6. PICK parsed : parsed = ParseEditPlace(r.change, Scoped(pins[r.pid]))
  OBVIOUS
<1>7. CASE parsed = {}
  <2>1. req' = [req EXCEPT ![c] = Idle]
    BY <1>1, <1>6, <1>7 DEF ReadScope
  <2>2. RequestInv(Idle) /\ Idle.at /= "anchor" /\ EndsPlainly(req[c], Idle)
    BY <1>1, <1>3 DEF RequestInv, Idle, EndsPlainly, IsEdit
  <2> QED BY <1>1, <1>2, <1>4, <1>5, <2>1, <2>2, RequestStep
<1>8. CASE parsed /= {}
  <2>1. PICK e : e = The(parsed)
    OBVIOUS
  <2>2. IsChange(e, kind) /\ e.suggest = r.change.suggest /\ (r.change.loc /= {} => e.loc /= {})
    <3>1. PICK sent : sent = r.change
      OBVIOUS
    <3>2. IsChange(sent, kind)
      BY <1>3, <3>1 DEF IsEdit
    <3>3. CASE e = sent
      BY <3>1, <3>2, <3>3
    <3>4. CASE e /= sent
      <4>1. e \in parsed
        BY <1>8, <2>1 DEF The
      <4>2. PICK loc : loc = IF sent.loc = {} THEN {} ELSE {Unread}
        OBVIOUS
      <4>3. e = [sent EXCEPT !.loc = loc]
        BY <1>6, <3>1, <3>4, <4>1, <4>2 DEF ParseEditPlace
      <4>4. IsChangeRecord(e) /\ e.loc = loc /\ \A f \in ChangeFields \ {"loc"} : e[f] = sent[f]
        BY <3>2, <4>3 DEF IsChange, IsChangeRecord, ChangeFields
      <4>5. /\ e.lo = sent.lo /\ e.hi = sent.hi /\ e.scope = sent.scope /\ e.kindReq = sent.kindReq
            /\ e.suggest = sent.suggest /\ e.removes = sent.removes /\ e.append = sent.append
            /\ e.verdictSent = sent.verdictSent /\ e.nulls = sent.nulls
        BY <4>4 DEF ChangeFields
      <4>6. IsChange(e, kind)
        BY <3>2, <4>2, <4>4, <4>5 DEF IsChange
      <4> QED BY <3>1, <4>2, <4>4, <4>5, <4>6
    <3> QED BY <3>3, <3>4
  <2>3. PICK build : build = IF Paged /\ r.change.loc /= {} THEN {screen} ELSE {}
    OBVIOUS
  <2>4. PICK x : x = [r EXCEPT !.at = "commit", !.change = e, !.build = build]
    OBVIOUS
  <2>5. req' = [req EXCEPT ![c] = x]
    BY <1>1, <1>6, <1>8, <2>1, <2>3, <2>4 DEF ReadScope
  <2>6. IsEditRecord(x) /\ x.at = "commit" /\ x.change = e /\ x.build = build
        /\ \A f \in EditFields \ {"at", "change", "build"} : x[f] = r[f]
    BY <1>3, <2>4 DEF IsEdit, IsEditRecord, EditFields
  <2>7. x.do = r.do /\ x.pid = r.pid /\ x.texts = r.texts
    BY <2>6 DEF EditFields
  <2>8. IsEdit(x, kind) /\ EditInv(x)
    BY <1>3, <2>2, <2>3, <2>6, <2>7 DEF IsEdit, EditInv, Idle
  <2>9. RequestInv(x) /\ x.at /= "anchor" /\ EndsPlainly(req[c], x)
    BY <2>6, <2>8 DEF RequestInv, EndsPlainly, Idle
  <2> QED BY <1>1, <1>2, <1>4, <1>5, <2>5, <2>9, RequestStep
<1> QED BY <1>7, <1>8

-----------------------------------------------------------------------------
(* Transactions.                                                             *)

(* A whole page's verdict names the figure of the pin's build.               *)
TargetIsTrue(p) ==
    (p.verdict /= {} /\ WholeFigure(p.place)) => \A b \in p.build : RootOf[b] = p.place.path[1]
LEMMA TargetsAreTrue ==
  ASSUME NEW ps PROVE (\A p \in Range(ps) : TargetIsTrue(p)) <=> \A i \in DOMAIN ps : TargetIsTrue(ps[i])
BY DEF Range
LEMMA RereadTarget ==
  ASSUME NEW lines, NEW p, NEW q, Reread(lines, p, q), TargetIsTrue(p)
  PROVE  TargetIsTrue(q)
<1>1. CASE q.place = p.place
  BY <1>1 DEF TargetIsTrue, Reread
<1>2. CASE q.place /= p.place
  BY <1>2 DEF TargetIsTrue, Reread, WholeFigure
<1> QED BY <1>1, <1>2

(* A step that writes the pins and leaves no edit inside its transaction.    *)
LEMMA PinsStep ==
  ASSUME Inv, NEW ps, pins' = ps, ArePins(ps, kind), DOMAIN pins \subseteq DOMAIN ps,
         \A i \in DOMAIN ps : TargetIsTrue(ps[i]),
         req' = [d \in Clients |-> req'[d]],
         \A d \in Clients : (req'[d] = req[d] \/ req'[d] = Idle) /\ req'[d].at /= "anchor",
         lock' = {}, UNCHANGED <<kind, file, contents, version, entry>>
  PROVE  Inv'
<1>1. DataInv'
  <2>1. \A p \in Range(ps) : TargetIsTrue(p)
    BY TargetsAreTrue
  <2>2. PageTargetsAreTrue'
    BY <2>1 DEF PageTargetsAreTrue, TargetIsTrue
  <2> QED BY <2>2 DEF Inv, DataInv, IsVersion
<1>2. EntryInv'
  BY EntryStays DEF Inv
<1>3. ASSUME NEW d \in Clients PROVE RequestInv(req[d])'
  <2>1. PICK x : x = req'[d]
    OBVIOUS
  <2>2. RequestInv(x)
    BY <2>1 DEF Inv, RequestsInv, RequestInv
  <2>3. RequestInv(x)'
    BY <2>2, RequestStays
  <2> QED BY <2>1, <2>3
<1>4. RequestsInv'
  BY <1>3 DEF RequestsInv
<1>5. LockInv'
  BY DEF LockInv
<1> QED BY <1>1, <1>2, <1>4, <1>5 DEF Inv

LEMMA SyncedNow ==
  ASSUME Inv, NEW synced, synced = Synced
  PROVE  /\ ArePins(synced, kind) /\ DOMAIN synced = DOMAIN pins /\ Len(synced) = Len(pins)
         /\ \A i \in DOMAIN pins : IsPin(synced[i], kind) /\ Reread(file.lines, pins[i], synced[i])
         /\ \A i \in DOMAIN pins : TargetIsTrue(synced[i])
<1>1. ArePins(pins, kind) /\ file.lines \in Seq(Texts) /\ PageTargetsAreTrue
  BY DEF Inv, DataInv
<1>2. /\ ArePins(synced, kind) /\ DOMAIN synced = DOMAIN pins /\ Len(synced) = Len(pins)
      /\ \A i \in DOMAIN pins : IsPin(synced[i], kind) /\ Reread(file.lines, pins[i], synced[i])
  BY <1>1, SyncedIs
<1>3. \A i \in DOMAIN pins : TargetIsTrue(pins[i])
  <2>1. \A p \in Range(pins) : TargetIsTrue(p)
    BY <1>1 DEF PageTargetsAreTrue, TargetIsTrue
  <2> QED BY <2>1, TargetsAreTrue
<1>4. ASSUME NEW i \in DOMAIN pins PROVE TargetIsTrue(synced[i])
  BY <1>2, <1>3, RereadTarget
<1> QED BY <1>2, <1>4

LEMMA NobodyInside ==
  ASSUME Inv, lock = {}, NEW d \in Clients
  PROVE  req[d].at /= "anchor"
BY DEF Inv, LockInv

LEMMA AtCommit ==
  ASSUME Inv, NEW c \in Clients, req[c].at = "commit", NEW r, r = req[c]
  PROVE  /\ r.do = "add" => IsAdd(r, kind) /\ AddInv(r)
         /\ r.do = "edit" => IsEdit(r, kind) /\ EditInv(r)
         /\ r.do \in {"add", "edit"}
<1>1. RequestInv(r) /\ r /= Idle
  BY DEF Inv, RequestsInv, Idle
<1> QED BY <1>1 DEF RequestInv, IsAdd, IsEdit

(* What re-matching leaves of a pin.                                         *)
LEMMA RereadStands ==
  ASSUME NEW p, NEW q, Reread(FoundLines, p, q)
  PROVE  Stands(p, q) /\ q.suggest = p.suggest
BY DEF Reread, Stands, OnlyFollows

(* A suggestion's base ends where the anchor of its lines does.              *)
ReadsAs(lines, lo, hi, base) == LinesText(lines, lo, hi) = {base}
LEMMA BaseEnds ==
  ASSUME NEW lines \in Seq(Texts), NEW lo \in Int, NEW hi \in Int, NEW base, ReadsAs(lines, lo, hi, base)
  PROVE  hi <= Len(lines) /\ base[1] = lines[lo] /\ Last(base) = lines[hi]
<1>1. 1 <= lo /\ lo <= hi /\ hi <= Len(lines) /\ base = SubSeq(lines, lo, hi)
  BY DEF LinesText, ReadsAs
<1>2. Len(lines) \in Nat
  BY LenProperties
<1>3. lo \in 1..Len(lines) /\ hi \in lo..Len(lines) /\ lo \in 1..(Len(lines) + 1)
      /\ hi \in (lo - 1)..Len(lines)
  BY <1>1, <1>2
<1>4. Len(base) = hi - lo + 1 /\ \A i \in 1..(hi - lo + 1) : base[i] = lines[lo + i - 1]
  BY <1>1, <1>3, SubSeqProperties
<1>5. base[1] = lines[lo + 1 - 1] /\ base[hi - lo + 1] = lines[lo + (hi - lo + 1) - 1]
  <2>1. 1 \in 1..(hi - lo + 1) /\ hi - lo + 1 \in 1..(hi - lo + 1)
    BY <1>1
  <2> QED BY <1>4, <2>1
<1>6. lo + 1 - 1 = lo /\ lo + (hi - lo + 1) - 1 = hi
  OBVIOUS
<1> QED BY <1>1, <1>4, <1>5, <1>6 DEF Last

LEMMA NewSuggestionFits ==
  ASSUME kind \in Kinds, NEW r, IsAdd(r, kind), Decided(r), r.at = "commit", r.verdict = {},
         NEW p, p = NewPin(r), NEW s \in r.suggest
  PROVE  Fits(r, p, s)
<1>1. /\ p.live /\ p.open /\ p.place = r.place /\ p.verdict = r.verdict
      /\ p.place.sort = "lines" => p.anchor = AnchorOf(r.lines, r.place.lo, r.place.hi)
  BY NewPinIs
<1>2. r.lines \in r.texts /\ DecideNewSuggestion(s, r.place, r.lines)
  BY DEF Decided
<1>3. SpanOf(r.place) /= {} /\ s.text /= s.base /\ BaseHolds(s, SpanOf(r.place), r.lines)
  BY <1>2 DEF DecideNewSuggestion, CheckSuggestion
<1>4. r.place.sort = "lines" /\ SpanOf(r.place) = {<<r.place.lo, r.place.hi>>}
      /\ r.place.lo \in Int /\ r.place.hi \in Int
  BY <1>3, SpanOfPlace DEF IsAdd, SpanOf
<1>5. The(SpanOf(r.place)) = <<r.place.lo, r.place.hi>>
  BY <1>4, OnlyOne
<1>6. LinesText(r.lines, r.place.lo, r.place.hi) = {s.base}
  BY <1>3, <1>5 DEF BaseHolds
<1>7. r.lines \in Seq(Texts)
  BY DEF IsAdd
<1>8. r.place.hi <= Len(r.lines) /\ s.base[1] = r.lines[r.place.lo] /\ Last(s.base) = r.lines[r.place.hi]
  <2>1. ReadsAs(r.lines, r.place.lo, r.place.hi, s.base)
    BY <1>6 DEF ReadsAs
  <2> QED BY <1>4, <1>7, <2>1, BaseEnds
<1>9. \A a \in p.anchor : a.head = s.base[1] /\ a.tail = Last(s.base)
  <2>1. PICK anchor : anchor = AnchorOf(r.lines, r.place.lo, r.place.hi)
    OBVIOUS
  <2>2. \A a \in anchor : r.place.hi <= Len(r.lines) => a.head = r.lines[r.place.lo] /\ a.tail = r.lines[r.place.hi]
    BY <1>4, <1>7, <2>1, AnchorIs
  <2> QED BY <1>1, <1>4, <1>8, <2>1, <2>2
<1> QED BY <1>1, <1>2, <1>3, <1>4, <1>6, <1>9 DEF Fits

(* The answer an add gets about its verdict.                                 *)
LEMMA AnsweredInTime ==
  ASSUME NEW c, NEW r, WordsTold(r), r.at = "commit", NEW saved \in BOOLEAN, saved <=> DecideNewVerdict(c, r)
  PROVE  InTime(c, r, saved)
<1>1. PICK a \in r.held : a.keys = r.keys
  BY DEF WordsTold
<1>2. a \in Held(r) <=> r.verdict \subseteq r.keys
  BY <1>1 DEF Held
<1>3. ASSUME saved PROVE Plain(c, r) /\ Held(r) /= {}
  BY <1>2, <1>3 DEF DecideNewVerdict, Plain
<1>4. ASSUME ~saved, Plain(c, r), r.holds PROVE Held(r) /= r.held
  BY <1>1, <1>2, <1>4 DEF DecideNewVerdict, Plain
<1> QED BY <1>3, <1>4 DEF InTime

LEMMA CommitAddKeeps ==
  ASSUME Inv, NEW c \in Clients, CommitAdd(c)
  PROVE  Inv' /\ Good
<1>1. PICK r : r = req[c]
  OBVIOUS
<1>2. PICK synced : synced = Synced
  OBVIOUS
<1>3. /\ ArePins(synced, kind) /\ DOMAIN synced = DOMAIN pins /\ Len(synced) = Len(pins)
      /\ \A i \in DOMAIN pins : TargetIsTrue(synced[i]) /\ Reread(file.lines, pins[i], synced[i])
  BY <1>2, SyncedNow
<1>4. IsAdd(r, kind) /\ AddInv(r) /\ lock = {} /\ r.at = "commit"
  BY <1>1, AtCommit DEF CommitAdd
<1>5. req' = [req EXCEPT ![c] = Idle] /\ UNCHANGED <<kind, file, contents, version, entry, lock>>
  BY DEF CommitAdd, environment
<1>6. /\ req' = [d \in Clients |-> req'[d]]
      /\ \A d \in Clients : (req'[d] = req[d] \/ req'[d] = Idle) /\ req'[d].at /= "anchor"
  <2>1. \A d \in Clients : req[d].at /= "anchor"
    BY <1>4, NobodyInside
  <2> QED BY <1>5, <2>1 DEF Inv, RequestsInv, Idle
<1>7. \A d \in Clients : Ends(d) => d = c
  BY <1>5 DEF Ends, Inv, RequestsInv
<1>8. \A i \in DOMAIN pins : Stands(pins[i], synced[i]) /\ synced[i].suggest = pins[i].suggest
  <2>1. FoundLines = file.lines
    BY <1>4 DEF FoundLines
  <2> QED BY <1>3, <2>1, RereadStands
<1>9. Len(synced) \in Nat /\ DOMAIN synced = 1..Len(synced)
  BY <1>3, PinsSequence
<1>10. CASE ~(r.verdict = {} \/ DecideNewVerdict(c, r))
  <2>1. pins' = synced
    BY <1>1, <1>2, <1>10 DEF CommitAdd
  <2>2. Inv'
    BY <1>3, <1>4, <1>5, <1>6, <2>1, PinsStep
  <2>3. StandStep
    BY <1>8, <2>1 DEF StandStep
  <2>4. TimeStep
    <3>1. WordsTold(r)
      BY <1>4, <1>10 DEF AddInv
    <3>2. PICK saved \in BOOLEAN : saved <=> Len(pins') > Len(pins)
      OBVIOUS
    <3>3. ~saved
      BY <1>3, <1>9, <2>1, <3>2
    <3>4. InTime(c, r, saved)
      BY <1>4, <1>10, <3>1, <3>3, AnsweredInTime
    <3>5. ~(Len(pins') > Len(pins))
      BY <3>2, <3>3
    <3>6. InTime(c, r, Len(pins') > Len(pins))
      BY <3>3, <3>4, <3>5 DEF InTime
    <3> QED BY <1>1, <1>7, <3>6 DEF TimeStep
  <2>5. FitStep
    BY <1>3, <1>8, <2>1 DEF FitStep, Earlier
  <2> QED BY <2>2, <2>3, <2>4, <2>5 DEF Good
<1>11. CASE r.verdict = {} \/ DecideNewVerdict(c, r)
  <2>1. PICK p : p = NewPin(r)
    OBVIOUS
  <2>2. PICK ps : IsAppended(ps, synced, p)
    BY DEF IsAppended
  <2>3. pins' = ps
    BY <1>1, <1>2, <1>11, <2>1, <2>2 DEF CommitAdd, IsAppended
  <2>4. /\ IsPin(p, kind) /\ p.place = r.place /\ p.verdict = r.verdict /\ (\A b \in p.build : b = BuildOf(r))
        /\ p.suggest = r.suggest
    BY <1>4, <2>1, NewPinIs DEF Inv, DataInv
  <2>5. TargetIsTrue(p)
    BY <1>4, <1>11, <2>4 DEF TargetIsTrue, AddInv, RootRead, DecideNewVerdict
  <2>6. /\ ArePins(ps, kind) /\ DOMAIN ps = 1..(Len(synced) + 1) /\ Len(ps) = Len(synced) + 1
        /\ \A i \in DOMAIN synced : ps[i] = synced[i]
        /\ ps[Len(synced) + 1] = p
    BY <1>3, <2>2, <2>4, PinAppended
  <2>7. \A i \in DOMAIN ps : i \in DOMAIN synced \/ (i \notin DOMAIN pins /\ i = Len(synced) + 1)
    BY <1>3, <1>9, <2>6
  <2>8. \A i \in DOMAIN ps : TargetIsTrue(ps[i])
    BY <1>3, <2>5, <2>6, <2>7
  <2>9. DOMAIN pins \subseteq DOMAIN ps
    BY <1>3, <1>9, <2>6
  <2>10. Inv'
    BY <1>4, <1>5, <1>6, <2>3, <2>6, <2>8, <2>9, PinsStep
  <2>11. StandStep
    BY <1>3, <1>8, <2>3, <2>6 DEF StandStep
  <2>12. TimeStep
    <3>1. Len(pins') > Len(pins)
      BY <1>3, <1>9, <2>3, <2>6
    <3>2. ASSUME r.verdict /= {} PROVE InTime(c, r, Len(pins') > Len(pins))
      <4>1. WordsTold(r) /\ DecideNewVerdict(c, r)
        BY <1>4, <1>11, <3>2 DEF AddInv
      <4>2. PICK saved \in BOOLEAN : saved
        OBVIOUS
      <4>3. InTime(c, r, saved)
        BY <1>4, <4>1, <4>2, AnsweredInTime
      <4> QED BY <3>1, <4>2, <4>3 DEF InTime
    <3> QED BY <1>1, <1>7, <3>2 DEF TimeStep
  <2>13. FitStep
    <3>1. ASSUME NEW s \in p.suggest PROVE Fits(r, p, s)
      <4>1. r.verdict = {} /\ s \in r.suggest
        BY <1>11, <2>4, <3>1 DEF DecideNewVerdict
      <4>2. Decided(r) /\ kind \in Kinds
        BY <1>4 DEF AddInv, Inv, DataInv
      <4> QED BY <1>4, <2>1, <4>1, <4>2, NewSuggestionFits
    <3>2. ASSUME NEW i \in DOMAIN ps, NEW s \in ps[i].suggest \ Earlier(i) PROVE Fits(r, ps[i], s)
      <4>1. CASE i \in DOMAIN synced
        BY <1>3, <1>8, <2>6, <3>2, <4>1 DEF Earlier
      <4>2. CASE i = Len(synced) + 1
        BY <2>6, <3>1, <3>2, <4>2
      <4> QED BY <2>7, <4>1, <4>2
    <3> QED BY <1>1, <1>7, <2>3, <3>2 DEF FitStep
  <2> QED BY <2>10, <2>11, <2>12, <2>13 DEF Good
<1> QED BY <1>10, <1>11

LEMMA TransactKeeps ==
  ASSUME Inv, NEW c \in Clients, Transact(c)
  PROVE  Inv' /\ Good
<1>1. PICK r : r = req[c]
  OBVIOUS
<1>2. PICK synced : synced = Synced
  OBVIOUS
<1>3. /\ ArePins(synced, kind) /\ DOMAIN synced = DOMAIN pins /\ Len(synced) = Len(pins)
      /\ \A i \in DOMAIN pins : TargetIsTrue(synced[i]) /\ Reread(file.lines, pins[i], synced[i])
  BY <1>2, SyncedNow
<1>4. IsEdit(r, kind) /\ EditInv(r) /\ lock = {} /\ r.at = "commit" /\ r.do = "edit"
  BY <1>1, AtCommit DEF Transact
<1>5. UNCHANGED <<kind, file, contents, version, entry>>
  BY DEF Transact, environment
<1>6. \A d \in Clients : req[d].at /= "anchor"
  BY <1>4, NobodyInside
<1>7. CASE ~synced[r.pid].live \/ Refused(synced[r.pid], r.change, r.base, file.lines)
  <2>1. pins' = synced /\ lock' = {} /\ req' = [req EXCEPT ![c] = Idle]
    BY <1>1, <1>2, <1>7 DEF Transact
  <2>2. /\ req' = [d \in Clients |-> req'[d]]
        /\ \A d \in Clients : (req'[d] = req[d] \/ req'[d] = Idle) /\ req'[d].at /= "anchor"
    BY <1>6, <2>1 DEF Inv, RequestsInv, Idle
  <2>3. Inv'
    BY <1>3, <1>5, <2>1, <2>2, PinsStep
  <2>4. \A i \in DOMAIN pins : Stands(pins[i], synced[i]) /\ synced[i].suggest = pins[i].suggest
    <3>1. FoundLines = file.lines
      BY <1>4 DEF FoundLines
    <3> QED BY <1>3, <3>1, RereadStands
  <2>5. StandStep
    BY <2>1, <2>4 DEF StandStep
  <2>6. TimeStep
    BY <1>1, <1>4, <2>1 DEF TimeStep, Ends, Inv, RequestsInv
  <2>7. FitStep
    BY <1>3, <2>1, <2>4 DEF FitStep, Earlier
  <2> QED BY <2>3, <2>5, <2>6, <2>7 DEF Good
<1>8. CASE ~(~synced[r.pid].live \/ Refused(synced[r.pid], r.change, r.base, file.lines))
  <2>1. PICK l : l = [by |-> c, pins |-> synced, lines |-> file.lines]
    OBVIOUS
  <2>2. PICK x : x = [r EXCEPT !.at = "anchor"]
    OBVIOUS
  <2>3. lock' = {l} /\ req' = [req EXCEPT ![c] = x] /\ pins' = pins
    BY <1>1, <1>2, <1>8, <2>1, <2>2 DEF Transact
  <2>4. IsEditRecord(x) /\ x.at = "anchor" /\ \A f \in EditFields \ {"at"} : x[f] = r[f]
    BY <1>4, <2>2 DEF IsEdit, IsEditRecord, EditFields
  <2>5. x.do = r.do /\ x.pid = r.pid /\ x.change = r.change /\ x.base = r.base /\ x.build = r.build /\ x.texts = r.texts
    BY <2>4 DEF EditFields
  <2>6. IsEdit(x, kind) /\ EditInv(x) /\ x /= Idle
    BY <1>4, <2>4, <2>5 DEF IsEdit, EditInv, Idle
  <2>7. req' = [d \in Clients |-> req'[d]] /\ req'[c] = x /\ \A d \in Clients \ {c} : req'[d] = req[d]
    BY <2>3 DEF Inv, RequestsInv
  <2>8. DataInv' /\ EntryInv'
    BY <1>5, <2>3, DataStays, EntryStays DEF Inv
  <2>9. ASSUME NEW d \in Clients PROVE RequestInv(req[d])'
    <3>1. PICK y : y = req'[d]
      OBVIOUS
    <3>2. RequestInv(y)
      BY <2>6, <2>7, <3>1 DEF Inv, RequestsInv, RequestInv
    <3>3. RequestInv(y)'
      BY <1>5, <2>3, <3>2, RequestStays
    <3> QED BY <3>1, <3>3
  <2>10. RequestsInv'
    BY <2>7, <2>9 DEF RequestsInv
  <2>11. LockInv'
    <3>1. l.by = c /\ l.pins = synced /\ l.lines = file.lines
      BY <2>1
    <3>2. lock' = {The(lock')}
      BY <2>3 DEF The
    <3>3. Accepted(l, x)
      BY <1>4, <1>8, <2>4, <2>5, <2>6, <3>1 DEF Accepted, EditInv
    <3>4. Accepted(l, x)'
      BY <1>5, <3>3, AcceptedStays
    <3>5. InsideInv(l)'
      BY <1>3, <1>5, <2>3, <2>7, <3>1, <3>4 DEF InsideInv
    <3>6. \A d \in Clients : req'[d].at = "anchor" => d = c
      BY <1>6, <2>7
    <3> QED BY <2>3, <3>1, <3>2, <3>5, <3>6 DEF LockInv
  <2>12. Quiet
    BY <2>3, <2>6, <2>7 DEF Quiet, Ends
  <2> QED BY <2>8, <2>10, <2>11, <2>12, QuietIsGood DEF Inv
<1> QED BY <1>7, <1>8

(* What is written for an edit that was accepted.                            *)
LEMMA EditWritten ==
  ASSUME DataInv, NEW l, NEW r, Accepted(l, r), NEW p, p = l.pins[r.pid], IsPin(p, kind), TargetIsTrue(p),
         NEW q, q = EvolveEdit(p, r.change, r.build)
  PROVE  /\ IsPin(q, kind) /\ TargetIsTrue(q)
         /\ q.verdict = p.verdict
         /\ p.verdict /= {} => /\ q.place = p.place /\ q.anchor = p.anchor /\ q.build = p.build
                               /\ q.question = p.question /\ q.suggest = p.suggest
         /\ \A s \in q.suggest \ p.suggest : Fits(r, q, s)
<1>1. PICK e, build : e = r.change /\ build = r.build
  OBVIOUS
<1>2. IsChange(e, kind) /\ (build /= {} => e.loc /= {}) /\ r.do = "edit" /\ p.live
      /\ ~Refused(p, e, r.base, l.lines) /\ (e.suggest /= {} => l.lines \in r.texts)
  BY <1>1 DEF Accepted, IsEdit
<1>3. /\ p.verdict /= {} => ~MovesVerdict(e)
      /\ e.loc /= {Unread}
      /\ Suggests(e) => p.open
      /\ SetsLines(e) => p.place.sort = "lines"
      /\ \A s \in e.suggest : CheckSuggestion(s, SpanAfter(p, e)) /\ BaseHolds(s, SpanAfter(p, e), l.lines)
  BY <1>2 DEF Refused
<1>4. file.lines \in Seq(Texts)
  BY DEF DataInv
<1>5. /\ IsPin(q, kind) /\ q.live = p.live /\ q.open = p.open /\ q.verdict = p.verdict
      /\ q.suggest = IF Suggests(e) THEN e.suggest ELSE p.suggest
      /\ SpanAfter(p, e) /= {} => q.place.sort = "lines" /\ SpanAfter(p, e) = {<<q.place.lo, q.place.hi>>}
      /\ (~MovesVerdict(e) /\ build = {}) => /\ q.place = p.place /\ q.anchor = p.anchor /\ q.build = p.build
                                             /\ q.question = p.question /\ q.suggest = p.suggest
  <2>1. q = EvolveEdit(p, e, build)
    BY <1>1
  <2>2. IsChange(e, kind) /\ e.loc /= {Unread} /\ (SetsLines(e) => p.place.sort = "lines")
    BY <1>2, <1>3
  <2> QED BY <1>4, <2>1, <2>2, EvolvedIs
<1>6. ASSUME p.verdict /= {}
      PROVE  /\ q.place = p.place /\ q.anchor = p.anchor /\ q.build = p.build
             /\ q.question = p.question /\ q.suggest = p.suggest
  <2>1. ~MovesVerdict(e)
    BY <1>3, <1>6
  <2>2. build = {}
    BY <1>2, <2>1 DEF MovesVerdict, Reshapes
  <2> QED BY <1>5, <2>1, <2>2
<1>7. TargetIsTrue(q)
  BY <1>5, <1>6 DEF TargetIsTrue
<1>8. ASSUME NEW s \in q.suggest \ p.suggest PROVE Fits(r, q, s)
  <2>1. Suggests(e) /\ s \in e.suggest
    BY <1>5, <1>8
  <2>2. p.verdict = {}
    BY <1>3, <2>1 DEF MovesVerdict
  <2>3. SpanAfter(p, e) /= {} /\ s.text /= s.base /\ BaseHolds(s, SpanAfter(p, e), l.lines)
    BY <1>3, <2>1 DEF CheckSuggestion
  <2>4. The(SpanAfter(p, e)) = <<q.place.lo, q.place.hi>> /\ q.place.sort = "lines"
    BY <1>5, <2>3, OnlyOne
  <2>5. LinesText(l.lines, q.place.lo, q.place.hi) = {s.base}
    BY <2>3, <2>4 DEF BaseHolds
  <2>6. l.lines \in r.texts
    BY <1>2, <2>1
  <2> QED BY <1>2, <1>3, <1>5, <2>1, <2>2, <2>3, <2>4, <2>5, <2>6 DEF Fits
<1> QED BY <1>5, <1>6, <1>7, <1>8

LEMMA WriteEditKeeps ==
  ASSUME Inv, NEW c \in Clients, WriteEdit(c)
  PROVE  Inv' /\ Good
<1>1. PICK r : r = req[c]
  OBVIOUS
<1>2. PICK l \in lock : l.by = c
  BY DEF WriteEdit, Inv, LockInv
<1>3. The(lock) = l /\ lock = {l}
  <2>1. lock = {The(lock)}
    BY <1>2 DEF Inv, LockInv
  <2> QED BY <1>2, <2>1
<1>4. /\ Accepted(l, r) /\ ArePins(l.pins, kind) /\ DOMAIN l.pins = DOMAIN pins
      /\ \A i \in DOMAIN pins : Reread(l.lines, pins[i], l.pins[i])
  BY <1>1, <1>2 DEF Inv, LockInv, InsideInv
<1>5. r.pid \in DOMAIN pins /\ r.do = "edit"
  <2>1. r.do = "edit" /\ r /= Idle
    BY <1>4 DEF Accepted, IsEdit
  <2>2. RequestInv(r)
    BY <1>1 DEF Inv, RequestsInv
  <2> QED BY <2>1, <2>2 DEF RequestInv, IsAdd, EditInv
<1>6. PICK p : p = l.pins[r.pid]
  OBVIOUS
<1>7. DataInv
  BY DEF Inv
<1>8. \A i \in DOMAIN pins : IsPin(l.pins[i], kind) /\ TargetIsTrue(l.pins[i])
  <2>1. \A x \in Range(pins) : TargetIsTrue(x)
    BY <1>7 DEF DataInv, PageTargetsAreTrue, TargetIsTrue
  <2>2. \A i \in DOMAIN pins : TargetIsTrue(pins[i])
    BY <2>1, TargetsAreTrue
  <2>3. \A i \in DOMAIN pins : IsPin(l.pins[i], kind)
    BY <1>4, PinsSequence
  <2> QED BY <1>4, <2>2, <2>3, RereadTarget
<1>9. PICK q : q = EvolveEdit(p, r.change, r.build)
  OBVIOUS
<1>10. /\ IsPin(q, kind) /\ TargetIsTrue(q)
       /\ q.verdict = p.verdict
       /\ p.verdict /= {} => /\ q.place = p.place /\ q.anchor = p.anchor /\ q.build = p.build
                             /\ q.question = p.question /\ q.suggest = p.suggest
       /\ \A s \in q.suggest \ p.suggest : Fits(r, q, s)
  BY <1>4, <1>5, <1>6, <1>7, <1>8, <1>9, EditWritten
<1>11. PICK ps : IsReplaced(ps, l.pins, r.pid, q)
  BY DEF IsReplaced
<1>12. /\ pins' = ps /\ lock' = {} /\ req' = [req EXCEPT ![c] = Idle]
       /\ UNCHANGED <<kind, file, contents, version, entry>>
  BY <1>1, <1>3, <1>6, <1>9, <1>11 DEF WriteEdit, environment, IsReplaced
<1>13. /\ ArePins(ps, kind) /\ DOMAIN ps = DOMAIN pins
       /\ \A j \in DOMAIN pins : ps[j] = IF j = r.pid THEN q ELSE l.pins[j]
  BY <1>4, <1>5, <1>10, <1>11, PinReplaced
<1>14. /\ req' = [d \in Clients |-> req'[d]]
       /\ \A d \in Clients : (req'[d] = req[d] \/ req'[d] = Idle) /\ req'[d].at /= "anchor"
       /\ \A d \in Clients : Ends(d) => d = c
  <2>1. \A d \in Clients : req[d].at = "anchor" => d = c
    BY <1>2, <1>3 DEF Inv, LockInv
  <2> QED BY <1>12, <2>1 DEF Inv, RequestsInv, Idle, Ends
<1>15. Inv'
  <2>1. \A j \in DOMAIN ps : TargetIsTrue(ps[j])
    BY <1>8, <1>10, <1>13
  <2> QED BY <1>12, <1>13, <1>14, <2>1, PinsStep
<1>16. \A i \in DOMAIN pins : Stands(pins[i], l.pins[i]) /\ l.pins[i].suggest = pins[i].suggest
  <2>1. FoundLines = l.lines
    BY <1>3 DEF FoundLines
  <2> QED BY <1>4, <2>1, RereadStands
<1>17. StandStep
  <2>1. ASSUME NEW i \in DOMAIN pins PROVE Stands(pins[i], ps[i])
    <3>1. CASE i = r.pid
      <4>1. Stands(pins[i], p) /\ ps[i] = q
        BY <1>6, <1>13, <1>16, <3>1
      <4> QED BY <1>10, <4>1 DEF Stands, OnlyFollows
    <3>2. CASE i /= r.pid
      BY <1>13, <1>16, <3>2
    <3> QED BY <3>1, <3>2
  <2> QED BY <1>12, <2>1 DEF StandStep
<1>18. TimeStep
  BY <1>1, <1>5, <1>14 DEF TimeStep
<1>19. FitStep
  <2>1. ASSUME NEW i \in DOMAIN ps, NEW s \in ps[i].suggest \ Earlier(i) PROVE Fits(r, ps[i], s)
    <3>1. Earlier(i) = l.pins[i].suggest /\ i \in DOMAIN pins
      BY <1>13, <1>16 DEF Earlier
    <3>2. CASE i = r.pid
      BY <1>6, <1>10, <1>13, <2>1, <3>1, <3>2
    <3>3. CASE i /= r.pid
      BY <1>13, <2>1, <3>1, <3>3
    <3> QED BY <3>2, <3>3
  <2> QED BY <1>1, <1>12, <1>14, <2>1 DEF FitStep
<1> QED BY <1>15, <1>17, <1>18, <1>19 DEF Good

-----------------------------------------------------------------------------
(* The author, the builds, and the other transactions.                       *)

(* A line is put in, taken out or written anew.                              *)
LEMMA LinesWritten ==
  ASSUME NEW lines \in Seq(Texts), NEW i \in 1..(Len(lines) + 1), NEW t \in Texts
  PROVE  /\ InsertAt(lines, i, t) \in Seq(Texts)
         /\ i \in DOMAIN lines => RemoveAt(lines, i) \in Seq(Texts) /\ [lines EXCEPT ![i] = t] \in Seq(Texts)
<1>1. Len(lines) \in Nat /\ DOMAIN lines = 1..Len(lines) /\ i \in Int /\ 1 <= i /\ i <= Len(lines) + 1
  BY LenProperties
<1>2. SubSeq(lines, 1, i - 1) \in Seq(Texts) /\ SubSeq(lines, i, Len(lines)) \in Seq(Texts)
  <2>1. \A k \in 1..(i - 1) : k \in 1..Len(lines)
    BY <1>1
  <2>2. \A k \in i..Len(lines) : k \in 1..Len(lines)
    BY <1>1
  <2> QED BY <1>1, <2>1, <2>2, SubSeqProperties
<1>3. SubSeq(lines, i + 1, Len(lines)) \in Seq(Texts)
  BY <1>1, SubSeqProperties
<1>4. <<t>> \in Seq(Texts)
  OBVIOUS
<1>5. InsertAt(lines, i, t) \in Seq(Texts)
  BY <1>2, <1>4, ConcatProperties DEF InsertAt
<1>6. RemoveAt(lines, i) \in Seq(Texts)
  BY <1>2, <1>3, ConcatProperties DEF RemoveAt
<1>7. i \in DOMAIN lines => [lines EXCEPT ![i] = t] \in Seq(Texts)
  BY <1>1, ExceptSeq
<1> QED BY <1>5, <1>6, <1>7

(* The histories a request carries grow, and nothing else of it changes.     *)
IsShown(x, r, lines) == x = Shown(r, lines)
LEMMA ShownIs ==
  ASSUME Inv, NEW r, RequestInv(r), NEW lines, file'.lines = lines,
         UNCHANGED <<kind, contents, version, pins>>, NEW x, IsShown(x, r, lines)
  PROVE  /\ RequestInv(x)' /\ (x = Idle => r = Idle) /\ x.at = r.at
         /\ \A l : Accepted(l, r) => Accepted(l, x)'
<1>1. CASE r = Idle
  <2>1. x = Idle
    BY <1>1 DEF Shown, IsShown
  <2>2. \A l : ~Accepted(l, r)
    BY <1>1 DEF Accepted, IsEdit
  <2> QED BY <1>1, <2>1, <2>2 DEF RequestInv
<1>2. CASE IsAdd(r, kind) /\ AddInv(r)
  <2>1. \A v : AnswerOf(v)' = AnswerOf(v) /\ (IsVersion(v) => IsVersion(v)')
    BY DEF AnswerOf, IsVersion
  <2>2. /\ IsAddRecord(x) /\ (\A f \in AddFields \ {"texts"} : x[f] = r[f])
        /\ r.texts \subseteq x.texts /\ (r.texts /= {} => lines \in x.texts)
    BY <1>2 DEF IsShown, Shown, IsAdd, IsAddRecord, AddFields
  <2>3. /\ x.at = r.at /\ x.do = r.do /\ x.place = r.place /\ x.verdict = r.verdict /\ x.question = r.question
        /\ x.suggest = r.suggest /\ x.lines = r.lines /\ x.holds = r.holds /\ x.held = r.held /\ x.sent = r.sent
        /\ x.screen = r.screen /\ x.keys = r.keys /\ x.version = r.version /\ x.answer = r.answer
    BY <2>2 DEF AddFields
  <2>4. IsAdd(x, kind)
    BY <1>2, <2>2, <2>3 DEF IsAdd, Idle
  <2>5. x.verdict /= {} => WordsTold(x)'
    <3>1. x.verdict /= {} => WordsTold(r)
      BY <1>2, <2>3 DEF AddInv
    <3> QED BY <2>1, <2>3, <3>1 DEF WordsTold
  <2>6. RootRead(x)'
    BY <1>2, <2>3 DEF AddInv, RootRead, BuildOf
  <2>7. Decided(x)'
    <3>1. \A s : DecideNewSuggestion(s, r.place, r.lines)' <=> DecideNewSuggestion(s, r.place, r.lines)
      BY DEF DecideNewSuggestion, CheckSuggestion, TakesSuggestions
    <3>2. Decided(r)
      BY <1>2 DEF AddInv
    <3> QED BY <2>2, <2>3, <3>1, <3>2 DEF Decided
  <2>8. RequestInv(x)'
    BY <1>2, <2>3, <2>4, <2>5, <2>6, <2>7 DEF RequestInv, AddInv
  <2>9. \A l : ~Accepted(l, r)
    BY <1>2 DEF Accepted, IsEdit, IsAdd
  <2>10. r /= Idle /\ x /= Idle
    BY <1>2, <2>4 DEF IsAdd
  <2> QED BY <2>3, <2>8, <2>9, <2>10
<1>3. CASE IsEdit(r, kind) /\ EditInv(r)
  <2>1. /\ IsEditRecord(x) /\ (\A f \in EditFields \ {"texts"} : x[f] = r[f])
        /\ r.texts \subseteq x.texts /\ (r.texts /= {} => lines \in x.texts)
    BY <1>3 DEF IsShown, Shown, IsEdit, IsEditRecord, EditFields
  <2>2. x.at = r.at /\ x.do = r.do /\ x.pid = r.pid /\ x.change = r.change /\ x.base = r.base /\ x.build = r.build
    BY <2>1 DEF EditFields
  <2>3. IsEdit(x, kind)
    BY <1>3, <2>1, <2>2 DEF IsEdit, Idle
  <2>4. EditInv(x)'
    BY <1>3, <2>1, <2>2 DEF EditInv
  <2>5. RequestInv(x)'
    BY <2>3, <2>4 DEF RequestInv
  <2>6. ASSUME NEW l, Accepted(l, r) PROVE Accepted(l, x)'
    <3>1. Accepted(l, x)
      BY <2>1, <2>2, <2>3, <2>6 DEF Accepted
    <3> QED BY <3>1, AcceptedStays
  <2> QED BY <1>3, <2>2, <2>3, <2>5, <2>6 DEF IsEdit
<1> QED BY <1>1, <1>2, <1>3 DEF RequestInv

LEMMA WriteSourceKeeps ==
  ASSUME Inv, WriteSource
  PROVE  Inv' /\ Quiet
<1>1. PICK lines : /\ lines \in Seq(Texts) /\ file'.lines = lines
                   /\ req' = [c \in Clients |-> Shown(req[c], lines)]
  <2>1. file.lines \in Seq(Texts)
    BY DEF Inv, DataInv
  <2>2. PICK i \in 1..(Len(file.lines) + 1), t \in Texts \ Range(file.lines) :
          \E lines \in {InsertAt(file.lines, i, t)}
                       \cup (IF i \in DOMAIN file.lines THEN {RemoveAt(file.lines, i), [file.lines EXCEPT ![i] = t]} ELSE {}) :
             /\ file' = [lines |-> lines, mtime |-> file.mtime + 1]
             /\ req' = [c \in Clients |-> Shown(req[c], lines)]
    BY DEF WriteSource
  <2>3. PICK lines : 
             /\ lines \in {InsertAt(file.lines, i, t)}
                       \cup (IF i \in DOMAIN file.lines THEN {RemoveAt(file.lines, i), [file.lines EXCEPT ![i] = t]} ELSE {})
             /\ file' = [lines |-> lines, mtime |-> file.mtime + 1]
             /\ req' = [c \in Clients |-> Shown(req[c], lines)]
    BY <2>2
  <2>4. \/ lines = InsertAt(file.lines, i, t)
        \/ i \in DOMAIN file.lines /\ lines = RemoveAt(file.lines, i)
        \/ i \in DOMAIN file.lines /\ lines = [file.lines EXCEPT ![i] = t]
    BY <2>3
  <2>5. lines \in Seq(Texts)
    BY <2>1, <2>4, LinesWritten
  <2> QED BY <2>3, <2>5
<1>2. UNCHANGED <<kind, contents, version, entry, screen, pins, lock>>
  BY DEF WriteSource
<1>3. ASSUME NEW c \in Clients
      PROVE  /\ RequestInv(req[c])' /\ (req'[c] = Idle => req[c] = Idle) /\ req'[c].at = req[c].at
             /\ \A l : Accepted(l, req[c]) => Accepted(l, req[c])'
  <2>1. PICK r, x : r = req[c] /\ x = req'[c]
    OBVIOUS
  <2>2. RequestInv(r) /\ IsShown(x, r, lines)
    BY <1>1, <2>1 DEF Inv, RequestsInv, IsShown
  <2>3. /\ RequestInv(x)' /\ (x = Idle => r = Idle) /\ x.at = r.at
        /\ \A l : Accepted(l, r) => Accepted(l, x)'
    BY <1>1, <1>2, <2>2, ShownIs
  <2> QED BY <2>1, <2>3
<1>4. DataInv'
  BY <1>1, <1>2 DEF Inv, DataInv, IsVersion, PageTargetsAreTrue
<1>5. EntryInv'
  BY <1>2, EntryStays DEF Inv
<1>6. RequestsInv'
  BY <1>1, <1>3 DEF RequestsInv
<1>7. LockInv'
  BY <1>2, <1>3 DEF Inv, LockInv, InsideInv
<1>8. Quiet
  BY <1>2, <1>3 DEF Quiet, Ends
<1> QED BY <1>4, <1>5, <1>6, <1>7, <1>8 DEF Inv

IsTold(x, r, answer) == x = Told(r, answer)
LEMMA ToldIs ==
  ASSUME Inv, NEW r, RequestInv(r), NEW answer, AnswerOf(version)' = answer,
         \A v : IsVersion(v) => AnswerOf(v)' = AnswerOf(v) /\ IsVersion(v)',
         UNCHANGED <<kind, file, pins>>, NEW x, IsTold(x, r, answer)
  PROVE  /\ RequestInv(x)' /\ (x = Idle => r = Idle) /\ x.at = r.at
         /\ \A l : Accepted(l, r) => Accepted(l, x)'
<1>1. CASE r = Idle
  <2>1. x = Idle
    BY <1>1 DEF Told, IsTold
  <2>2. \A l : ~Accepted(l, r)
    BY <1>1 DEF Accepted, IsEdit
  <2> QED BY <1>1, <2>1, <2>2 DEF RequestInv
<1>2. CASE IsAdd(r, kind) /\ AddInv(r)
  <2>1. /\ IsAddRecord(x) /\ (\A f \in AddFields \ {"held"} : x[f] = r[f])
        /\ r.held \subseteq x.held /\ (r.held /= {} => answer \in x.held)
    BY <1>2 DEF IsTold, Told, IsAdd, IsAddRecord, AddFields
  <2>2. /\ x.at = r.at /\ x.do = r.do /\ x.place = r.place /\ x.verdict = r.verdict /\ x.question = r.question
        /\ x.suggest = r.suggest /\ x.lines = r.lines /\ x.holds = r.holds /\ x.texts = r.texts /\ x.sent = r.sent
        /\ x.screen = r.screen /\ x.keys = r.keys /\ x.version = r.version /\ x.answer = r.answer
    BY <2>1 DEF AddFields
  <2>3. IsAdd(x, kind)
    BY <1>2, <2>1, <2>2 DEF IsAdd, Idle
  <2>4. ASSUME x.verdict /= {} PROVE WordsTold(x)'
    <3>1. WordsTold(r)
      BY <1>2, <2>2, <2>4 DEF AddInv
    <3>2. answer \in x.held
      BY <2>1, <3>1 DEF WordsTold
    <3>3. r.at \in {"lookup", "load", "publish"} =>
             IsVersion(r.version)' /\ AnswerOf(r.version)' = AnswerOf(r.version) /\ AnswerOf(r.version) \in x.held
      BY <2>1, <3>1 DEF WordsTold
    <3> QED BY <2>1, <2>2, <3>1, <3>2, <3>3 DEF WordsTold
  <2>5. RootRead(x)'
    BY <1>2, <2>2 DEF AddInv, RootRead, BuildOf
  <2>6. Decided(x)'
    <3>1. \A s : DecideNewSuggestion(s, r.place, r.lines)' <=> DecideNewSuggestion(s, r.place, r.lines)
      BY DEF DecideNewSuggestion, CheckSuggestion, TakesSuggestions
    <3>2. Decided(r)
      BY <1>2 DEF AddInv
    <3> QED BY <2>2, <3>1, <3>2 DEF Decided
  <2>7. RequestInv(x)'
    BY <1>2, <2>2, <2>3, <2>4, <2>5, <2>6 DEF RequestInv, AddInv
  <2>8. \A l : ~Accepted(l, r)
    BY <1>2 DEF Accepted, IsEdit, IsAdd
  <2>9. r /= Idle /\ x /= Idle
    BY <1>2, <2>3 DEF IsAdd
  <2> QED BY <2>2, <2>7, <2>8, <2>9
<1>3. CASE IsEdit(r, kind) /\ EditInv(r)
  <2>1. x = r
    BY <1>3 DEF Told, IsTold, IsEdit
  <2>2. RequestInv(r)'
    BY <1>3 DEF RequestInv, EditInv
  <2>3. \A l : Accepted(l, r) => Accepted(l, r)'
    BY AcceptedStays
  <2> QED BY <2>1, <2>2, <2>3
<1> QED BY <1>1, <1>2, <1>3 DEF RequestInv

LEMMA WriteWordsKeeps ==
  ASSUME Inv, WriteWords
  PROVE  Inv' /\ Quiet
<1>1. UNCHANGED <<kind, file, entry, screen, pins, lock>>
  BY DEF WriteWords
<1>2. contents \in Seq(Words[kind]) /\ Len(contents) \in Nat
  BY LenProperties DEF Inv, DataInv
<1>3. /\ contents' \in Seq(Words[kind]) /\ IsVersion(version)'
      /\ Len(contents') \in Nat /\ Len(contents) <= Len(contents')
      /\ \A n \in 1..Len(contents) : contents'[n] = contents[n]
  <2>1. CASE \E raw \in Words[kind] : contents' = Append(contents, raw) /\ version' = At(Len(contents) + 1)
    <3>1. PICK raw \in Words[kind] : contents' = Append(contents, raw) /\ version' = At(Len(contents) + 1)
      BY <2>1
    <3>2. PICK now : now = Append(contents, raw)
      OBVIOUS
    <3>3. now \in Seq(Words[kind]) /\ Len(now) = Len(contents) + 1 /\ \A n \in 1..Len(contents) : now[n] = contents[n]
      BY <1>2, <3>2, AppendProperties
    <3>4. Len(contents) + 1 \in 1..Len(now) /\ Len(now) \in Nat /\ Len(contents) <= Len(now)
      BY <1>2, <3>3
    <3>5. contents' = now
      BY <3>1, <3>2
    <3> QED BY <3>1, <3>3, <3>4, <3>5 DEF IsVersion
  <2>2. CASE version' \in {Absent, Unopened} /\ UNCHANGED contents
    BY <1>2, <2>2 DEF IsVersion
  <2> QED BY <2>1, <2>2 DEF WriteWords
<1>4. ASSUME NEW v, IsVersion(v) PROVE AnswerOf(v)' = AnswerOf(v) /\ IsVersion(v)'
  <2>1. CASE v \in {Absent, Unopened}
    BY <2>1 DEF AnswerOf, IsVersion
  <2>2. CASE v \notin {Absent, Unopened}
    <3>1. PICK n \in 1..Len(contents) : v = At(n)
      BY <1>4, <2>2 DEF IsVersion
    <3>2. v[2] = n
      BY <3>1 DEF At
    <3>3. contents'[v[2]] = contents[v[2]]
      BY <1>3, <3>2
    <3>4. n \in 1..Len(contents')
      BY <1>2, <1>3, <3>1
    <3>5. AnswerOf(v)' = AnswerOf(v)
      BY <2>2, <3>3 DEF AnswerOf
    <3> QED BY <3>1, <3>4, <3>5 DEF IsVersion
  <2> QED BY <2>1, <2>2
<1>5. PICK answer : answer = AnswerOf(version)'
  OBVIOUS
<1>6. req' = [c \in Clients |-> Told(req[c], answer)]
  BY <1>5 DEF WriteWords
<1>7. ASSUME NEW c \in Clients
      PROVE  /\ RequestInv(req[c])' /\ (req'[c] = Idle => req[c] = Idle) /\ req'[c].at = req[c].at
             /\ \A l : Accepted(l, req[c]) => Accepted(l, req[c])'
  <2>1. PICK r, x : r = req[c] /\ x = req'[c]
    OBVIOUS
  <2>2. RequestInv(r) /\ IsTold(x, r, answer)
    BY <1>6, <2>1 DEF Inv, RequestsInv, IsTold
  <2>3. /\ RequestInv(x)' /\ (x = Idle => r = Idle) /\ x.at = r.at
        /\ \A l : Accepted(l, r) => Accepted(l, x)'
    BY <1>1, <1>4, <1>5, <2>2, ToldIs
  <2> QED BY <2>1, <2>3
<1>8. DataInv'
  BY <1>1, <1>3 DEF Inv, DataInv, PageTargetsAreTrue
<1>9. EntryInv'
  <2>1. \A e \in entry : IsVersion(e.version)' /\ e.answer = AnswerOf(e.version)'
    BY <1>4 DEF Inv, EntryInv
  <2> QED BY <1>1, <2>1 DEF EntryInv
<1>10. RequestsInv'
  BY <1>6, <1>7 DEF RequestsInv
<1>11. LockInv'
  BY <1>1, <1>7 DEF Inv, LockInv, InsideInv
<1>12. Quiet
  BY <1>1, <1>7 DEF Quiet, Ends
<1> QED BY <1>8, <1>9, <1>10, <1>11, <1>12 DEF Inv

(* A build that is published, or nothing at all.                             *)
LEMMA NothingWritten ==
  ASSUME Inv, UNCHANGED <<kind, file, contents, version, entry, pins, req, lock>>
  PROVE  Inv' /\ Quiet
<1>1. DataInv' /\ EntryInv'
  BY DataStays, EntryStays DEF Inv
<1>2. ASSUME NEW c \in Clients PROVE RequestInv(req[c])'
  <2>1. PICK r : r = req[c]
    OBVIOUS
  <2>2. RequestInv(r)'
    BY <2>1, RequestStays DEF Inv, RequestsInv
  <2> QED BY <2>1, <2>2
<1>3. RequestsInv'
  BY <1>2 DEF Inv, RequestsInv
<1>4. ASSUME NEW l \in lock PROVE InsideInv(l)'
  <2>1. InsideInv(l)
    BY <1>4 DEF Inv, LockInv
  <2>2. PICK r : r = req[l.by]
    OBVIOUS
  <2>3. Accepted(l, r)'
    BY <2>1, <2>2, AcceptedStays DEF InsideInv
  <2> QED BY <2>1, <2>2, <2>3 DEF InsideInv
<1>5. LockInv'
  BY <1>4 DEF Inv, LockInv
<1>6. Quiet
  BY DEF Quiet, Ends
<1> QED BY <1>1, <1>3, <1>5, <1>6 DEF Inv

(* A pin is closed, reopened, dropped or restored: nothing else of it changes. *)
Turned(p, q) == IsPinRecord(q) /\ q.live \in BOOLEAN /\ q.open \in BOOLEAN
                /\ \A f \in PinFields \ {"live", "open", "rev"} : q[f] = p[f]
LEMMA TurnKeeps ==
  ASSUME Inv, NEW i \in DOMAIN pins, NEW q, Turned(Synced[i], q), Turn(i, q)
  PROVE  Inv' /\ Good
<1>1. PICK synced : synced = Synced
  OBVIOUS
<1>2. /\ ArePins(synced, kind) /\ DOMAIN synced = DOMAIN pins /\ Len(synced) = Len(pins)
      /\ \A j \in DOMAIN pins : TargetIsTrue(synced[j]) /\ Reread(file.lines, pins[j], synced[j]) /\ IsPin(synced[j], kind)
  BY <1>1, SyncedNow
<1>3. PICK ps : IsReplaced(ps, synced, i, q)
  BY DEF IsReplaced
<1>4. pins' = ps /\ lock = {} /\ UNCHANGED <<kind, file, contents, version, entry, req, lock>>
  BY <1>1, <1>3 DEF Turn, IsReplaced
<1>5. PICK p : p = synced[i]
  OBVIOUS
<1>6. /\ IsPinRecord(q) /\ q.live \in BOOLEAN /\ q.open \in BOOLEAN
      /\ q.place = p.place /\ q.verdict = p.verdict /\ q.question = p.question /\ q.suggest = p.suggest
      /\ q.stale = p.stale /\ q.anchor = p.anchor /\ q.build = p.build
  BY <1>1, <1>5 DEF Turned, PinFields
<1>7. IsPin(q, kind) /\ TargetIsTrue(q)
  BY <1>2, <1>5, <1>6 DEF IsPin, TargetIsTrue
<1>8. ArePins(ps, kind) /\ DOMAIN ps = DOMAIN pins /\ \A j \in DOMAIN pins : ps[j] = IF j = i THEN q ELSE synced[j]
  BY <1>2, <1>3, <1>7, PinReplaced
<1>9. Inv'
  <2>1. \A j \in DOMAIN ps : TargetIsTrue(ps[j])
    BY <1>2, <1>7, <1>8
  <2>2. /\ req' = [d \in Clients |-> req'[d]]
        /\ \A d \in Clients : (req'[d] = req[d] \/ req'[d] = Idle) /\ req'[d].at /= "anchor"
    BY <1>4, NobodyInside DEF Inv, RequestsInv
  <2> QED BY <1>4, <1>8, <2>1, <2>2, PinsStep
<1>10. StandStep
  <2>1. FoundLines = file.lines
    BY <1>4 DEF FoundLines
  <2>2. \A j \in DOMAIN pins : Stands(pins[j], synced[j])
    BY <1>2, <2>1, RereadStands
  <2>3. Stands(pins[i], q)
    BY <1>5, <1>6, <2>2 DEF Stands, OnlyFollows
  <2> QED BY <1>4, <1>8, <2>2, <2>3 DEF StandStep
<1>11. TimeStep /\ FitStep
  BY <1>4 DEF TimeStep, FitStep, Ends
<1> QED BY <1>9, <1>10, <1>11 DEF Good

LEMMA OthersKeep ==
  ASSUME Inv, NEW i \in DOMAIN pins, Close(i) \/ Reopen(i) \/ DropPin(i) \/ Restore(i)
  PROVE  Inv' /\ Good
<1>1. PICK p : p = Synced[i]
  OBVIOUS
<1>2. IsPin(p, kind)
  <2>1. PICK synced : synced = Synced
    OBVIOUS
  <2>2. IsPin(synced[i], kind)
    BY <2>1, SyncedNow
  <2> QED BY <1>1, <2>1, <2>2
<1>3. PICK rev : rev = p.rev + 1
  OBVIOUS
<1>4. PICK q : /\ q \in {[p EXCEPT !.open = FALSE, !.rev = rev], [p EXCEPT !.open = TRUE, !.rev = rev],
                         [p EXCEPT !.live = FALSE], [p EXCEPT !.live = TRUE, !.rev = rev]}
               /\ Turn(i, q)
  BY <1>1, <1>3 DEF Close, Reopen, DropPin, Restore
<1>5. Turned(p, q)
  BY <1>2, <1>4 DEF Turned, IsPin, IsPinRecord, PinFields
<1> QED BY <1>1, <1>4, <1>5, TurnKeeps

-----------------------------------------------------------------------------
(* The document.                                                             *)

LEMMA InitInv == ASSUME Init PROVE Inv
<1>1. Len(<<>>) = 0 /\ <<>> \in Seq(Words[kind])
  BY EmptySeq
<1>2. file.lines \in Seq(Texts) /\ kind \in Kinds
  BY TextsAssumption DEF Init
<1>3. contents \in Seq(Words[kind]) /\ IsVersion(version)
  <2>1. CASE contents = <<>> /\ version = Absent
    BY <1>1, <2>1 DEF IsVersion
  <2>2. CASE contents \in {<<raw>> : raw \in Words[kind]} /\ version = At(1)
    <3>1. PICK raw \in Words[kind] : contents = <<raw>>
      BY <2>2
    <3>2. PICK S : S = Words[kind]
      OBVIOUS
    <3>4. raw \in S
      BY <3>1, <3>2
    <3>3. <<raw>> \in Seq(S) /\ Len(<<raw>>) = 1
      BY <3>4
    <3> QED BY <2>2, <3>1, <3>2, <3>3 DEF IsVersion
  <2> QED BY <2>1, <2>2 DEF Init
<1>4. ArePins(pins, kind)
  <2>1. pins = [i \in 1..0 |-> pins[i]]
    BY DEF Init
  <2> QED BY <2>1 DEF ArePins
<1>5. PageTargetsAreTrue
  BY DEF Init, PageTargetsAreTrue, Range
<1>6. EntryInv
  BY <1>3 DEF Init, EntryInv
<1>7. RequestsInv /\ LockInv
  BY DEF Init, RequestsInv, RequestInv, LockInv, Idle
<1> QED BY <1>2, <1>3, <1>4, <1>5, <1>6, <1>7 DEF Inv, DataInv

LEMMA InvStep == ASSUME Inv, [Next]_vars PROVE Inv' /\ Good
<1>1. CASE \E c \in Clients : Step(c)
  <2>1. PICK c \in Clients : Step(c)
    BY <1>1
  <2>2. CASE ArriveAdd(c) \/ Snapshot(c) \/ ReadVersion(c) \/ LookUp(c) \/ Load(c) \/ Publish(c) \/ ReadRoot(c)
             \/ ArriveEdit(c) \/ ReadScope(c)
    <3>1. Inv' /\ Quiet
      BY <2>2, ArriveAddKeeps, SnapshotKeeps, ReadVersionKeeps, LookUpKeeps, LoadKeeps, PublishKeeps, ReadRootKeeps,
         ArriveEditKeeps, ReadScopeKeeps
    <3> QED BY <3>1, QuietIsGood
  <2>3. CASE CommitAdd(c) \/ Transact(c) \/ WriteEdit(c)
    BY <2>3, CommitAddKeeps, TransactKeeps, WriteEditKeeps
  <2> QED BY <2>1, <2>2, <2>3 DEF Step
<1>2. CASE WriteSource \/ WriteWords
  BY <1>2, WriteSourceKeeps, WriteWordsKeeps, QuietIsGood
<1>3. CASE PublishBuild \/ UNCHANGED vars
  <2>1. UNCHANGED <<kind, file, contents, version, entry, pins, req, lock>>
    BY <1>3 DEF PublishBuild, vars
  <2> QED BY <2>1, NothingWritten, QuietIsGood
<1>4. CASE \E i \in DOMAIN pins : Close(i) \/ Reopen(i) \/ DropPin(i) \/ Restore(i)
  BY <1>4, OthersKeep
<1> QED BY <1>1, <1>2, <1>3, <1>4 DEF Next

THEOREM EditingInvHolds == Spec => []Inv
BY InitInv, InvStep, PTL DEF Spec

(* Every verdict on a page's whole figure names that figure on the build its *)
(* pin records, and the server and the viewer name the same current verdict  *)
(* of every target, whatever is closed, moved, dropped, restored, edited,    *)
(* re-matched or published (service.py, _read_verdict and add_pin;           *)
(* pins/verdict.py, superseded_by; viewer/js/verdict.js, verdictOrder).      *)
THEOREM VerdictsAgreeHolds == Spec => []VerdictsAgree
<1>1. ASSUME Inv PROVE VerdictsAgree
  <2>1. ArePins(pins, kind) /\ kind \in Kinds /\ PageTargetsAreTrue
    BY <1>1 DEF Inv, DataInv
  <2>2. OneOrder
    BY <2>1, VerdictOrdersAgree DEF OneOrder
  <2> QED BY <2>1, <2>2 DEF VerdictsAgree
<1> QED BY <1>1, EditingInvHolds, PTL

(* A verdict stands as it was made; one is saved or refused for words the    *)
(* file held since its request came; and a suggestion is stored only on      *)
(* lines its request did read, with the anchor of its base - whatever the    *)
(* author, the builds and the other clients do in between                    *)
(* (pins/editing/rules.py, decide_edit, decide_new_verdict,                  *)
(* decide_new_suggestion; documents/verdicts.py, VerdictFiles).              *)
THEOREM AcceptedStandsHolds == Spec => AcceptedStands
<1>1. ASSUME Inv, [Next]_vars PROVE Good
  BY <1>1, InvStep
<1>2. Good => [\A i \in DOMAIN pins : Stands(pins[i], pins'[i])]_vars
  BY DEF Good, StandStep
<1>3. Good =>
       [\A c \in Clients :
          (req[c] /= Idle /\ req'[c] = Idle /\ req[c].do = "add") =>
             (req[c].verdict /= {} => InTime(c, req[c], Len(pins') > Len(pins)))]_vars
  BY DEF Good, TimeStep, Ends
<1>4. Good =>
       [\A c \in Clients : (req[c] /= Idle /\ req'[c] = Idle) =>
          \A i \in DOMAIN pins' : \A s \in pins'[i].suggest \ Earlier(i) : Fits(req[c], pins'[i], s)]_vars
  BY DEF Good, FitStep, Ends
<1> QED BY <1>1, <1>2, <1>3, <1>4, EditingInvHolds, PTL
    DEF Spec, AcceptedStands, VerdictsStand, VerdictsAreOfTheirTime, SuggestionsFit

(* ---- where a pin is: PinLocation --------------------------------------------- *)

CONSTANTS Listed, FloatKinds, Document, NoWord, LadderEnvs, Gap, Common,
          Drafts, FollowedFiles, Scripts, RawMaps, Drags, Boxes, NewTexts, Home, PinnedRel, OtherRel, Roots,
          DocFolder, Decoy, Private, MaxEdits, MaxMoves, MaxChanges,
          Grid, MinSide, LadderMax, MaxDepth, MaxElements, NoParent
VARIABLES surface, disk, root, links, folders, misled, fmap, picked, pin, seen, truth, own, unseen, edits, moves
Places == INSTANCE PinLocation
(* ---- pins and what a re-match makes of them -------------------------------- *)

(* A stored pin has the fields NewPin gives it.                             *)
PlaceFields == {"file", "fileRel", "lo", "hi", "anchored", "anchor", "syncedAt", "stale", "sync", "rev"}
IsPlaced(p) == p = [f \in PlaceFields |-> p[f]] /\ p.rev \in Nat
(* q is p, or p after a change that raised its rev, or one that kept lines. *)
Follows(p, q) == p.rev <= q.rev /\ (q.rev = p.rev => q.lo = p.lo /\ q.hi = p.hi)
(* q is p re-matched to what the anchor was found at.                       *)
IsRematch(p, q, path, now, to) ==
    /\ IsPlaced(q) /\ Follows(p, q)
    /\ q.file = path /\ q.syncedAt = now.mtime /\ q.anchor = p.anchor /\ (q.anchored <=> p.anchored)
    /\ to = {} => q.lo = p.lo /\ q.hi = p.hi /\ q.stale /\ q.sync = "lost"
    /\ to # {} => q.lo = Places!The(to).lo /\ q.hi = Places!The(to).hi /\ ~q.stale /\ q.sync # "lost"

LEMMA TheOne == ASSUME NEW x PROVE Places!The({x}) = x
BY DEF Places!The

LEMMA TheIn == ASSUME NEW S, S # {} PROVE Places!The(S) \in S
BY DEF Places!The

LEMMA MatchedIs ==
  ASSUME NEW p, IsPlaced(p), NEW to, NEW m, m = Places!Matched(p, to)
  PROVE  /\ IsPlaced(m) /\ m.rev = p.rev /\ m.anchor = p.anchor /\ (m.anchored <=> p.anchored)
         /\ to = {} => m.lo = p.lo /\ m.hi = p.hi /\ m.stale /\ m.sync = "lost"
         /\ to # {} => m.lo = Places!The(to).lo /\ m.hi = Places!The(to).hi /\ ~m.stale
              /\ m.sync # "lost"
<1>1. CASE to = {}
  <2>1. m = [p EXCEPT !.stale = TRUE, !.sync = "lost"] BY <1>1 DEF Places!Matched
  <2> QED BY <1>1, <2>1 DEF IsPlaced, PlaceFields
<1>2. CASE to # {}
  <2>1. PICK t, s : m = [p EXCEPT !.lo = t.lo, !.hi = t.hi, !.stale = FALSE, !.sync = s]
             /\ t = Places!The(to) /\ s \in {"ok", "moved"}
    BY <1>2 DEF Places!Matched
  <2> QED BY <1>2, <2>1 DEF IsPlaced, PlaceFields
<1> QED BY <1>1, <1>2

LEMMA BumpedIs ==
  ASSUME NEW p, IsPlaced(p), NEW m, IsPlaced(m), m.rev = p.rev, NEW b, b = Places!Bumped(p, m)
  PROVE  /\ IsPlaced(b) /\ Follows(p, b) /\ b.anchor = m.anchor /\ (b.anchored <=> m.anchored)
         /\ b.lo = m.lo /\ b.hi = m.hi /\ (b.stale <=> m.stale) /\ b.sync = m.sync
<1>1. CASE <<m.lo, m.hi, m.stale>> # <<p.lo, p.hi, p.stale>>
  <2>1. b = [m EXCEPT !.rev = @ + 1] BY <1>1 DEF Places!Bumped
  <2> QED BY <2>1 DEF IsPlaced, PlaceFields, Follows
<1>2. CASE <<m.lo, m.hi, m.stale>> = <<p.lo, p.hi, p.stale>>
  <2>1. b = m BY <1>2 DEF Places!Bumped
  <2>2. m.lo = p.lo /\ m.hi = p.hi BY <1>2
  <2> QED BY <2>1, <2>2 DEF IsPlaced, Follows
<1> QED BY <1>1, <1>2

LEMMA RematchedIs ==
  ASSUME NEW p, IsPlaced(p), NEW path, NEW now, NEW to,
         to = Places!FollowAnchor(Places!The(p.anchor), p.lo, p.hi, now.lines)
  PROVE  IsRematch(p, Places!Rematched(p, path, now), path, now, to)
<1>1. PICK m : m = Places!Matched(p, to) OBVIOUS
<1>2. PICK b : b = Places!Bumped(p, m) OBVIOUS
<1>3. PICK q : q = Places!Rematched(p, path, now) OBVIOUS
<1>4. q = [b EXCEPT !.file = path, !.syncedAt = now.mtime]
  BY <1>1, <1>2, <1>3 DEF Places!Rematched, Places!Stamped
<1>5. /\ IsPlaced(m) /\ m.rev = p.rev /\ m.anchor = p.anchor /\ (m.anchored <=> p.anchored)
      /\ to = {} => m.lo = p.lo /\ m.hi = p.hi /\ m.stale /\ m.sync = "lost"
      /\ to # {} => m.lo = Places!The(to).lo /\ m.hi = Places!The(to).hi /\ ~m.stale /\ m.sync # "lost"
  BY <1>1, MatchedIs
<1>6. /\ IsPlaced(b) /\ Follows(p, b) /\ b.anchor = m.anchor /\ (b.anchored <=> m.anchored)
      /\ b.lo = m.lo /\ b.hi = m.hi /\ (b.stale <=> m.stale) /\ b.sync = m.sync
  BY <1>2, <1>5, BumpedIs
<1>7. /\ IsPlaced(q) /\ q.file = path /\ q.syncedAt = now.mtime /\ q.anchor = b.anchor
           /\ (q.anchored <=> b.anchored)
      /\ q.lo = b.lo /\ q.hi = b.hi /\ (q.stale <=> b.stale) /\ q.sync = b.sync /\ q.rev = b.rev
  BY <1>4, <1>6 DEF IsPlaced, PlaceFields
<1>8. Follows(p, q)
  BY <1>6, <1>7 DEF Follows
<1> QED BY <1>3, <1>5, <1>6, <1>7, <1>8 DEF IsRematch

(* A pin that gets an anchor where it stands.                               *)
IsAnchored(p, q, now) ==
    /\ IsPlaced(q) /\ Follows(p, q)
    /\ q.file = p.file /\ q.syncedAt = now.mtime /\ q.anchor = Places!AnchorOf(now.lines, p.lo, p.hi)
         /\ q.anchored
    /\ q.lo = p.lo /\ q.hi = p.hi /\ (q.stale <=> p.stale) /\ q.sync = p.sync

(* What a transaction makes of a pin before its own step.                   *)
IsResync(p, q, path) ==
    \/ q = p
    \/ ~p.anchored /\ path = p.file /\ IsAnchored(p, q, disk[path])
    \/ p.anchored /\ p.anchor # {}
       /\ IsRematch(p, q, path, disk[path], Places!FollowAnchor(Places!The(p.anchor), p.lo, p.hi, disk[path].lines))

LEMMA ResyncedIs ==
  ASSUME NEW p, IsPlaced(p), NEW path
  PROVE  IsResync(p, Places!Resync(p, path), path)

<1>1. PICK q : q = Places!Resync(p, path) OBVIOUS
<1>2. CASE ~p.anchored /\ path # p.file
  BY <1>1, <1>2 DEF Places!Resync, IsResync
<1>3. CASE ~p.anchored /\ path = p.file
  <2>1. PICK a, t : a = Places!AnchorOf(disk[path].lines, p.lo, p.hi) /\ t = disk[path].mtime OBVIOUS
  <2>2. q = [p EXCEPT !.anchored = TRUE, !.anchor = a, !.syncedAt = t]
    BY <1>1, <1>3, <2>1 DEF Places!Resync
  <2>3. /\ q = [f \in PlaceFields |-> q[f]] /\ q.rev = p.rev /\ q.lo = p.lo /\ q.hi = p.hi
             /\ q.file = p.file
        /\ q.sync = p.sync /\ q.stale = p.stale
    BY <2>2 DEF IsPlaced, PlaceFields
  <2>4. q.anchor = a /\ q.syncedAt = t
    BY <2>2 DEF IsPlaced, PlaceFields
  <2>5. q.anchored
    BY <2>2 DEF IsPlaced, PlaceFields
  <2>6. IsPlaced(q) /\ Follows(p, q) BY <2>3 DEF IsPlaced, Follows
  <2>7. IsAnchored(p, q, disk[path])
    BY <2>1, <2>3, <2>4, <2>5, <2>6 DEF IsAnchored
  <2> QED BY <1>1, <1>3, <2>7 DEF IsResync
<1>4. CASE p.anchored /\ Places!InSync(p, disk[path], path # p.file)
  BY <1>1, <1>4 DEF Places!Resync, IsResync
<1>5. CASE p.anchored /\ ~Places!InSync(p, disk[path], path # p.file)
  <2>1. q = Places!Rematched(p, path, disk[path]) /\ p.anchor # {}
    BY <1>1, <1>5 DEF Places!Resync, Places!InSync
  <2> QED BY <1>1, <1>5, <2>1, RematchedIs DEF IsResync
<1> QED BY <1>1, <1>2, <1>3, <1>4, <1>5

LEMMA SyncedPlace ==
  ASSUME NEW p, IsPlaced(p)
  PROVE  /\ Places!Locate(p.file, p.fileRel) = {} => Places!Synced(p) = p
         /\ Places!Locate(p.file, p.fileRel) # {}
              => Places!Synced(p) = Places!Resync(p, Places!The(Places!Locate(p.file, p.fileRel)))
         /\ IsPlaced(Places!Synced(p)) /\ Follows(p, Places!Synced(p))
<1>1. IsPlaced(p) /\ Follows(p, p)
  BY DEF Follows, IsPlaced
<1>2. PICK at : at = Places!Locate(p.file, p.fileRel) OBVIOUS
<1>3. Places!Synced(p) = IF at = {} THEN p ELSE Places!Resync(p, Places!The(at))
  BY <1>2 DEF Places!Synced
<1>4. ASSUME NEW path PROVE IsPlaced(Places!Resync(p, path)) /\ Follows(p, Places!Resync(p, path))
  BY <1>1, ResyncedIs DEF IsResync, IsAnchored, IsRematch
<1> QED BY <1>1, <1>2, <1>3, <1>4

LEMMA NewPlaceIs ==
  ASSUME NEW path, NEW rel, NEW lo, NEW hi, NEW anchored, NEW anchor, NEW t, NEW q,
         q = Places!NewPin(path, rel, lo, hi, anchored, anchor, t)
  PROVE  /\ IsPlaced(q) /\ q.file = path /\ q.lo = lo /\ q.hi = hi /\ (q.anchored <=> anchored)
              /\ q.anchor = anchor
         /\ q.syncedAt = t /\ ~q.stale /\ q.sync = "ok"
BY DEF Places!NewPin, IsPlaced, PlaceFields

LEMMA EditedIs ==
  ASSUME NEW p, IsPlaced(p), NEW path, NEW now, NEW lo, NEW hi, NEW q,
         q = Places!Edited(p, path, now, lo, hi)
  PROVE  /\ IsPlaced(q) /\ q.file = path /\ q.lo = lo /\ q.hi = hi /\ q.anchored
              /\ q.anchor = Places!AnchorOf(now.lines, lo, hi)
         /\ q.syncedAt = now.mtime /\ ~q.stale /\ q.sync = "ok"
<1>1. PICK a, r, t : a = Places!AnchorOf(now.lines, lo, hi) /\ r = {Places!RelTo(path, root)}
           /\ t = now.mtime OBVIOUS
<1>2. PICK s : s = [p EXCEPT !.file = path, !.syncedAt = t] OBVIOUS
<1>3. /\ s = [f \in PlaceFields |-> s[f]] /\ s.rev = p.rev /\ s.file = path /\ s.syncedAt = t
  BY <1>2 DEF IsPlaced, PlaceFields
<1>4. q = [s EXCEPT !.lo = lo, !.hi = hi, !.anchored = TRUE, !.anchor = a, !.rev = @ + 1,
                     !.stale = FALSE, !.sync = "ok", !.fileRel = r]
  BY <1>1, <1>2 DEF Places!Edited, Places!Stamped
<1>5. q = [f \in PlaceFields |-> q[f]] /\ q.rev = s.rev + 1
  BY <1>3, <1>4 DEF PlaceFields
<1>6. q.file = path /\ q.lo = lo /\ q.hi = hi /\ q.anchor = a /\ q.syncedAt = t /\ q.sync = "ok"
  BY <1>3, <1>4 DEF PlaceFields
<1>7. q.anchored /\ ~q.stale
  BY <1>3, <1>4 DEF PlaceFields
<1>8. q.rev \in Nat
  BY <1>3, <1>5 DEF IsPlaced
<1> QED BY <1>1, <1>5, <1>6, <1>7, <1>8 DEF IsPlaced

(* ---- what a client saw is no newer than the pin ------------------------------ *)

(* What a client showed is the pin, at a revision it had.                   *)
SeenInv ==
    /\ \A p \in pin : IsPlaced(p) /\ pin = {p}
    /\ \A s \in seen : seen = {s} /\ s.rev \in Nat
    /\ \A s \in seen, p \in pin : s.rev <= p.rev /\ (s.rev = p.rev => s.lo = p.lo /\ s.hi = p.hi)
    /\ pin = {} => seen = {}

LEMMA LegacyPin ==
  ASSUME Places!Init, NEW p \in pin
  PROVE  \E lines \in FollowedFiles : pin = {p} /\ p \in Places!LegacyPins(Places!Content(lines, 1))
BY DEF Places!Init

LEMMA SeenInit == Places!Init => SeenInv
<1> SUFFICES ASSUME Places!Init PROVE SeenInv OBVIOUS
<1>1. seen = {} BY DEF Places!Init
<1>2. ASSUME NEW p \in pin PROVE pin = {p} /\ IsPlaced(p)
  <2>1. pin = {p} /\ \E content : p \in Places!LegacyPins(content)
    BY LegacyPin
  <2>2. PICK lo, hi, anchored, a, t : p = Places!NewPin(Places!PinnedPath, {}, lo, hi, anchored, a, t)
    BY <2>1 DEF Places!LegacyPins
  <2> QED BY <2>1, <2>2, NewPlaceIs
<1> QED BY <1>1, <1>2 DEF SeenInv

LEMMA SeenKept == SeenInv /\ [Places!Next]_Places!vars => SeenInv'
<1> SUFFICES ASSUME SeenInv, [Places!Next]_Places!vars PROVE SeenInv' OBVIOUS
<1>1. ASSUME UNCHANGED pin, seen' \in {seen, {}} PROVE SeenInv'
  BY <1>1 DEF SeenInv
<1>2. CASE Places!Save
  <2>1. PICK path, rel, lo, hi, a, anchor, t : pin' = {Places!NewPin(path, rel, lo, hi, a, anchor, t)}
    BY <1>2 DEF Places!Save
  <2>2. seen = {} /\ seen' = {} BY <1>2 DEF Places!Save, SeenInv
  <2> QED BY <2>1, <2>2, NewPlaceIs DEF SeenInv
<1>3. CASE Places!Sync
  <2>1. PICK p \in pin : IsPlaced(p) /\ pin = {p} BY <1>3 DEF Places!Sync, SeenInv
  <2>2. PICK q : q = Places!Synced(p) OBVIOUS
  <2>3. pin' = {q}
    BY <1>3, <2>1, <2>2, TheOne DEF Places!Sync
  <2>4. seen' = {[rev |-> q.rev, lo |-> q.lo, hi |-> q.hi]}
    BY <1>3, <2>3 DEF Places!Sync
  <2>5. IsPlaced(q) BY <2>1, <2>2, SyncedPlace
  <2> QED BY <2>3, <2>4, <2>5 DEF SeenInv, IsPlaced
<1>4. CASE Places!EditRange
  <2>1. PICK p, path, now, lo, hi : pin' = {Places!Edited(p, path, now, lo, hi)}
             /\ p \in {Places!Synced(q) : q \in pin}
    BY <1>4 DEF Places!EditRange
  <2>2. seen' = {} BY <1>4 DEF Places!EditRange
  <2>3. IsPlaced(p) BY <2>1, SyncedPlace DEF SeenInv
  <2>4. IsPlaced(Places!Edited(p, path, now, lo, hi)) BY <2>3, EditedIs
  <2> QED BY <2>1, <2>2, <2>4 DEF SeenInv
<1>5. CASE Places!Pick BY <1>1, <1>5 DEF Places!Pick
<1>6. CASE Places!Edit BY <1>1, <1>6 DEF Places!Edit
<1>7. CASE Places!MoveCheckout BY <1>1, <1>7 DEF Places!MoveCheckout
<1>8. CASE Places!ServeFrom BY <1>1, <1>8 DEF Places!ServeFrom
<1>9. CASE Places!RemoveFile BY <1>1, <1>9 DEF Places!RemoveFile
<1>10. CASE Places!Relink BY <1>1, <1>10 DEF Places!Relink
<1>11. CASE Places!Restart BY <1>1, <1>11 DEF Places!Restart
<1>12. CASE UNCHANGED Places!vars BY <1>1, <1>12 DEF Places!vars
<1> QED BY <1>2, <1>3, <1>4, <1>5, <1>6, <1>7, <1>8, <1>9, <1>10, <1>11, <1>12 DEF Places!Next

(* A lo/hi edit lands only on a pin whose lines its sender saw, whatever   *)
(* moved them since it read them: EditsLandOnSeenLines, because the rev is *)
(* raised with every change of the lines (SeenInv; pins/location/          *)
(* position.py, resync; pins/editing/rules.py, decide_edit).               *)
THEOREM EditsOnSeenLines == Places!Spec => Places!EditsLandOnSeenLines
<1>1. SeenInv /\ [Places!Next]_Places!vars
      => [Places!EditRange =>
                \A s \in seen : s.lo = Places!Synced(Places!The(pin)).lo
                             /\ s.hi = Places!Synced(Places!The(pin)).hi]_Places!vars
  <2> SUFFICES ASSUME SeenInv, Places!EditRange, NEW s \in seen
               PROVE  s.lo = Places!Synced(Places!The(pin)).lo
                   /\ s.hi = Places!Synced(Places!The(pin)).hi
    OBVIOUS
  <2>1. PICK q \in pin : Places!The(seen).rev = Places!Synced(q).rev
    BY DEF Places!EditRange
  <2>2. Places!The(pin) = q /\ Places!The(seen) = s /\ IsPlaced(q)
    BY TheOne DEF SeenInv
  <2>3. s.rev <= q.rev /\ (s.rev = q.rev => s.lo = q.lo /\ s.hi = q.hi) /\ s.rev \in Nat
        /\ q.rev \in Nat
    BY DEF SeenInv, IsPlaced
  <2>4. PICK r : r = Places!Synced(q) OBVIOUS
  <2>5. Follows(q, r) /\ IsPlaced(r) BY <2>2, <2>4, SyncedPlace
  <2>6. r.rev = q.rev /\ s.rev = q.rev
    BY <2>1, <2>2, <2>3, <2>4, <2>5 DEF Follows, IsPlaced
  <2> QED BY <2>2, <2>3, <2>4, <2>5, <2>6 DEF Follows
<1> QED BY <1>1, SeenInit, SeenKept, PTL DEF Places!Spec, Places!EditsLandOnSeenLines

(* ---- the lines of a file ---------------------------------------------------- *)

(* The lines an author or a client may put in a file.                       *)
FileLines == NewTexts \cup UNION {Places!Range(d) : d \in Drafts \cup Scripts}
(* A file: its lines, the identities they keep through edits, its stamp.    *)
IsFile(c) ==
    /\ c = [lines |-> c.lines, ids |-> c.ids, mtime |-> c.mtime]
    /\ c.lines \in Seq(FileLines) /\ c.ids \in Seq(Int) /\ Len(c.ids) = Len(c.lines) /\ c.mtime \in Int
    /\ \A i, j \in DOMAIN c.ids : c.ids[i] = c.ids[j] => i = j
(* The lines w stand in the file from line at on.                           *)
Standing(c, w, at) == at \in DOMAIN c.ids /\ at + Len(w) - 1 <= Len(c.ids)
    /\ SubSeq(c.ids, at, at + Len(w) - 1) = w
(* The anchor of the lines w: where they are in the file, its ends read so. *)
IsAnchor(a) == a.headOff \in Nat /\ a.tailOff \in Nat
Marks(a, c, w) ==
    /\ a.headOff + a.tailOff < Len(w)
    /\ \A i \in DOMAIN c.ids : c.ids[i] = w[1 + a.headOff] => c.lines[i] = a.head
    /\ \A i \in DOMAIN c.ids : c.ids[i] = w[Len(w) - a.tailOff] => c.lines[i] = a.tail
(* The ends read like no other line.                                        *)
OnlyEnds(a, c) ==
    \A i, j \in DOMAIN c.lines :
        (c.lines[i] = c.lines[j] /\ c.lines[i] \in {a.head, a.tail}) => i = j
(* The pin names exactly where the lines w stand.                           *)
StandsOn(p, c, w) == \A at : Standing(c, w, at) => ~p.stale /\ p.lo = at /\ p.hi = at + Len(w) - 1

LEMMA MaxIn ==
  ASSUME NEW n \in Nat, NEW A, A \subseteq 1..n, A # {}
  PROVE  Places!Max(A) \in A /\ \A j \in A : j <= Places!Max(A)
<1>1. Places!Max(A) = Max(A) BY DEF Places!Max, Max
<1> QED BY <1>1, MaxIs

LEMMA MinIs ==
  ASSUME NEW n \in Nat, NEW A, A \subseteq 1..n, A # {}
  PROVE  Places!Min(A) \in A /\ \A j \in A : Places!Min(A) <= j
<1> DEFINE B == {n + 1 - k : k \in A}
<1>1. B \subseteq 1..n /\ B # {}
  <2>1. \A k \in A : k \in 1..n /\ n + 1 - k \in 1..n
    OBVIOUS
  <2> QED BY <2>1
<1>2. PICK m : m = Places!Max(B) OBVIOUS
<1>3. m \in B /\ \A j \in B : j <= m
  BY <1>1, <1>2, MaxIn
<1>4. PICK k \in A : m = n + 1 - k
  BY <1>3
<1>5. \A j \in A : k <= j
  <2> SUFFICES ASSUME NEW j \in A PROVE k <= j OBVIOUS
  <2>1. n + 1 - j \in B OBVIOUS
  <2>2. n + 1 - j <= n + 1 - k BY <1>3, <1>4, <2>1
  <2>3. j \in Int /\ k \in Int OBVIOUS
  <2> HIDE DEF B
  <2> QED BY <2>2, <2>3
<1> HIDE DEF B
<1> QED BY <1>4, <1>5 DEF Places!Min

LEMMA OfTwo ==
  ASSUME NEW a \in Int, NEW b \in Int
  PROVE  /\ Places!Max({a, b}) = IF a <= b THEN b ELSE a
         /\ Places!Min({a, b}) = IF a <= b THEN a ELSE b
BY DEF Places!Max, Places!Min

(* The identities w are of lines of the file c.                             *)
OutOf(w, c) == w \in Seq(Int) /\ \A k \in DOMAIN w : \E i \in DOMAIN c.ids : w[k] = c.ids[i]

LEMMA OwnIs ==
  ASSUME NEW c, IsFile(c), NEW lo \in Nat, NEW hi \in Nat, 1 <= lo, lo <= hi, NEW w,
         w = Places!OwnOf(c, lo, hi)
  PROVE  /\ OutOf(w, c)
         /\ w # <<>> => hi <= Len(c.lines) /\ Len(w) = hi - lo + 1
              /\ \A k \in 1..Len(w) : w[k] = c.ids[lo + k - 1]
<1>1. PICK ids \in Seq(Int) : ids = c.ids /\ Len(ids) = Len(c.lines) BY DEF IsFile
<1>2. CASE hi <= Len(ids)
  <2>1. w = SubSeq(ids, lo, hi) BY <1>1, <1>2 DEF Places!OwnOf
  <2>2. w \in Seq(Int) /\ Len(w) = hi - lo + 1 /\ \A k \in 1..Len(w) : w[k] = ids[lo + k - 1]
    BY <1>2, <2>1
  <2>3. \A k \in DOMAIN w : k \in 1..Len(w) /\ lo + k - 1 \in DOMAIN ids
    BY <1>2, <2>2
  <2> QED BY <1>1, <1>2, <2>2, <2>3 DEF OutOf
<1>3. CASE ~(hi <= Len(ids))
  <2>1. w = <<>> BY <1>1, <1>3 DEF Places!OwnOf
  <2> QED BY <2>1 DEF OutOf
<1> QED BY <1>2, <1>3

(* a anchors the lines lo..hi of the file c.                                *)
Placing(a, c, lo, hi) ==
    /\ Places!AnchorOf(c.lines, lo, hi) = {a} /\ IsAnchor(a)
    /\ hi <= Len(c.lines) => /\ a.headOff + a.tailOff <= hi - lo
                             /\ c.lines[lo + a.headOff] = a.head /\ c.lines[hi - a.tailOff] = a.tail

LEMMA AnchorPlaces ==
  ASSUME NEW c, IsFile(c), NEW lo \in Nat, NEW hi \in Nat, 1 <= lo, lo <= hi,
         NEW a \in Places!AnchorOf(c.lines, lo, hi)
  PROVE  Placing(a, c, lo, hi)
<1>1. PICK n \in Nat : n = Len(c.lines) BY DEF IsFile
<1>2. PICK top \in Nat : top = Places!Min({hi, n}) /\ top <= hi /\ top <= n /\ (hi <= n => top = hi)
  BY OfTwo
<1>3. PICK body : /\ body \subseteq lo..top /\ body # {}
                  /\ Places!AnchorOf(c.lines, lo, hi) = {[head |-> c.lines[Places!Min(body)],
                                                   tail |-> c.lines[Places!Max(body)],
                                                   headOff |-> Places!Min(body) - lo,
                                                       tailOff |-> hi - Places!Max(body)]}
  <2> DEFINE idx == {i \in lo..top : Places!HasText(c.lines[i])}
             body == IF \E i \in idx : ~Places!Comment(c.lines[i])
                     THEN {i \in idx : ~Places!Comment(c.lines[i])} ELSE idx
  <2>1. body \subseteq lo..top OBVIOUS
  <2>2. Places!AnchorOf(c.lines, lo, hi) = IF body = {} THEN {}
                        ELSE {[head |-> c.lines[Places!Min(body)],
                                                   tail |-> c.lines[Places!Max(body)],
                               headOff |-> Places!Min(body) - lo, tailOff |-> hi - Places!Max(body)]}
    BY <1>1, <1>2 DEF Places!AnchorOf
  <2> HIDE DEF body
  <2>3. body # {} BY <2>2
  <2> QED BY <2>1, <2>2, <2>3
<1>4. body \subseteq 1..top BY <1>3
<1>5. PICK x, y : x = Places!Min(body) /\ y = Places!Max(body) OBVIOUS
<1>6. x \in body /\ y \in body /\ x <= y
  BY <1>3, <1>4, <1>5, MinIs, MaxIn
<1>7. x \in lo..top /\ y \in lo..top BY <1>3, <1>6
<1>8. a = [head |-> c.lines[x], tail |-> c.lines[y], headOff |-> x - lo, tailOff |-> hi - y]
  BY <1>3, <1>5
<1>9. a.headOff \in Nat /\ a.tailOff \in Nat /\ a.head = c.lines[x] /\ a.tail = c.lines[y]
      /\ lo + a.headOff = x /\ hi - a.tailOff = y
  BY <1>2, <1>7, <1>8
<1>10. Places!AnchorOf(c.lines, lo, hi) = {a} BY <1>3
<1>11. a.headOff + a.tailOff <= hi - lo
  BY <1>2, <1>6, <1>7, <1>9
<1> QED BY <1>9, <1>10, <1>11 DEF IsAnchor, Placing

LEMMA AnchorFits ==
  ASSUME NEW c, IsFile(c), NEW lo \in Nat, NEW hi \in Nat, 1 <= lo, lo <= hi,
         NEW a \in Places!AnchorOf(c.lines, lo, hi),
         NEW w, w = Places!OwnOf(c, lo, hi), w # <<>>
  PROVE  Marks(a, c, w) /\ \A at : Standing(c, w, at) => at = lo /\ hi = at + Len(w) - 1
<1>1. hi <= Len(c.lines) /\ Len(w) = hi - lo + 1 /\ \A k \in 1..Len(w) : w[k] = c.ids[lo + k - 1]
  BY OwnIs
<1>2. /\ a.headOff \in Nat /\ a.tailOff \in Nat /\ a.headOff + a.tailOff <= hi - lo
      /\ c.lines[lo + a.headOff] = a.head /\ c.lines[hi - a.tailOff] = a.tail
  BY <1>1, AnchorPlaces DEF IsAnchor, Placing
<1>3. DOMAIN c.ids = 1..Len(c.lines) /\ Len(c.lines) \in Nat /\ \A i,
      j \in DOMAIN c.ids : c.ids[i] = c.ids[j] => i = j
  BY DEF IsFile
<1>4. lo + a.headOff \in DOMAIN c.ids /\ hi - a.tailOff \in DOMAIN c.ids
  BY <1>1, <1>2, <1>3
<1>5. w[1 + a.headOff] = c.ids[lo + a.headOff] /\ w[Len(w) - a.tailOff] = c.ids[hi - a.tailOff]
  <2>1. PICK h \in Nat, t \in Nat, n \in Nat : h = a.headOff /\ t = a.tailOff /\ n = Len(w)
             /\ n = hi - lo + 1 /\ h + t <= hi - lo
    <3>1. hi - lo + 1 \in Nat OBVIOUS
    <3> QED BY <1>1, <1>2, <3>1
  <2>2. 1 + h \in 1..n /\ n - t \in 1..n /\ lo + (1 + h) - 1 = lo + h /\ lo + (n - t) - 1 = hi - t
    <3>1. n = hi - lo + 1 /\ h + t <= hi - lo BY <2>1
    <3>2. 1 + h \in 1..n BY <3>1
    <3>3. n - t \in 1..n BY <3>1
    <3>4. lo + (1 + h) - 1 = lo + h /\ lo + (n - t) - 1 = hi - t BY <3>1
    <3> QED BY <3>2, <3>3, <3>4
  <2>3. w[1 + h] = c.ids[lo + (1 + h) - 1] /\ w[n - t] = c.ids[lo + (n - t) - 1]
    BY <1>1, <2>1, <2>2
  <2> QED BY <2>1, <2>2, <2>3
<1>6. Marks(a, c, w)
  <2>1. a.headOff + a.tailOff < Len(w) BY <1>1, <1>2
  <2> QED BY <1>2, <1>3, <1>4, <1>5, <2>1 DEF Marks
<1>7. ASSUME NEW at, Standing(c, w, at) PROVE at = lo /\ hi = at + Len(w) - 1
  <2>1. at \in DOMAIN c.ids /\ at + Len(w) - 1 <= Len(c.ids) /\ SubSeq(c.ids, at, at + Len(w) - 1) = w
    BY <1>7 DEF Standing
  <2>2. PICK ids \in Seq(Int) : ids = c.ids BY DEF IsFile
  <2>3. w[1] = ids[at]
    <3>1. PICK e \in Nat : e = at + Len(w) - 1 /\ at \in 1..Len(ids) /\ at <= e /\ e <= Len(ids)
      BY <1>1, <1>3, <2>1, <2>2
    <3>2. SubSeq(ids, at, e)[1] = ids[at]
      BY <3>1
    <3> QED BY <2>1, <2>2, <3>1, <3>2
  <2>4. w[1] = ids[lo] BY <1>1, <2>2
  <2>5. lo \in DOMAIN c.ids BY <1>1, <1>3
  <2>6. at = lo BY <1>3, <2>1, <2>2, <2>3, <2>4, <2>5
  <2> QED BY <1>1, <2>6
<1> QED BY <1>6, <1>7

(* ---- where the anchor is found ------------------------------------------------ *)

(* Hidden: sequence facts slow the arithmetic down.                         *)
AreLines(lines) == lines \in Seq(FileLines)
AreIds(w) == w \in Seq(Int)

LEMMA FindLineIs ==
  ASSUME NEW lines, AreLines(lines), NEW needle, NEW near \in Int, NEW f,
         f = Places!FindLine(lines, needle, near)
  PROVE  /\ \A x \in f : f = {x} /\ x \in DOMAIN lines
         /\ \A i \in DOMAIN lines : lines[i] = needle
              /\ (\A j \in DOMAIN lines : lines[j] = needle => j = i) => f = {i}
<1>1. PICK n \in Nat : n = Len(lines) /\ DOMAIN lines = 1..n BY DEF AreLines
<1> DEFINE away(i) == IF i < near THEN near - i ELSE i - near
           found == {i \in DOMAIN lines : lines[i] = needle}
           S == {i \in found : \A j \in found : away(i) <= away(j)}
<1>2. f = IF found = {} THEN {} ELSE {Places!Min(S)}
  BY DEF Places!FindLine
<1>3. found \subseteq 1..n /\ S \subseteq found
  BY <1>1
<1>4. \A i \in found : away(i) \in Nat
  BY <1>3
<1>5. ASSUME found # {} PROVE S # {}
  <2> DEFINE top == n + (IF near < 0 THEN 0 - near ELSE near)
             A == {away(i) + 1 : i \in found}
  <2>1. top + 1 \in Nat /\ \A i \in found : away(i) + 1 \in 1..(top + 1)
    BY <1>3
  <2>2. A \subseteq 1..(top + 1) /\ A # {}
    BY <1>5, <2>1
  <2>3. PICK m : m = Places!Min(A) OBVIOUS
  <2>4. m \in A /\ \A k \in A : m <= k
    <3> HIDE DEF A, top
    <3> QED BY <2>1, <2>2, <2>3, MinIs
  <2>5. PICK i \in found : m = away(i) + 1
    BY <2>4
  <2>6. \A j \in found : away(i) <= away(j)
    <3> SUFFICES ASSUME NEW j \in found PROVE away(i) <= away(j) OBVIOUS
    <3>1. away(j) + 1 \in A OBVIOUS
    <3>2. m <= away(j) + 1 BY <2>4, <3>1
    <3>3. away(i) \in Nat /\ away(j) \in Nat BY <1>4
    <3> HIDE DEF away, A, found
    <3> QED BY <2>5, <3>2, <3>3
  <2> QED BY <2>6
<1>6. \A x \in f : f = {x} /\ x \in DOMAIN lines
  <2> SUFFICES ASSUME NEW x \in f PROVE f = {x} /\ x \in DOMAIN lines OBVIOUS
  <2>1. found # {} /\ f = {Places!Min(S)} BY <1>2
  <2>2. S # {} /\ S \subseteq 1..n BY <1>3, <1>5, <2>1
  <2> HIDE DEF S
  <2>3. Places!Min(S) \in S BY <2>2, MinIs
  <2> QED BY <1>1, <2>1, <2>2, <2>3
<1>7. ASSUME NEW i \in DOMAIN lines, lines[i] = needle, \A j \in DOMAIN lines : lines[j] = needle
             => j = i
      PROVE  f = {i}
  <2>1. found = {i} BY <1>7
  <2>2. S # {} /\ S \subseteq {i} BY <1>3, <1>5, <2>1
  <2>3. S = {i} BY <2>2
  <2>4. i \in Nat BY <1>1
  <2>5. Places!Min({i}) = i BY <2>4 DEF Places!Min
  <2> HIDE DEF S, found
  <2> QED BY <1>2, <2>1, <2>3, <2>5
<1> QED BY <1>6, <1>7

(* m runs from new to the tail of the anchor a, its head found at line h.   *)
TailIs(a, lines, h, new, m) ==
    /\ m.lo = new /\ m.hi \in Nat /\ new <= m.hi
    /\ \A t \in DOMAIN lines :
         (h <= t /\ lines[t] = a.tail /\ (\A j \in DOMAIN lines : lines[j] = a.tail => j = t)
          /\ t + a.tailOff <= Len(lines) /\ new <= t + a.tailOff) => m.hi = t + a.tailOff

LEMMA FollowTailIs ==
  ASSUME NEW lines, AreLines(lines), NEW a, IsAnchor(a), NEW lo \in Int, NEW hi \in Int, NEW h \in Nat,
         NEW new \in Nat, 1 <= new
  PROVE  TailIs(a, lines, h, new, Places!FollowTail(a, lo, hi, lines, h, new))
<1>0. PICK m : m = Places!FollowTail(a, lo, hi, lines, h, new) OBVIOUS
<1>1. PICK r \in Int : r = hi - a.tailOff + new - lo
  BY DEF IsAnchor
<1>2. PICK near : near = Places!FindLine(lines, a.tail, r) OBVIOUS
<1>3. PICK tail : tail = {t \in near : t >= h} OBVIOUS
<1>4. PICK end : end = IF tail # {} THEN Places!The(tail) + a.tailOff ELSE new + (hi - lo) OBVIOUS
<1>5. PICK n : n = Len(lines) OBVIOUS
<1>6. PICK low : low = Places!Min({n, end}) OBVIOUS
<1>7. PICK top : top = Places!Max({new, low}) OBVIOUS
<1>8. m = [lo |-> new, hi |-> top]
  BY <1>0, <1>1, <1>2, <1>3, <1>4, <1>5, <1>6, <1>7 DEF Places!FollowTail
<1>9. a.tailOff \in Nat /\ n \in Nat /\ n \in Int /\ DOMAIN lines = 1..n
  BY <1>5 DEF IsAnchor, AreLines
<1>10. /\ \A x \in near : near = {x} /\ x \in DOMAIN lines
       /\ \A i \in DOMAIN lines : lines[i] = a.tail
            /\ (\A j \in DOMAIN lines : lines[j] = a.tail => j = i) => near = {i}
  BY <1>2, FindLineIs
<1>11. end \in Int
  <2>1. tail # {} => Places!The(tail) \in tail BY TheIn
  <2>2. tail # {} => Places!The(tail) \in Int BY <1>3, <1>9, <1>10, <2>1
  <2> QED BY <1>4, <1>9, <2>2
<1>12. low = IF n <= end THEN n ELSE end
  BY <1>6, <1>9, <1>11, OfTwo
<1>13. low \in Int BY <1>9, <1>11, <1>12
<1>14. top = IF new <= low THEN low ELSE new
  <2>1. new \in Int OBVIOUS
  <2> QED BY <1>7, <1>13, <2>1, OfTwo
<1>15. m.lo = new /\ m.hi = top BY <1>8
<1>16. top \in Nat /\ new <= top BY <1>13, <1>14
<1>17. ASSUME NEW t \in DOMAIN lines, h <= t, lines[t] = a.tail,
              \A j \in DOMAIN lines : lines[j] = a.tail => j = t,
              t + a.tailOff <= Len(lines), new <= t + a.tailOff
       PROVE  top = t + a.tailOff
  <2>1. near = {t} /\ t \in Nat BY <1>9, <1>10, <1>17
  <2>2. tail = {t} BY <1>3, <1>17, <2>1
  <2>3. Places!The({t}) = t BY TheOne
  <2>4. end = t + a.tailOff BY <1>4, <2>2, <2>3
  <2>5. end <= n /\ new <= end BY <1>5, <1>17, <2>4
  <2>6. low = end BY <1>9, <1>11, <1>12, <2>5
  <2>7. top = low BY <1>14, <2>5, <2>6
  <2> QED BY <2>4, <2>6, <2>7
<1> QED BY <1>0, <1>15, <1>16, <1>17 DEF TailIs

LEMMA FollowIs ==
  ASSUME NEW lines, AreLines(lines), NEW a, IsAnchor(a), NEW lo \in Int, NEW hi \in Int,
         NEW m \in Places!FollowAnchor(a, lo, hi, lines)
  PROVE  Places!FollowAnchor(a, lo, hi, lines) = {m} /\ m.lo \in Nat /\ m.hi \in Nat /\ 1 <= m.lo
      /\ m.lo <= m.hi
<1>1. PICK heads : heads = Places!FindLine(lines, a.head, lo + a.headOff) OBVIOUS
<1>2. a.headOff \in Nat /\ lo + a.headOff \in Int BY DEF IsAnchor
<1>3. \A x \in heads : heads = {x} /\ x \in DOMAIN lines /\ x \in Nat
  <2>1. \A x \in heads : heads = {x} /\ x \in DOMAIN lines
    BY <1>1, <1>2, FindLineIs
  <2>2. \A x \in DOMAIN lines : x \in Nat BY DEF AreLines
  <2> QED BY <2>1, <2>2
<1>4. Places!FollowAnchor(a, lo, hi, lines) =
         {Places!FollowTail(a, lo, hi, lines, h, Places!Max({1, h - a.headOff})) : h \in heads}
  BY <1>1 DEF Places!FollowAnchor
<1>5. PICK h \in heads : m = Places!FollowTail(a, lo, hi, lines, h, Places!Max({1, h - a.headOff}))
  BY <1>4
<1>6. heads = {h} /\ h \in Nat BY <1>3
<1>7. PICK new : new = Places!Max({1, h - a.headOff}) OBVIOUS
<1>8. new \in Nat /\ 1 <= new BY <1>2, <1>6, <1>7, OfTwo
<1>9. m = Places!FollowTail(a, lo, hi, lines, h, new) BY <1>5, <1>7
<1>10. m.lo = new /\ m.hi \in Nat /\ new <= m.hi
  <2>1. TailIs(a, lines, h, new, Places!FollowTail(a, lo, hi, lines, h, new))
    BY <1>6, <1>8, FollowTailIs
  <2>2. TailIs(a, lines, h, new, m) BY <1>9, <2>1
  <2> QED BY <2>2 DEF TailIs
<1> QED BY <1>4, <1>5, <1>6, <1>8, <1>10

(* The anchor was found, and the n lines start at line at.                  *)
FoundAt(to, at, n) == \E m : to = {m} /\ m.lo = at /\ m.hi = at + n - 1

(* The lines of a pin, still standing, are where its anchor is found.       *)

LEMMA FollowStands ==
  ASSUME NEW c, IsFile(c), NEW a, IsAnchor(a), NEW w, AreIds(w), Marks(a, c, w), OnlyEnds(a, c),
         NEW at, Standing(c, w, at), NEW lo \in Int, NEW hi \in Int
  PROVE  FoundAt(Places!FollowAnchor(a, lo, hi, c.lines), at, Len(w))
<1>1. PICK lines, ids : AreLines(lines) /\ AreIds(ids) /\ lines = c.lines /\ ids = c.ids
           /\ Len(lines) = Len(ids)
  BY DEF IsFile, AreLines, AreIds
<1>2. PICK n \in Nat, l \in Nat : n = Len(lines) /\ l = Len(w) /\ DOMAIN lines = 1..n
           /\ DOMAIN ids = 1..n
  BY <1>1 DEF AreLines, AreIds
<1>3. PICK x \in Nat, y \in Nat : x = a.headOff /\ y = a.tailOff /\ x + y < l
  BY <1>2 DEF Marks, IsAnchor
<1>4. at \in 1..n /\ at + l - 1 <= n /\ SubSeq(ids, at, at + l - 1) = w
  BY <1>1, <1>2 DEF Standing
<1>5. \A k \in 1..l : w[k] = ids[at + k - 1]
  BY <1>1, <1>2, <1>4 DEF AreIds
<1>6. PICK h \in Nat, t \in Nat : h = at + x /\ t = at + (l - y) - 1 /\ h \in 1..n /\ t \in 1..n
           /\ h <= t
  <2>1. at \in Nat /\ 1 <= at /\ at + l - 1 <= n BY <1>4
  <2>2. at + x \in 1..n BY <1>3, <2>1
  <2>3. at + (l - y) - 1 \in 1..n BY <1>3, <2>1
  <2>4. at + x <= at + (l - y) - 1 BY <1>3, <2>1
  <2> QED BY <2>2, <2>3, <2>4
<1>7. ids[h] = w[1 + x] /\ ids[t] = w[l - y]
  <2>1. 1 + x \in 1..l /\ l - y \in 1..l
    BY <1>3
  <2>2. at + (1 + x) - 1 = at + x /\ at + (l - y) - 1 = t
    <3>1. at \in Int /\ x \in Int /\ y \in Int /\ l \in Int BY <1>3, <1>4
    <3> QED BY <1>6, <3>1
  <2> QED BY <1>5, <1>6, <2>1, <2>2
<1>8. lines[h] = a.head /\ lines[t] = a.tail
  BY <1>1, <1>2, <1>3, <1>6, <1>7 DEF Marks
<1>9. /\ \A j \in DOMAIN lines : lines[j] = a.head => j = h
      /\ \A j \in DOMAIN lines : lines[j] = a.tail => j = t
  BY <1>1, <1>2, <1>6, <1>8 DEF OnlyEnds
<1>10. PICK r \in Int : r = lo + a.headOff BY DEF IsAnchor
<1>11. PICK heads : heads = Places!FindLine(lines, a.head, r) OBVIOUS
<1>12. h \in DOMAIN lines /\ t \in DOMAIN lines BY <1>2, <1>6
<1>13. heads = {h}
  BY <1>1, <1>8, <1>9, <1>11, <1>12, FindLineIs
<1>14. Places!Max({1, h - a.headOff}) = at
  <2>1. h - a.headOff = at /\ at \in Int /\ 1 <= at BY <1>3, <1>4, <1>6
  <2>2. Places!Max({1, at}) = at BY <2>1, OfTwo
  <2> QED BY <2>1, <2>2
<1>15. PICK m : m = Places!FollowTail(a, lo, hi, lines, h, at) OBVIOUS
<1>16. Places!FollowAnchor(a, lo, hi, lines) = {m}
  <2>1. Places!FollowAnchor(a, lo, hi, lines) =
           {Places!FollowTail(a, lo, hi, lines, g, Places!Max({1, g - a.headOff})) : g \in heads}
    BY <1>10, <1>11 DEF Places!FollowAnchor
  <2> QED BY <1>13, <1>14, <1>15, <2>1
<1>17. at \in Nat /\ 1 <= at BY <1>4
<1>18. t + y = at + l - 1 BY <1>3, <1>4, <1>6
<1>19. t + a.tailOff = at + l - 1 /\ t + a.tailOff <= Len(lines) /\ at <= t + a.tailOff
  BY <1>2, <1>3, <1>4, <1>18
<1>20. m.lo = at /\ m.hi = t + a.tailOff
  <2>1. TailIs(a, lines, h, at, m) BY <1>1, <1>15, <1>17, FollowTailIs
  <2> QED BY <1>6, <1>8, <1>9, <1>12, <1>19, <2>1 DEF TailIs
<1> QED BY <1>1, <1>2, <1>16, <1>19, <1>20 DEF FoundAt

(* ---- the files, moved and edited ------------------------------------------------ *)

(* A path is the sequence of its names.                                     *)
Paths == Seq(STRING)
IsPath(x) == x \in Paths

LEMMA Joined ==
  ASSUME NEW S, NEW u \in Seq(S), NEW v \in Seq(S), NEW t, t = u \o v, NEW m \in Nat, m = Len(u),
         NEW n \in Nat, n = Len(v)
  PROVE  t \in Seq(S) /\ Len(t) = m + n /\ (\A k \in 1..m : t[k] = u[k])
      /\ \A k \in 1..n : t[m + k] = v[k]
<1>1. t \in Seq(S) /\ Len(t) = m + n BY ConcatProperties
<1>2. \A k \in 1..(m + n) : t[k] = IF k <= m THEN u[k] ELSE v[k - m] BY ConcatProperties
<1>3. \A k \in 1..m : k \in 1..(m + n) /\ k <= m OBVIOUS
<1>4. \A k \in 1..n : m + k \in 1..(m + n) /\ ~(m + k <= m) /\ m + k - m = k OBVIOUS
<1> QED BY <1>1, <1>2, <1>3, <1>4

LEMMA UnderIs ==
  ASSUME NEW x, IsPath(x), NEW folder, IsPath(folder), Places!Under(x, folder)
  PROVE  /\ IsPath(Places!RelTo(x, folder)) /\ Len(Places!RelTo(x, folder)) = Len(x) - Len(folder)
              /\ Len(x) > Len(folder)
         /\ \A k \in 1..(Len(x) - Len(folder)) : Places!RelTo(x, folder)[k] = x[Len(folder) + k]
         /\ \A k \in 1..Len(folder) : x[k] = folder[k]
<1>1. x \in Seq(STRING) /\ folder \in Seq(STRING) BY DEF IsPath, Paths
<1>2. Len(folder) <= Len(x) /\ SubSeq(folder, 1, Len(folder)) = SubSeq(x, 1, Len(folder)) /\ folder # x
  BY DEF Places!Under, Places!IsStrictPrefix, Places!IsPrefix
<1>3. \A k \in 1..Len(folder) : SubSeq(folder, 1, Len(folder))[k] = folder[k]
      /\ SubSeq(x, 1, Len(folder))[k] = x[k]
  BY <1>1, <1>2
<1>4. \A k \in 1..Len(folder) : x[k] = folder[k]
  BY <1>2, <1>3
<1>5. Len(x) # Len(folder)
  BY <1>1, <1>2, <1>4
<1>6. Len(x) > Len(folder)
  BY <1>1, <1>2, <1>5
<1>7. Places!RelTo(x, folder) = SubSeq(x, Len(folder) + 1, Len(x)) BY DEF Places!RelTo
<1> QED BY <1>1, <1>4, <1>6, <1>7 DEF IsPath, Paths

LEMMA RenamedIs ==
  ASSUME NEW x, IsPath(x), NEW to, IsPath(to), IsPath(root)
  PROVE  /\ IsPath(Places!Renamed(x, to))
         /\ Places!Under(x, root) => Places!Under(Places!Renamed(x, to), to)
         /\ ~Places!Under(x, root) => Places!Renamed(x, to) = x
<1>1. CASE Places!Under(x, root)
  <2>1. PICK r : r = Places!RelTo(x, root) OBVIOUS
  <2>2. IsPath(r) /\ Len(r) > 0 BY <1>1, <2>1, UnderIs DEF IsPath, Paths
  <2>3. to \in Seq(STRING) /\ r \in Seq(STRING) BY <2>2 DEF IsPath, Paths
  <2>4. PICK y : y = to \o r OBVIOUS
  <2>5. y \in Seq(STRING) /\ Len(y) = Len(to) + Len(r) /\ \A k \in 1..Len(to) : y[k] = to[k]
    BY <2>3, <2>4
  <2>6. SubSeq(to, 1, Len(to)) = SubSeq(y, 1, Len(to))
    BY <2>2, <2>3, <2>5
  <2>7. Len(to) <= Len(y) /\ to # y BY <2>2, <2>3, <2>5
  <2>8. Places!Under(y, to) BY <2>6, <2>7 DEF Places!Under, Places!IsStrictPrefix, Places!IsPrefix
  <2>9. Places!Renamed(x, to) = y BY <1>1, <2>1, <2>4 DEF Places!Renamed
  <2> QED BY <1>1, <2>5, <2>8, <2>9 DEF IsPath, Paths
<1>2. CASE ~Places!Under(x, root)
  BY <1>2 DEF Places!Renamed
<1> QED BY <1>1, <1>2

(* No two files come to have one path.                                       *)
LEMMA RenamedApart ==
  ASSUME NEW x, IsPath(x), NEW y, IsPath(y), NEW to, IsPath(to), IsPath(root), ~Places!Under(x, to),
         ~Places!Under(y, to),
         Places!Renamed(x, to) = Places!Renamed(y, to)
  PROVE  x = y
<1>1. CASE ~Places!Under(x, root) /\ ~Places!Under(y, root)
  BY <1>1, RenamedIs
<1>2. CASE (Places!Under(x, root) /\ ~Places!Under(y, root))
           \/ (~Places!Under(x, root) /\ Places!Under(y, root))
  BY <1>2, RenamedIs
<1>3. CASE Places!Under(x, root) /\ Places!Under(y, root)
  <2>1. PICK r, s : r = Places!RelTo(x, root) /\ s = Places!RelTo(y, root) OBVIOUS
  <2>2. to \o r = to \o s BY <1>3, <2>1 DEF Places!Renamed
  <2>3. /\ r \in Seq(STRING) /\ Len(r) = Len(x) - Len(root) /\ Len(x) > Len(root)
        /\ \A k \in 1..(Len(x) - Len(root)) : r[k] = x[Len(root) + k]
        /\ \A k \in 1..Len(root) : x[k] = root[k]
    BY <1>3, <2>1, UnderIs DEF IsPath, Paths
  <2>4. /\ s \in Seq(STRING) /\ Len(s) = Len(y) - Len(root) /\ Len(y) > Len(root)
        /\ \A k \in 1..(Len(y) - Len(root)) : s[k] = y[Len(root) + k]
        /\ \A k \in 1..Len(root) : y[k] = root[k]
    BY <1>3, <2>1, UnderIs DEF IsPath, Paths
  <2>5. to \in Seq(STRING) /\ x \in Seq(STRING) /\ y \in Seq(STRING) /\ root \in Seq(STRING)
    BY DEF IsPath, Paths
  <2>6. PICK a, b : a = to \o r /\ b = to \o s /\ a = b BY <2>2
  <2>7. Len(a) = Len(to) + Len(r) /\ \A k \in 1..Len(r) : a[Len(to) + k] = r[k]
    <3>1. PICK m \in Nat, n \in Nat : m = Len(to) /\ n = Len(r)
      <4>1. Len(to) \in Nat /\ Len(r) \in Nat BY <2>3, <2>5
      <4> QED BY <4>1
    <3>2. to \in Seq(STRING) /\ r \in Seq(STRING) /\ a = to \o r BY <2>3, <2>5, <2>6
    <3>3. Len(a) = m + n /\ \A k \in 1..n : a[m + k] = r[k] BY <3>1, <3>2, Joined
    <3> QED BY <3>1, <3>3
  <2>8. Len(b) = Len(to) + Len(s) /\ \A k \in 1..Len(s) : b[Len(to) + k] = s[k]
    <3>1. PICK m \in Nat, n \in Nat : m = Len(to) /\ n = Len(s)
      <4>1. Len(to) \in Nat /\ Len(s) \in Nat BY <2>4, <2>5
      <4> QED BY <4>1
    <3>2. to \in Seq(STRING) /\ s \in Seq(STRING) /\ b = to \o s BY <2>4, <2>5, <2>6
    <3>3. Len(b) = m + n /\ \A k \in 1..n : b[m + k] = s[k] BY <3>1, <3>2, Joined
    <3> QED BY <3>1, <3>3
  <2>9. Len(r) = Len(s) /\ Len(x) = Len(y)
    <3>1. Len(to) \in Nat /\ Len(r) \in Nat /\ Len(s) \in Nat /\ Len(x) \in Nat /\ Len(y) \in Nat
          /\ Len(root) \in Nat
      BY <2>3, <2>4, <2>5
    <3>2. Len(to) + Len(r) = Len(to) + Len(s) BY <2>6, <2>7, <2>8
    <3>3. Len(r) = Len(s) BY <3>1, <3>2
    <3>4. Len(r) = Len(x) - Len(root) /\ Len(s) = Len(y) - Len(root) BY <2>3, <2>4
    <3>5. \A i, j, k \in Nat : i - k = j - k => i = j OBVIOUS
    <3> QED BY <3>1, <3>3, <3>4, <3>5
  <2>10. \A k \in 1..Len(r) : r[k] = s[k]
    BY <2>6, <2>7, <2>8, <2>9
  <2>11. ASSUME NEW k \in 1..Len(x) PROVE x[k] = y[k]
    <3>1. CASE k <= Len(root) BY <2>3, <2>4, <2>5, <3>1
    <3>2. CASE k > Len(root)
      <4>1. PICK j \in 1..Len(r) : k = Len(root) + j
        <5>1. k - Len(root) \in 1..Len(r) /\ k = Len(root) + (k - Len(root))
          BY <2>3, <2>5, <2>11, <3>2
        <5> QED BY <5>1
      <4>2. r[j] = x[k] /\ s[j] = y[k] BY <2>3, <2>4, <2>9, <4>1
      <4> QED BY <2>10, <4>1, <4>2
    <3> QED BY <2>5, <3>1, <3>2
  <2> QED BY <2>5, <2>9, <2>11
<1> QED BY <1>1, <1>2, <1>3

(* t is the m first of u, then x, then the n first of v.                    *)
IsBetween(S, u, v, x, m, n, t) ==
    /\ t \in Seq(S) /\ Len(t) = m + 1 + n /\ \A k \in 1..m : t[k] = u[k]
    /\ t[m + 1] = x /\ \A k \in 1..n : t[m + 1 + k] = v[k]

LEMMA Between ==
  ASSUME NEW S, NEW u \in Seq(S), NEW v \in Seq(S), NEW x \in S, NEW m \in Nat, m = Len(u),
         NEW n \in Nat, n = Len(v)
  PROVE  IsBetween(S, u, v, x, m, n, Append(u, x) \o v)
<1>0. PICK w, t : w = Append(u, x) /\ t = w \o v OBVIOUS
<1>1. w \in Seq(S) /\ Len(w) = m + 1 /\ w[m + 1] = x /\ \A k \in 1..m : w[k] = u[k]
  BY <1>0
<1>2. PICK l \in Nat : l = m + 1 /\ l = Len(w) BY <1>1
<1>3. t \in Seq(S) /\ Len(t) = l + n /\ (\A k \in 1..l : t[k] = w[k]) /\ \A k \in 1..n : t[l + k] = v[k]
  BY <1>0, <1>1, <1>2, Joined
<1>4. m + 1 \in 1..l /\ \A k \in 1..m : k \in 1..l BY <1>2
<1>5. t[m + 1] = x BY <1>1, <1>3, <1>4
<1>6. \A k \in 1..m : t[k] = u[k] BY <1>1, <1>3, <1>4
<1> QED BY <1>0, <1>2, <1>3, <1>5, <1>6 DEF IsBetween

(* A line put in, one taken out.                                             *)
HasPutIn(S, s, x, i, t) ==
    /\ t \in Seq(S) /\ Len(t) = Len(s) + 1
    /\ \A k \in 1..(Len(s) + 1) : t[k] = IF k < i THEN s[k] ELSE IF k = i THEN x ELSE s[k - 1]
HasTakenOut(S, s, i, t) ==
    /\ t \in Seq(S) /\ Len(t) = Len(s) - 1
    /\ \A k \in 1..(Len(s) - 1) : t[k] = IF k < i THEN s[k] ELSE s[k + 1]

LEMMA PutIn ==
  ASSUME NEW S, NEW s \in Seq(S), NEW x \in S, NEW i \in 1..(Len(s) + 1), NEW t,
         t = SubSeq(s, 1, i - 1) \o <<x>> \o SubSeq(s, i, Len(s))
  PROVE  HasPutIn(S, s, x, i, t)
<1>1. PICK n \in Nat : n = Len(s) /\ i \in 1..(n + 1) OBVIOUS
<1>2. PICK u, v : u = SubSeq(s, 1, i - 1) /\ v = SubSeq(s, i, n) OBVIOUS
<1>3. u \in Seq(S) /\ Len(u) = i - 1 /\ \A k \in 1..(i - 1) : u[k] = s[k]
  BY <1>1, <1>2
<1>4. v \in Seq(S) /\ Len(v) = n - i + 1 /\ \A k \in 1..(n - i + 1) : v[k] = s[i + k - 1]
  BY <1>1, <1>2
<1>5. PICK m \in Nat, l \in Nat : m = i - 1 /\ l = n - i + 1
  <2>1. n - i + 1 \in Nat /\ i - 1 \in Nat BY <1>1
  <2> QED BY <2>1
<1>6. t = Append(u, x) \o v
  <2>1. u \o <<x>> = Append(u, x) BY <1>3
  <2> QED BY <1>1, <1>2, <2>1
<1>7. /\ t \in Seq(S) /\ Len(t) = m + 1 + l /\ \A k \in 1..m : t[k] = u[k]
      /\ t[m + 1] = x /\ \A k \in 1..l : t[m + 1 + k] = v[k]
  <2>1. u \in Seq(S) /\ v \in Seq(S) /\ m = Len(u) /\ l = Len(v)
    BY <1>3, <1>4, <1>5
  <2>2. IsBetween(S, u, v, x, m, l, Append(u, x) \o v)
    BY <2>1, Between
  <2> QED BY <1>6, <2>2 DEF IsBetween
<1>8. m + 1 + l = n + 1 /\ m + 1 = i BY <1>1, <1>5
<1>9. ASSUME NEW k \in 1..(n + 1) PROVE t[k] = IF k < i THEN s[k] ELSE IF k = i THEN x ELSE s[k - 1]
  <2>1. CASE k < i
    <3>1. k \in 1..m /\ k \in 1..(i - 1) BY <1>5, <2>1
    <3> QED BY <1>3, <1>7, <2>1, <3>1
  <2>2. CASE k = i
    <3>1. k = m + 1 /\ ~(k < i) BY <1>8, <2>2
    <3>2. t[k] = x BY <1>7, <3>1
    <3> QED BY <2>2, <3>1, <3>2
  <2>3. CASE k > i
    <3>1. PICK j \in 1..l : k = i + j
      <4>1. k - i \in 1..l /\ k = i + (k - i) BY <1>5, <2>3
      <4> QED BY <4>1
    <3>2. t[k] = v[j] BY <1>7, <1>8, <3>1
    <3>3. v[j] = s[i + j - 1] BY <1>4, <1>5
    <3>4. i + j - 1 = k - 1 /\ ~(k < i) /\ k # i BY <2>3, <3>1
    <3> QED BY <3>2, <3>3, <3>4
  <2>4. k < i \/ k = i \/ k > i BY <1>1
  <2> QED BY <2>1, <2>2, <2>3, <2>4
<1> QED BY <1>1, <1>7, <1>8, <1>9 DEF HasPutIn

LEMMA TakenOut ==
  ASSUME NEW S, NEW s \in Seq(S), NEW i \in 1..Len(s), NEW t, t = Places!RemoveAt(s, i)
  PROVE  HasTakenOut(S, s, i, t)
<1>1. PICK n \in Nat : n = Len(s) /\ i \in 1..n OBVIOUS
<1>2. PICK u, v : u = SubSeq(s, 1, i - 1) /\ v = SubSeq(s, i + 1, n) OBVIOUS
<1>3. u \in Seq(S) /\ Len(u) = i - 1 /\ \A k \in 1..(i - 1) : u[k] = s[k]
  BY <1>1, <1>2
<1>4. v \in Seq(S) /\ Len(v) = n - i /\ \A k \in 1..(n - i) : v[k] = s[i + k]
  BY <1>1, <1>2
<1>5. t = u \o v BY <1>1, <1>2 DEF Places!RemoveAt
<1>6. PICK m \in Nat, l \in Nat : m = i - 1 /\ l = n - i
  <2>1. n - i \in Nat /\ i - 1 \in Nat BY <1>1
  <2> QED BY <2>1
<1>7. /\ t \in Seq(S) /\ Len(t) = m + l
      /\ (\A k \in 1..m : t[k] = u[k]) /\ \A k \in 1..l : t[m + k] = v[k]
  <2>1. u \in Seq(S) /\ v \in Seq(S) /\ m = Len(u) /\ l = Len(v)
    BY <1>3, <1>4, <1>6
  <2> QED BY <1>5, <2>1, Joined
<1>8. m + l = n - 1 BY <1>1, <1>6
<1>9. ASSUME NEW k \in 1..(n - 1) PROVE t[k] = IF k < i THEN s[k] ELSE s[k + 1]
  <2>1. CASE k < i
    <3>1. k \in 1..m BY <1>6, <2>1
    <3> QED BY <1>3, <1>6, <1>7, <2>1, <3>1
  <2>2. CASE k >= i
    <3>1. PICK j \in 1..l : k = m + j
      <4>1. k - m \in 1..l /\ k = m + (k - m) BY <1>6, <2>2
      <4> QED BY <4>1
    <3>2. t[k] = v[j] BY <1>7, <3>1
    <3>3. v[j] = s[i + j] BY <1>4, <1>6
    <3>4. i + j = k + 1 /\ ~(k < i) BY <1>6, <2>2, <3>1
    <3> QED BY <3>2, <3>3, <3>4
  <2> QED BY <1>1, <2>1, <2>2
<1> QED BY <1>1, <1>7, <1>8, <1>9 DEF HasTakenOut

(* After an edit every line is a new one, or was in the file as it is now.   *)
Remembers(c, e, fresh) ==
    \A i \in DOMAIN e.ids : e.ids[i] = fresh \/ \E j \in DOMAIN c.ids : c.ids[j] = e.ids[i]
        /\ c.lines[j] = e.lines[i]

(* The same of the lines ls with identities is, once lines with ids.         *)
Recall(lines, ids, n, ls, is, m, fresh) ==
    /\ \A k \in 1..m : is[k] = fresh \/ \E j \in 1..n : is[k] = ids[j] /\ ls[k] = lines[j]
    /\ \A j, k \in 1..m : is[j] = is[k] => j = k
(* No identity is there twice, and fresh is not there.                      *)
Distinct(ids, n, fresh) ==
    /\ \A x, y \in 1..n : ids[x] = ids[y] => x = y
    /\ \A x \in 1..n : ids[x] # fresh

LEMMA RecallPut ==
  ASSUME NEW n \in Nat, NEW i \in 1..(n + 1), NEW fresh, NEW lines, NEW ids, Distinct(ids, n, fresh),
         NEW l, NEW ls, NEW is,
         \A k \in 1..(n + 1) : ls[k] = IF k < i THEN lines[k] ELSE IF k = i THEN l ELSE lines[k - 1],
         \A k \in 1..(n + 1) : is[k] = IF k < i THEN ids[k] ELSE IF k = i THEN fresh ELSE ids[k - 1]
  PROVE  Recall(lines, ids, n, ls, is, n + 1, fresh)
<1> DEFINE was(k) == IF k < i THEN k ELSE k - 1
<1>1. \A k \in 1..(n + 1) : k = i => is[k] = fresh
  OBVIOUS
<1>2. \A k \in 1..(n + 1) : k # i => was(k) \in 1..n /\ is[k] = ids[was(k)] /\ ls[k] = lines[was(k)]
  OBVIOUS
<1>3. \A j, k \in 1..(n + 1) : j # i /\ k # i /\ was(j) = was(k) => j = k
  OBVIOUS
<1> HIDE DEF was
<1> QED BY <1>1, <1>2, <1>3 DEF Recall, Distinct

LEMMA RecallTaken ==
  ASSUME NEW n \in Nat, NEW i \in 1..n, NEW fresh, NEW lines, NEW ids, Distinct(ids, n, fresh), NEW ls,
         NEW is,
         \A k \in 1..(n - 1) : ls[k] = IF k < i THEN lines[k] ELSE lines[k + 1],
         \A k \in 1..(n - 1) : is[k] = IF k < i THEN ids[k] ELSE ids[k + 1]
  PROVE  Recall(lines, ids, n, ls, is, n - 1, fresh)
<1> DEFINE was(k) == IF k < i THEN k ELSE k + 1
<1>1. \A k \in 1..(n - 1) : was(k) \in 1..n /\ is[k] = ids[was(k)] /\ ls[k] = lines[was(k)]
  OBVIOUS
<1>2. \A j, k \in 1..(n - 1) : was(j) = was(k) => j = k
  OBVIOUS
<1> HIDE DEF was
<1> QED BY <1>1, <1>2 DEF Recall, Distinct

LEMMA RecallReworded ==
  ASSUME NEW n \in Nat, NEW i \in 1..n, NEW fresh, NEW lines, NEW ids, Distinct(ids, n, fresh), NEW l,
         NEW ls, NEW is,
         \A k \in 1..n : ls[k] = IF k = i THEN l ELSE lines[k],
         \A k \in 1..n : is[k] = IF k = i THEN fresh ELSE ids[k]
  PROVE  Recall(lines, ids, n, ls, is, n, fresh)
BY DEF Recall, Distinct

LEMMA FileOf ==
  ASSUME NEW c, IsFile(c), NEW fresh, \A i \in DOMAIN c.ids : c.ids[i] # fresh
  PROVE  \E n \in Nat : /\ AreLines(c.lines) /\ Len(c.lines) = n /\ DOMAIN c.lines = 1..n
                        /\ AreIds(c.ids) /\ Len(c.ids) = n /\ DOMAIN c.ids = 1..n
                        /\ Distinct(c.ids, n, fresh)
<1>1. /\ c.lines \in Seq(FileLines) /\ c.ids \in Seq(Int) /\ Len(c.ids) = Len(c.lines)
      /\ \A i, j \in DOMAIN c.ids : c.ids[i] = c.ids[j] => i = j
  BY DEF IsFile
<1>2. Len(c.lines) \in Nat /\ DOMAIN c.lines = 1..Len(c.lines) /\ DOMAIN c.ids = 1..Len(c.lines)
  BY <1>1
<1> QED BY <1>1, <1>2 DEF AreLines, AreIds, Distinct

LEMMA Fields ==
  ASSUME NEW ls, NEW is, NEW t, NEW e, e = [lines |-> ls, ids |-> is, mtime |-> t]
  PROVE  e.lines = ls /\ e.ids = is /\ e.mtime = t
OBVIOUS

LEMMA FileFrom ==
  ASSUME NEW c, IsFile(c), NEW n \in Nat, DOMAIN c.ids = 1..n, NEW fresh,
         NEW e, NEW ls, NEW is, NEW m \in Nat, e = [c EXCEPT !.lines = ls, !.ids = is],
         AreLines(ls), AreIds(is), Len(ls) = m, Len(is) = m, Recall(c.lines, c.ids, n, ls, is, m, fresh)
  PROVE  IsFile(e) /\ Remembers(c, e, fresh) /\ e.mtime = c.mtime
<1>1. PICK t : t = c.mtime /\ t \in Int /\ c = [lines |-> c.lines, ids |-> c.ids, mtime |-> t]
  BY DEF IsFile
<1>2. e = [lines |-> ls, ids |-> is, mtime |-> t] BY <1>1
<1>3. DOMAIN is = 1..m BY DEF AreIds
<1>4. e.lines = ls /\ e.ids = is /\ e.mtime = t BY ONLY <1>2, Fields
<1>5. Remembers(c, e, fresh) BY <1>3, <1>4 DEF Recall, Remembers
<1>6. IsFile(e) BY <1>1, <1>2, <1>3, <1>4 DEF IsFile, AreLines, AreIds, Recall
<1> QED BY <1>1, <1>4, <1>5, <1>6

(* What the edit of file c may leave, with the new line's identity.          *)
IsPut(c, e, fresh, i, l) ==
    e = [c EXCEPT !.lines = SubSeq(@, 1, i - 1) \o <<l>> \o SubSeq(@, i, Len(@)),
                  !.ids = SubSeq(@, 1, i - 1) \o <<fresh>> \o SubSeq(@, i, Len(@))]
IsTaken(c, e, i) == e = [c EXCEPT !.lines = Places!RemoveAt(@, i), !.ids = Places!RemoveAt(@, i)]
IsReworded(c, e, fresh, i, l) == e = [c EXCEPT !.lines[i] = l, !.ids[i] = fresh]

LEMMA EditedFile ==
  ASSUME NEW c, IsFile(c), NEW fresh \in Int, \A i \in DOMAIN c.ids : c.ids[i] # fresh,
         NEW e,
         \/ \E i \in 1..(Len(c.lines) + 1), l \in NewTexts : IsPut(c, e, fresh, i, l)
         \/ \E i \in 1..Len(c.lines) : IsTaken(c, e, i)
         \/ \E i \in 1..Len(c.lines), l \in NewTexts : IsReworded(c, e, fresh, i, l)
  PROVE  IsFile(e) /\ Remembers(c, e, fresh) /\ e.mtime = c.mtime
<1>1. PICK n \in Nat : /\ AreLines(c.lines) /\ Len(c.lines) = n /\ DOMAIN c.lines = 1..n
                       /\ AreIds(c.ids) /\ Len(c.ids) = n /\ DOMAIN c.ids = 1..n
                       /\ Distinct(c.ids, n, fresh)
  BY FileOf
<1>2. PICK lines, ids : lines = c.lines /\ ids = c.ids OBVIOUS
<1>3. ASSUME NEW i \in 1..(n + 1), NEW l \in NewTexts, IsPut(c, e, fresh, i, l)
      PROVE  IsFile(e) /\ Remembers(c, e, fresh) /\ e.mtime = c.mtime
  <2>1. PICK ls : ls = SubSeq(lines, 1, i - 1) \o <<l>> \o SubSeq(lines, i, Len(lines)) OBVIOUS
  <2>2. PICK is : is = SubSeq(ids, 1, i - 1) \o <<fresh>> \o SubSeq(ids, i, Len(ids)) OBVIOUS
  <2>3. AreLines(ls) /\ Len(ls) = n + 1
        /\ \A k \in 1..(n + 1) : ls[k] = IF k < i THEN lines[k] ELSE IF k = i THEN l ELSE lines[k - 1]
    <3>1. lines \in Seq(FileLines) /\ Len(lines) = n /\ l \in FileLines
      BY <1>1, <1>2 DEF FileLines, AreLines
    <3>2. i \in 1..(Len(lines) + 1) BY <3>1
    <3>3. HasPutIn(FileLines, lines, l, i, ls) BY ONLY <2>1, <3>1, <3>2, PutIn
    <3> QED BY <3>1, <3>3 DEF AreLines, HasPutIn
  <2>4. AreIds(is) /\ Len(is) = n + 1
        /\ \A k \in 1..(n + 1) : is[k] = IF k < i THEN ids[k] ELSE IF k = i THEN fresh ELSE ids[k - 1]
    <3>1. ids \in Seq(Int) /\ Len(ids) = n BY <1>1, <1>2 DEF AreIds
    <3>2. i \in 1..(Len(ids) + 1) BY <3>1
    <3>3. PICK S : S = Int OBVIOUS
    <3>4. ids \in Seq(S) /\ fresh \in S BY <3>1, <3>3
    <3>5. HasPutIn(S, ids, fresh, i, is) BY ONLY <2>2, <3>2, <3>4, PutIn
    <3> QED BY <3>1, <3>3, <3>5 DEF AreIds, HasPutIn
  <2>5. Recall(lines, ids, n, ls, is, n + 1, fresh) BY <1>1, <1>2, <2>3, <2>4, RecallPut
  <2>6. e = [c EXCEPT !.lines = ls, !.ids = is] BY <1>2, <1>3, <2>1, <2>2 DEF IsPut, IsFile
  <2>7. PICK m \in Nat : m = n + 1 OBVIOUS
  <2>8. /\ AreLines(ls) /\ AreIds(is) /\ Len(ls) = m /\ Len(is) = m /\ DOMAIN c.ids = 1..n
        /\ Recall(c.lines, c.ids, n, ls, is, m, fresh)
    BY <1>1, <1>2, <2>3, <2>4, <2>5, <2>7
  <2> QED BY <2>6, <2>8, FileFrom
<1>4. ASSUME NEW i \in 1..n, IsTaken(c, e, i)
      PROVE  IsFile(e) /\ Remembers(c, e, fresh) /\ e.mtime = c.mtime
  <2>1. PICK ls, is : ls = Places!RemoveAt(lines, i) /\ is = Places!RemoveAt(ids, i) OBVIOUS
  <2>2. AreLines(ls) /\ Len(ls) = n - 1
        /\ \A k \in 1..(n - 1) : ls[k] = IF k < i THEN lines[k] ELSE lines[k + 1]
    <3>1. lines \in Seq(FileLines) /\ Len(lines) = n BY <1>1, <1>2 DEF AreLines
    <3>2. i \in 1..Len(lines) BY <3>1
    <3>3. HasTakenOut(FileLines, lines, i, ls) BY ONLY <2>1, <3>1, <3>2, TakenOut
    <3> QED BY <3>1, <3>3 DEF AreLines, HasTakenOut
  <2>3. AreIds(is) /\ Len(is) = n - 1
        /\ \A k \in 1..(n - 1) : is[k] = IF k < i THEN ids[k] ELSE ids[k + 1]
    <3>1. ids \in Seq(Int) /\ Len(ids) = n BY <1>1, <1>2 DEF AreIds
    <3>2. i \in 1..Len(ids) BY <3>1
    <3>3. PICK S : S = Int OBVIOUS
    <3>4. is = Places!RemoveAt(ids, i) BY <2>1
    <3>5. ids \in Seq(S) BY <3>1, <3>3
    <3>6. HasTakenOut(S, ids, i, is) BY ONLY <3>2, <3>4, <3>5, TakenOut
    <3> QED BY <3>1, <3>3, <3>6 DEF AreIds, HasTakenOut
  <2>4. Recall(lines, ids, n, ls, is, n - 1, fresh) BY <1>1, <1>2, <2>2, <2>3, RecallTaken
  <2>5. e = [c EXCEPT !.lines = ls, !.ids = is] BY <1>2, <1>4, <2>1 DEF IsTaken, IsFile
  <2>6. PICK m \in Nat : m = n - 1 OBVIOUS
  <2>7. /\ AreLines(ls) /\ AreIds(is) /\ Len(ls) = m /\ Len(is) = m /\ DOMAIN c.ids = 1..n
        /\ Recall(c.lines, c.ids, n, ls, is, m, fresh)
    BY <1>1, <1>2, <2>2, <2>3, <2>4, <2>6
  <2> QED BY <2>5, <2>7, FileFrom
<1>5. ASSUME NEW i \in 1..n, NEW l \in NewTexts, IsReworded(c, e, fresh, i, l)
      PROVE  IsFile(e) /\ Remembers(c, e, fresh) /\ e.mtime = c.mtime
  <2>1. PICK ls, is : ls = [lines EXCEPT ![i] = l] /\ is = [ids EXCEPT ![i] = fresh] OBVIOUS
  <2>2. AreLines(ls) /\ Len(ls) = n /\ \A k \in 1..n : ls[k] = IF k = i THEN l ELSE lines[k]
    <3>1. lines \in Seq(FileLines) /\ Len(lines) = n /\ DOMAIN lines = 1..n /\ l \in FileLines
      BY <1>1, <1>2 DEF FileLines, AreLines
    <3> QED BY <2>1, <3>1 DEF AreLines
  <2>3. AreIds(is) /\ Len(is) = n /\ \A k \in 1..n : is[k] = IF k = i THEN fresh ELSE ids[k]
    <3>1. ids \in Seq(Int) /\ Len(ids) = n /\ DOMAIN ids = 1..n BY <1>1, <1>2 DEF AreIds
    <3> QED BY <2>1, <3>1 DEF AreIds
  <2>4. Recall(lines, ids, n, ls, is, n, fresh) BY <1>1, <1>2, <2>2, <2>3, RecallReworded
  <2>5. e = [c EXCEPT !.lines = ls, !.ids = is] BY <1>2, <1>5, <2>1 DEF IsReworded, IsFile
  <2>6. /\ AreLines(ls) /\ AreIds(is) /\ Len(ls) = n /\ Len(is) = n /\ DOMAIN c.ids = 1..n
        /\ Recall(c.lines, c.ids, n, ls, is, n, fresh)
    BY <1>1, <1>2, <2>2, <2>3, <2>4
  <2> QED BY <2>5, <2>6, FileFrom
<1> QED BY <1>1, <1>3, <1>4, <1>5


(* ---- a pin and the file it was put on ------------------------------------------ *)

(* Identities given by the first n edits, in a file, the pinned lines, a pin.*)
OkFile(c, n) == IsFile(c) /\ \A i \in DOMAIN c.ids : c.ids[i] > -n
OkOwn(w, n) == AreIds(w) /\ \A k \in DOMAIN w : w[k] > -n
OkPin(p) ==
    /\ IsPlaced(p) /\ p.lo \in Nat /\ p.hi \in Nat /\ 1 <= p.lo /\ p.lo <= p.hi /\ p.syncedAt \in Int
    /\ (p.stale <=> p.sync = "lost") /\ (~p.anchored => ~p.stale)
    /\ \A a \in p.anchor : p.anchor = {a} /\ IsAnchor(a)

(* The pin's anchor tells the ends of the lines w in the file c; and a pin   *)
(* re-matched since c was written stands on them.                           *)
Tells(p, c, w) ==
    p.anchored => /\ p.syncedAt <= c.mtime
                  /\ w # <<>> => \A a \in p.anchor : Marks(a, c, w)
StandsThere(p, c, w) ==
    (p.anchored /\ w # <<>> /\ p.syncedAt >= c.mtime) =>
        \A a \in p.anchor : OnlyEnds(a, c) => StandsOn(p, c, w)

(* At most one anchor.                                                      *)
OneAnchor(s) == \A a \in s : s = {a} /\ IsAnchor(a)

LEMMA AnchorIsOne ==
  ASSUME NEW c, IsFile(c), NEW lo \in Nat, NEW hi \in Nat, 1 <= lo, lo <= hi
  PROVE  OneAnchor(Places!AnchorOf(c.lines, lo, hi))
<1> SUFFICES ASSUME NEW a \in Places!AnchorOf(c.lines, lo, hi)
             PROVE  Places!AnchorOf(c.lines, lo, hi) = {a} /\ IsAnchor(a)
  BY DEF OneAnchor
<1>1. Placing(a, c, lo, hi) BY AnchorPlaces
<1> QED BY <1>1 DEF Placing

LEMMA AnchoredOk ==
  ASSUME NEW c, IsFile(c), NEW lo \in Nat, NEW hi \in Nat, 1 <= lo, lo <= hi, NEW q,
         IsPlaced(q), q.lo = lo, q.hi = hi, q.anchored, q.anchor = Places!AnchorOf(c.lines, lo, hi),
             q.syncedAt = c.mtime,
         ~q.stale, q.sync # "lost"
  PROVE  OkPin(q)
<1>1. OneAnchor(q.anchor)
  <2>1. OneAnchor(Places!AnchorOf(c.lines, lo, hi)) BY AnchorIsOne
  <2> QED BY <2>1
<1>2. c.mtime \in Int BY DEF IsFile
<1> QED BY <1>1, <1>2 DEF OkPin, OneAnchor

LEMMA AnchoredStands ==
  ASSUME NEW c, IsFile(c), NEW lo \in Nat, NEW hi \in Nat, 1 <= lo, lo <= hi, NEW q,
         q.lo = lo, q.hi = hi, q.anchor = Places!AnchorOf(c.lines, lo, hi), q.syncedAt = c.mtime,
             ~q.stale,
         NEW w, w = Places!OwnOf(c, lo, hi)
  PROVE  Tells(q, c, w) /\ StandsThere(q, c, w)
<1>1. c.mtime <= c.mtime BY DEF IsFile
<1>2. ASSUME NEW a \in q.anchor, w # <<>> PROVE Marks(a, c, w) /\ StandsOn(q, c, w)
  <2>1. Marks(a, c, w) /\ \A at : Standing(c, w, at) => at = lo /\ hi = at + Len(w) - 1
    BY <1>2, AnchorFits
  <2> QED BY <2>1 DEF StandsOn
<1> QED BY <1>1, <1>2 DEF Tells, StandsThere

LEMMA RematchOk ==
  ASSUME NEW p, OkPin(p), NEW c, IsFile(c), NEW q, NEW path, p.anchored, p.anchor # {},
         IsRematch(p, q, path, c, Places!FollowAnchor(Places!The(p.anchor), p.lo, p.hi, c.lines))
  PROVE  OkPin(q)
<1>1. PICK a : a \in p.anchor /\ p.anchor = {a} /\ IsAnchor(a) /\ Places!The(p.anchor) = a
  BY TheOne DEF OkPin
<1>2. PICK to : to = Places!FollowAnchor(a, p.lo, p.hi, c.lines) OBVIOUS
<1>3. IsRematch(p, q, path, c, to) BY <1>1, <1>2
<1>4. AreLines(c.lines) /\ p.lo \in Int /\ p.hi \in Int /\ c.mtime \in Int
  BY DEF IsFile, AreLines, OkPin
<1>5. \A m \in to : to = {m} /\ m.lo \in Nat /\ m.hi \in Nat /\ 1 <= m.lo /\ m.lo <= m.hi
  BY <1>1, <1>2, <1>4, FollowIs
<1>6. to # {} => Places!The(to) \in to BY TheIn
<1>7. q.lo \in Nat /\ q.hi \in Nat /\ 1 <= q.lo /\ q.lo <= q.hi /\ (q.stale <=> q.sync = "lost")
      /\ IsPlaced(q)
      /\ q.anchor = p.anchor /\ q.anchored /\ q.syncedAt = c.mtime
  BY <1>3, <1>5, <1>6 DEF IsRematch, OkPin
<1> QED BY <1>1, <1>4, <1>7 DEF OkPin

LEMMA RematchStands ==
  ASSUME NEW p, OkPin(p), NEW c, IsFile(c), NEW q, NEW path, p.anchored, p.anchor # {}, NEW w,
         AreIds(w), Tells(p, c, w),
         IsRematch(p, q, path, c, Places!FollowAnchor(Places!The(p.anchor), p.lo, p.hi, c.lines))
  PROVE  Tells(q, c, w) /\ StandsThere(q, c, w)
<1>1. PICK a : a \in p.anchor /\ p.anchor = {a} /\ IsAnchor(a) /\ Places!The(p.anchor) = a
  BY TheOne DEF OkPin
<1>2. PICK to : to = Places!FollowAnchor(a, p.lo, p.hi, c.lines) OBVIOUS
<1>3. IsRematch(p, q, path, c, to) BY <1>1, <1>2
<1>4. q.anchor = {a} /\ q.anchored /\ q.syncedAt = c.mtime /\ c.mtime <= c.mtime
  BY <1>1, <1>3 DEF IsRematch, IsFile
<1>5. Tells(q, c, w) BY <1>1, <1>4 DEF Tells
<1>6. ASSUME w # <<>>, OnlyEnds(a, c), NEW at, Standing(c, w, at)
      PROVE  ~q.stale /\ q.lo = at /\ q.hi = at + Len(w) - 1
  <2>1. Marks(a, c, w) BY <1>1, <1>6 DEF Tells
  <2>2. p.lo \in Int /\ p.hi \in Int BY DEF OkPin
  <2>3. FoundAt(Places!FollowAnchor(a, p.lo, p.hi, c.lines), at, Len(w))
    <3>1. /\ IsFile(c) /\ IsAnchor(a) /\ AreIds(w) /\ Marks(a, c, w) /\ OnlyEnds(a, c)
               /\ Standing(c, w, at)
          /\ p.lo \in Int /\ p.hi \in Int
      BY <1>1, <1>6, <2>1, <2>2
    <3> QED BY ONLY <3>1, FollowStands
  <2>4. PICK m : to = {m} /\ m.lo = at /\ m.hi = at + Len(w) - 1 BY <1>2, <2>3 DEF FoundAt
  <2>5. to # {} /\ Places!The(to) = m BY <2>4, TheOne
  <2> QED BY <1>3, <2>4, <2>5 DEF IsRematch
<1> QED BY <1>4, <1>5, <1>6 DEF StandsThere, StandsOn

LEMMA EditTells ==
  ASSUME NEW p, OkPin(p), NEW c, IsFile(c), NEW e, IsFile(e), NEW fresh, Remembers(c, e, fresh),
         e.mtime >= c.mtime, NEW w, AreIds(w), \A k \in DOMAIN w : w[k] # fresh, Tells(p, c, w)
  PROVE  Tells(p, e, w)
<1>1. ASSUME p.anchored PROVE p.syncedAt <= e.mtime
  BY <1>1 DEF Tells, IsFile, OkPin
<1>2. ASSUME p.anchored, w # <<>>, NEW a \in p.anchor PROVE Marks(a, e, w)
  <2>1. Marks(a, c, w) /\ IsAnchor(a) BY <1>2 DEF Tells, OkPin
  <2>2. 1 + a.headOff \in DOMAIN w /\ Len(w) - a.tailOff \in DOMAIN w /\ a.headOff + a.tailOff < Len(w)
    BY <2>1 DEF Marks, IsAnchor, AreIds
  <2>3. ASSUME NEW k \in DOMAIN w, NEW l, \A j \in DOMAIN c.ids : c.ids[j] = w[k] => c.lines[j] = l,
               NEW i \in DOMAIN e.ids, e.ids[i] = w[k]
        PROVE  e.lines[i] = l
    BY <2>3 DEF Remembers
  <2>4. /\ \A i \in DOMAIN e.ids : e.ids[i] = w[1 + a.headOff] => e.lines[i] = a.head
        /\ \A i \in DOMAIN e.ids : e.ids[i] = w[Len(w) - a.tailOff] => e.lines[i] = a.tail
    BY <2>1, <2>2, <2>3 DEF Marks
  <2> QED BY <2>2, <2>4 DEF Marks
<1> QED BY <1>1, <1>2 DEF Tells

(* ---- every step keeps it ---------------------------------------------------------- *)

(* The files on disk and the pin are such as the lemmas ask for.            *)
DiskOk ==
    /\ IsPath(root) /\ edits \in Nat /\ OkOwn(own, edits)
    /\ \A f \in DOMAIN disk : IsPath(f) /\ OkFile(disk[f], edits)
    /\ \A t \in truth : truth = {t} /\ t \in DOMAIN disk
PinOk == \A p \in pin : pin = {p} /\ OkPin(p)
(* The pin's anchor tells its lines, and a re-matched pin stands on them.   *)
Kept ==
    ~misled => \A p \in pin, t \in truth :
                   /\ Tells(p, disk[t], own)
                   /\ ~unseen => StandsThere(p, disk[t], own)

LEMMA MoreOk ==
  ASSUME NEW n \in Nat, NEW m \in Nat, n <= m
  PROVE  /\ \A c : OkFile(c, n) => OkFile(c, m)
         /\ \A w : OkOwn(w, n) => OkOwn(w, m)
<1>1. ASSUME NEW c, OkFile(c, n) PROVE OkFile(c, m)
  <2>1. \A i \in DOMAIN c.ids : c.ids[i] \in Int BY <1>1 DEF OkFile, IsFile
  <2> QED BY <1>1, <2>1 DEF OkFile
<1>2. ASSUME NEW w, OkOwn(w, n) PROVE OkOwn(w, m)
  <2>1. \A k \in DOMAIN w : w[k] \in Int BY <1>2 DEF OkOwn, AreIds
  <2> QED BY <1>2, <2>1 DEF OkOwn
<1> QED BY <1>1, <1>2

LEMMA OwnOk ==
  ASSUME NEW c, NEW n \in Nat, OkFile(c, n), NEW lo \in Nat, NEW hi \in Nat, 1 <= lo, lo <= hi
  PROVE  OkOwn(Places!OwnOf(c, lo, hi), n)
<1>1. PICK w : w = Places!OwnOf(c, lo, hi) OBVIOUS
<1>2. IsFile(c) BY DEF OkFile
<1>3. OutOf(w, c)
  BY <1>1, <1>2, OwnIs
<1>4. \A k \in DOMAIN w : w[k] > -n
  BY <1>3 DEF OkFile, OutOf
<1> QED BY <1>1, <1>3, <1>4 DEF OkOwn, AreIds, OutOf

LEMMA LocatedOnDisk ==
  ASSUME NEW name, NEW rel
  PROVE  Places!Locate(name, rel) \subseteq DOMAIN disk
BY DEF Places!Locate, Places!Exists

(* A transaction leaves the pin, or takes an anchor, or re-matches it.       *)
SyncCase(p, q, at) ==
    /\ at \in Places!Locate(p.file, p.fileRel) /\ at = Places!The(Places!Locate(p.file, p.fileRel))
    /\ \/ ~p.anchored /\ at = p.file /\ IsAnchored(p, q, disk[at])
       \/ p.anchored /\ p.anchor # {}
          /\ IsRematch(p, q, at, disk[at], Places!FollowAnchor(Places!The(p.anchor), p.lo, p.hi, disk[at].lines))

LEMMA SyncCases ==
  ASSUME NEW p, OkPin(p), NEW q, q = Places!Synced(p), q # p
  PROVE  \E at : SyncCase(p, q, at)
<1>1. IsPlaced(p) BY DEF OkPin
<1>2. PICK S : S = Places!Locate(p.file, p.fileRel) OBVIOUS
<1>3. S # {} /\ q = Places!Resync(p, Places!The(S)) BY <1>1, <1>2, SyncedPlace
<1>4. PICK at : at = Places!The(S) /\ at \in S BY <1>3, TheIn
<1>5. IsResync(p, q, at) BY <1>1, <1>3, <1>4, ResyncedIs
<1>6. SyncCase(p, q, at) BY <1>2, <1>4, <1>5 DEF IsResync, SyncCase
<1> QED BY <1>6

LEMMA AnchoredCase ==
  ASSUME DiskOk, NEW p, OkPin(p), NEW q, NEW at \in DOMAIN disk, ~p.anchored, IsAnchored(p, q, disk[at])
  PROVE  OkPin(q) /\ IsFile(disk[at])
         /\ Tells(q, disk[at], Places!OwnOf(disk[at], p.lo, p.hi))
              /\ StandsThere(q, disk[at], Places!OwnOf(disk[at], p.lo, p.hi))
<1>1. PICK c, lo, hi, w : c = disk[at] /\ lo = p.lo /\ hi = p.hi /\ w = Places!OwnOf(c, lo, hi) OBVIOUS
<1>2. IsFile(c) BY <1>1 DEF DiskOk, OkFile
<1>3. lo \in Nat /\ hi \in Nat /\ 1 <= lo /\ lo <= hi /\ ~p.stale /\ p.sync # "lost" BY <1>1 DEF OkPin
<1>4. /\ IsPlaced(q) /\ q.lo = lo /\ q.hi = hi /\ q.anchored
           /\ q.anchor = Places!AnchorOf(c.lines, lo, hi)
      /\ q.syncedAt = c.mtime /\ ~q.stale /\ q.sync # "lost"
  BY <1>1, <1>3 DEF IsAnchored
<1>5. OkPin(q) BY <1>2, <1>3, <1>4, AnchoredOk
<1>6. Tells(q, c, w) /\ StandsThere(q, c, w) BY <1>1, <1>2, <1>3, <1>4, AnchoredStands
<1> QED BY <1>1, <1>2, <1>5, <1>6

LEMMA SyncedOk ==
  ASSUME DiskOk, NEW p, OkPin(p), NEW q, q = Places!Synced(p)
  PROVE  OkPin(q)
<1>1. CASE q = p BY <1>1
<1>2. CASE q # p
  <2>1. PICK at : SyncCase(p, q, at) BY <1>2, SyncCases
  <2>2. at \in DOMAIN disk BY <2>1, LocatedOnDisk DEF SyncCase
  <2>3. IsFile(disk[at]) BY <2>2 DEF DiskOk, OkFile
  <2>4. CASE ~p.anchored /\ IsAnchored(p, q, disk[at]) BY <2>2, <2>4, AnchoredCase
  <2>5. CASE p.anchored /\ p.anchor # {}
             /\ IsRematch(p, q, at, disk[at], Places!FollowAnchor(Places!The(p.anchor), p.lo, p.hi, disk[at].lines))
    BY <2>3, <2>5, RematchOk
  <2> QED BY <2>1, <2>4, <2>5 DEF SyncCase
<1> QED BY <1>1, <1>2

LEMMA EditedOk ==
  ASSUME DiskOk, NEW p, OkPin(p), NEW at \in DOMAIN disk, NEW lo \in Nat, NEW hi \in Nat, 1 <= lo,
         lo <= hi, NEW q,
         q = Places!Edited(p, at, disk[at], lo, hi)
  PROVE  /\ OkPin(q) /\ Tells(q, disk[at], Places!OwnOf(disk[at], lo, hi))
              /\ StandsThere(q, disk[at], Places!OwnOf(disk[at], lo, hi))
<1>1. PICK c, w : c = disk[at] /\ w = Places!OwnOf(c, lo, hi) OBVIOUS
<1>2. IsFile(c) BY <1>1 DEF DiskOk, OkFile
<1>3. IsPlaced(p) BY DEF OkPin
<1>4. /\ IsPlaced(q) /\ q.lo = lo /\ q.hi = hi /\ q.anchored
           /\ q.anchor = Places!AnchorOf(c.lines, lo, hi)
      /\ q.syncedAt = c.mtime /\ ~q.stale /\ q.sync = "ok"
  BY <1>1, <1>3, EditedIs
<1>5. OkPin(q) BY <1>2, <1>4, AnchoredOk
<1>6. Tells(q, c, w) /\ StandsThere(q, c, w) BY <1>1, <1>2, <1>4, AnchoredStands
<1> QED BY <1>1, <1>5, <1>6

LEMMA NewFile ==
  ASSUME Places!FilesAreLines, NEW lines \in Drafts \cup Scripts
  PROVE  OkFile(Places!Content(lines, 1), 0)
<1>1. lines \in Seq(Places!Range(lines)) BY DEF Places!FilesAreLines
<1>2. PICK n \in Nat : n = Len(lines) /\ DOMAIN lines = 1..n BY <1>1
<1>3. PICK ids : ids = [i \in 1..n |-> i] OBVIOUS
<1>4. \A i \in 1..n : lines[i] \in FileLines
  <2>1. \A i \in 1..n : lines[i] \in Places!Range(lines) BY <1>2 DEF Places!Range
  <2>2. Places!Range(lines) \subseteq FileLines BY DEF FileLines
  <2> QED BY <2>1, <2>2
<1>5. lines \in [1..n -> FileLines] /\ ids \in [1..n -> Int]
  <2>1. lines = [i \in 1..n |-> lines[i]] BY <1>1, <1>2
  <2> QED BY <1>3, <1>4, <2>1
<1>6. lines \in Seq(FileLines) /\ ids \in Seq(Int) BY <1>5, SeqDef
<1>7. Len(ids) = n /\ DOMAIN ids = 1..n BY <1>3
<1>8. Places!Content(lines, 1) = [lines |-> lines, ids |-> ids, mtime |-> 1]
  BY <1>2, <1>3 DEF Places!Content
<1>9. IsFile(Places!Content(lines, 1))
  <2> DEFINE c == Places!Content(lines, 1)
  <2>1. c.lines = lines /\ c.ids = ids /\ c.mtime = 1 BY ONLY <1>8
  <2>2. c = [lines |-> c.lines, ids |-> c.ids, mtime |-> c.mtime] BY ONLY <1>8, <2>1
  <2>3. \A i, j \in DOMAIN c.ids : c.ids[i] = c.ids[j] => i = j BY ONLY <1>3, <1>7, <2>1
  <2>4. Len(c.ids) = Len(c.lines) BY ONLY <1>2, <1>7, <2>1
  <2>5. 1 \in Int OBVIOUS
  <2> HIDE DEF c
  <2> QED BY ONLY <1>6, <2>1, <2>2, <2>3, <2>4, <2>5 DEF IsFile, c
<1> QED BY <1>3, <1>7, <1>8, <1>9 DEF OkFile

LEMMA NewPaths ==
  ASSUME Places!PathsAreNames
  PROVE  IsPath(Home) /\ IsPath(Places!PinnedPath) /\ IsPath(Places!OtherPath)
      /\ (\A r \in Roots : IsPath(r))
<1>1. Home \in Seq(STRING) /\ PinnedRel \in Seq(STRING) /\ OtherRel \in Seq(STRING)
      /\ \A r \in Roots : r \in Seq(STRING)
  BY DEF Places!PathsAreNames
<1>2. Home \o PinnedRel \in Seq(STRING) /\ Home \o OtherRel \in Seq(STRING) BY <1>1, ConcatProperties
<1> QED BY <1>1, <1>2 DEF IsPath, Paths, Places!PinnedPath, Places!OtherPath

LEMMA LegacyOk ==
  ASSUME Places!FilesAreLines, NEW lines \in FollowedFiles, lines \in Drafts \cup Scripts,
         NEW p \in Places!LegacyPins(Places!Content(lines, 1)),
         NEW c, c = Places!Content(lines, 1)
  PROVE  /\ OkPin(p) /\ Tells(p, c, Places!OwnOf(c, p.lo, p.hi))
              /\ StandsThere(p, c, Places!OwnOf(c, p.lo, p.hi)) /\ p.lo \in Nat /\ p.hi \in Nat
         /\ 1 <= p.lo /\ p.lo <= p.hi
<1>1. PICK lo, hi : lo = 2 /\ hi = Places!Min({3, Len(lines)}) OBVIOUS
<1>2. PICK n \in Nat : n = Len(lines) /\ n > 1 BY DEF Places!FilesAreLines
<1>3. hi \in Nat /\ lo \in Nat /\ 1 <= lo /\ lo <= hi
  <2>0. 3 \in Int /\ n \in Int BY <1>2
  <2>1. Places!Min({3, n}) = IF 3 <= n THEN 3 ELSE n BY ONLY <2>0, OfTwo
  <2> QED BY <1>1, <1>2, <2>1
<1>4. IsFile(c) BY NewFile DEF OkFile
<1>5. c.lines = lines BY DEF Places!Content
<1>6. CASE p = Places!NewPin(Places!PinnedPath, {}, lo, hi, TRUE, Places!AnchorOf(c.lines, lo, hi), c.mtime)
  <2>1. /\ IsPlaced(p) /\ p.lo = lo /\ p.hi = hi /\ p.anchored
             /\ p.anchor = Places!AnchorOf(c.lines, lo, hi)
        /\ p.syncedAt = c.mtime /\ ~p.stale /\ p.sync # "lost"
    BY <1>6 DEF Places!NewPin, IsPlaced, PlaceFields
  <2>2. OkPin(p) BY <1>3, <1>4, <2>1, AnchoredOk
  <2>3. PICK w : w = Places!OwnOf(c, lo, hi) OBVIOUS
  <2>4. Tells(p, c, w) /\ StandsThere(p, c, w) BY <1>3, <1>4, <2>1, <2>3, AnchoredStands
  <2> QED BY <1>3, <2>1, <2>2, <2>3, <2>4
<1>7. CASE p = Places!NewPin(Places!PinnedPath, {}, lo, hi, FALSE, {}, 0)
  <2>1. /\ IsPlaced(p) /\ p.lo = lo /\ p.hi = hi /\ ~p.anchored /\ p.anchor = {}
        /\ p.syncedAt = 0 /\ ~p.stale /\ p.sync # "lost"
    BY <1>7 DEF Places!NewPin, IsPlaced, PlaceFields
  <2> QED BY <1>3, <2>1 DEF OkPin, Tells, StandsThere
<1> QED BY <1>1, <1>5, <1>6, <1>7 DEF Places!LegacyPins

LEMMA InitOk == Places!PathsAreNames /\ Places!FilesAreLines /\ Places!Init => DiskOk /\ PinOk /\ Kept
<1> SUFFICES ASSUME Places!PathsAreNames, Places!FilesAreLines, Places!Init
  PROVE DiskOk /\ PinOk /\ Kept OBVIOUS
<1>1. PICK lines \in Drafts \cup Scripts :
         /\ disk = [f \in {Places!PinnedPath, Places!OtherPath} |-> Places!Content(lines, 1)]
         /\ pin \in {{}} \cup {{p} : p \in IF lines \in FollowedFiles
                                      THEN Places!LegacyPins(Places!Content(lines, 1)) ELSE {}}
         /\ own = IF pin = {} THEN <<>>
                  ELSE Places!OwnOf(Places!Content(lines, 1), Places!The(pin).lo, Places!The(pin).hi)
  BY DEF Places!Init
<1>2. root = Home /\ truth = {Places!PinnedPath} /\ edits = 0 BY DEF Places!Init
<1>3. PICK c : c = Places!Content(lines, 1) OBVIOUS
<1>4. OkFile(c, 0) BY <1>3, NewFile
<1>5. \A p \in pin : pin = {p} /\ lines \in FollowedFiles
      /\ p \in Places!LegacyPins(Places!Content(lines, 1)) /\ Places!The(pin) = p
  BY <1>1, TheOne
<1>6. disk[Places!PinnedPath] = c /\ Places!PinnedPath \in DOMAIN disk BY <1>1, <1>3
<1>7. ASSUME NEW p \in pin
      PROVE  OkPin(p) /\ OkOwn(own, 0) /\ Tells(p, c, own) /\ StandsThere(p, c, own)
  <2>1. own = Places!OwnOf(c, p.lo, p.hi) BY <1>1, <1>3, <1>5, <1>7
  <2>2. /\ OkPin(p) /\ Tells(p, c, own) /\ StandsThere(p, c, own) /\ p.lo \in Nat /\ p.hi \in Nat
             /\ 1 <= p.lo /\ p.lo <= p.hi
    BY <1>3, <1>5, <2>1, LegacyOk
  <2> QED BY <1>4, <2>1, <2>2, OwnOk
<1>8. OkOwn(own, 0)
  <2>1. CASE pin = {} BY <1>1, <2>1 DEF OkOwn, AreIds
  <2> QED BY <1>7, <2>1
<1>9. DiskOk
  <2>1. \A f \in DOMAIN disk : IsPath(f) /\ disk[f] = c BY <1>1, <1>3, NewPaths
  <2> QED BY <1>2, <1>4, <1>6, <1>8, <2>1, NewPaths DEF DiskOk
<1> QED BY <1>2, <1>5, <1>6, <1>7, <1>9 DEF PinOk, Kept

(* Steps that leave the pin, its lines and the files alone.                  *)
LEMMA StillOk ==
  ASSUME DiskOk, PinOk, Kept, UNCHANGED <<disk, pin, truth, own, unseen, edits>>, IsPath(root'), misled
         => misled'
  PROVE  DiskOk' /\ PinOk' /\ Kept'
<1>1. DiskOk' BY DEF DiskOk
<1>2. PinOk' BY DEF PinOk
<1>3. Kept' BY DEF Kept
<1> QED BY <1>1, <1>2, <1>3

LEMMA SaveOk == DiskOk /\ PinOk /\ Kept /\ Places!Save => DiskOk' /\ PinOk' /\ Kept'
<1> SUFFICES ASSUME DiskOk, PinOk, Kept, Places!Save PROVE DiskOk' /\ PinOk' /\ Kept' OBVIOUS
<1>1. PICK t : truth = {t} /\ t \in DOMAIN disk /\ Places!The(truth) = t
  BY TheOne DEF Places!Save, DiskOk
<1>2. PICK c : c = disk[t] OBVIOUS
<1>3. OkFile(c, edits) /\ IsFile(c) BY <1>1, <1>2 DEF DiskOk, OkFile
<1>4. PICK r :
         /\ r.hi \in DOMAIN c.lines /\ r.lo \in 1..r.hi
         /\ pin' = {Places!NewPin(t, {Places!RelTo(t, root)}, r.lo, r.hi, TRUE,
                                  Places!AnchorOf(c.lines, r.lo, r.hi), c.mtime)}
         /\ own' = Places!OwnOf(c, r.lo, r.hi)
  BY <1>1, <1>2 DEF Places!Save
<1>5. PICK lo, hi : lo = r.lo /\ hi = r.hi OBVIOUS
<1>6. lo \in Nat /\ hi \in Nat /\ 1 <= lo /\ lo <= hi
  <2>1. c.lines \in Seq(FileLines) BY <1>3 DEF IsFile
  <2>2. hi \in 1..Len(c.lines) /\ Len(c.lines) \in Nat BY <1>4, <1>5, <2>1
  <2> QED BY <1>4, <1>5, <2>2
<1>7. PICK q : q = Places!NewPin(t, {Places!RelTo(t, root)}, lo, hi, TRUE,
                                      Places!AnchorOf(c.lines, lo, hi), c.mtime)
  OBVIOUS
<1>8. /\ IsPlaced(q) /\ q.lo = lo /\ q.hi = hi /\ q.anchored
           /\ q.anchor = Places!AnchorOf(c.lines, lo, hi)
      /\ q.syncedAt = c.mtime /\ ~q.stale /\ q.sync # "lost"
  BY <1>7 DEF Places!NewPin, IsPlaced, PlaceFields
<1>9. OkPin(q) BY <1>3, <1>6, <1>8, AnchoredOk
<1>10. pin' = {q} /\ own' = Places!OwnOf(c, lo, hi) BY <1>4, <1>5, <1>7
<1>11. Tells(q, c, own') /\ StandsThere(q, c, own') BY <1>3, <1>6, <1>8, <1>10, AnchoredStands
<1>12. edits \in Nat BY DEF DiskOk
<1>13. OkOwn(own', edits) BY <1>3, <1>6, <1>10, <1>12, OwnOk
<1>14. UNCHANGED <<disk, truth, root, edits>> BY DEF Places!Save
<1>15. DiskOk' BY <1>13, <1>14 DEF DiskOk
<1>16. PinOk' BY <1>9, <1>10 DEF PinOk
<1>17. Kept' BY <1>1, <1>2, <1>10, <1>11, <1>14 DEF Kept
<1> QED BY <1>15, <1>16, <1>17

LEMMA SyncOk == DiskOk /\ PinOk /\ Kept /\ Places!LocatedIsOwnFile /\ Places!Sync => DiskOk' /\ PinOk'
    /\ Kept'
<1> SUFFICES ASSUME DiskOk, PinOk, Kept, Places!LocatedIsOwnFile, Places!Sync
  PROVE DiskOk' /\ PinOk' /\ Kept' OBVIOUS
<1>1. PICK p : p \in pin /\ pin = {p} /\ OkPin(p) /\ Places!The(pin) = p
  BY TheOne DEF Places!Sync, PinOk
<1>2. PICK q : q = Places!Synced(p) OBVIOUS
<1>3. pin' = {q} BY <1>1, <1>2 DEF Places!Sync
<1>4. OkPin(q) BY <1>1, <1>2, SyncedOk
<1>5. UNCHANGED <<disk, truth, root, edits, unseen>> BY DEF Places!Sync
<1>6. PinOk' BY <1>3, <1>4 DEF PinOk
<1>7. own' = IF p.anchored THEN own ELSE IF q.anchored THEN Places!OwnOf(disk[p.file], p.lo, p.hi) ELSE own
  BY <1>1, <1>3 DEF Places!Sync
<1>8. CASE q = p
  <2>1. own' = own /\ pin' = pin BY <1>1, <1>3, <1>7, <1>8
  <2>2. misled => misled' BY DEF Places!Sync
  <2> QED BY <1>5, <2>1, <2>2, StillOk DEF DiskOk
<1>9. CASE q # p
  <2>1. PICK at : SyncCase(p, q, at) BY <1>1, <1>2, <1>9, SyncCases
  <2>2. at \in DOMAIN disk BY <2>1, LocatedOnDisk DEF SyncCase
  <2>3. OkFile(disk[at], edits) /\ IsFile(disk[at]) /\ edits \in Nat BY <2>2 DEF DiskOk, OkFile
  <2>4. ~misled' => ~misled /\ truth = {at}
    <3> SUFFICES ASSUME ~misled' PROVE ~misled /\ truth = {at} OBVIOUS
    <3>1. ~misled /\ ~Places!Astray(links) /\ Places!Serving BY <1>1, <1>3, <1>9 DEF Places!Sync
    <3>2. Places!Locate(p.file, p.fileRel) \subseteq truth BY <1>1, <3>1 DEF Places!LocatedIsOwnFile
    <3>3. at \in truth BY <2>1, <3>2 DEF SyncCase
    <3> QED BY <3>1, <3>3 DEF DiskOk
  <2>5. CASE ~p.anchored /\ at = p.file /\ IsAnchored(p, q, disk[at])
    <3>1. /\ Tells(q, disk[at], Places!OwnOf(disk[at], p.lo, p.hi))
               /\ StandsThere(q, disk[at], Places!OwnOf(disk[at], p.lo, p.hi))
      BY <1>1, <2>2, <2>5, AnchoredCase
    <3>2. own' = Places!OwnOf(disk[at], p.lo, p.hi) BY <1>7, <2>5 DEF IsAnchored
    <3>3. OkOwn(own', edits) BY <1>1, <2>3, <3>2, OwnOk DEF OkPin
    <3>4. DiskOk' BY <1>5, <3>3 DEF DiskOk
    <3>5. Kept' BY <1>3, <1>5, <2>4, <3>1, <3>2 DEF Kept
    <3> QED BY <1>6, <3>4, <3>5
  <2>6. CASE p.anchored /\ p.anchor # {}
             /\ IsRematch(p, q, at, disk[at], Places!FollowAnchor(Places!The(p.anchor), p.lo, p.hi, disk[at].lines))
    <3>1. own' = own /\ AreIds(own) BY <1>7, <2>6 DEF DiskOk, OkOwn
    <3>2. DiskOk' BY <1>5, <3>1 DEF DiskOk
    <3>3. ASSUME ~misled' PROVE truth = {at} /\ Tells(q, disk[at], own) /\ StandsThere(q, disk[at], own)
      <4>1. truth = {at} /\ Tells(p, disk[at], own) BY <1>1, <2>4, <3>3 DEF Kept
      <4>2. Tells(q, disk[at], own) /\ StandsThere(q, disk[at], own)
        BY <1>1, <2>3, <2>6, <3>1, <4>1, RematchStands
      <4> QED BY <4>1, <4>2
    <3>4. Kept' BY <1>3, <1>5, <3>1, <3>3 DEF Kept
    <3> QED BY <1>6, <3>2, <3>4
  <2> QED BY <2>1, <2>5, <2>6 DEF SyncCase
<1> QED BY <1>8, <1>9

LEMMA EditRangeOk == DiskOk /\ PinOk /\ Kept /\ Places!LocatedIsOwnFile /\ Places!EditRange => DiskOk'
    /\ PinOk' /\ Kept'
<1> SUFFICES ASSUME DiskOk, PinOk, Kept, Places!LocatedIsOwnFile, Places!EditRange
  PROVE DiskOk' /\ PinOk' /\ Kept' OBVIOUS
<1>1. PICK p, r, at, lo, hi :
         /\ p \in pin /\ r = Places!Synced(p) /\ at \in Places!Locate(r.file, r.fileRel)
         /\ lo \in DOMAIN disk[at].lines /\ hi \in DOMAIN disk[at].lines /\ lo <= hi
         /\ pin' = {Places!Edited(r, at, disk[at], lo, hi)} /\ own' = Places!OwnOf(disk[at], lo, hi)
  BY DEF Places!EditRange
<1>2. OkPin(p) /\ OkPin(r) BY <1>1, SyncedOk DEF PinOk
<1>3. at \in DOMAIN disk BY <1>1, LocatedOnDisk
<1>4. OkFile(disk[at], edits) /\ IsFile(disk[at]) /\ edits \in Nat BY <1>3 DEF DiskOk, OkFile
<1>5. lo \in Nat /\ hi \in Nat /\ 1 <= lo
  <2>1. disk[at].lines \in Seq(FileLines) BY <1>4 DEF IsFile
  <2> QED BY <1>1, <2>1
<1>6. PICK q : q = Places!Edited(r, at, disk[at], lo, hi) OBVIOUS
<1>7. OkPin(q) /\ Tells(q, disk[at], Places!OwnOf(disk[at], lo, hi))
      /\ StandsThere(q, disk[at], Places!OwnOf(disk[at], lo, hi))
  BY <1>1, <1>2, <1>3, <1>5, <1>6, EditedOk
<1>8. UNCHANGED <<disk, truth, root>> /\ edits' = edits + 1 BY DEF Places!EditRange
<1>9. OkOwn(own', edits) BY <1>1, <1>4, <1>5, OwnOk
<1>10. edits' \in Nat /\ edits <= edits' BY <1>4, <1>8
<1>11. OkOwn(own', edits') /\ \A f \in DOMAIN disk : OkFile(disk[f], edits')
  BY <1>4, <1>9, <1>10, MoreOk DEF DiskOk
<1>12. DiskOk' BY <1>8, <1>10, <1>11 DEF DiskOk
<1>13. PinOk' BY <1>1, <1>6, <1>7 DEF PinOk
<1>14. ASSUME ~misled' PROVE truth = {at}
  <2>1. ~misled /\ ~Places!Astray(links) /\ Places!Serving BY <1>14 DEF Places!EditRange
  <2>2. Places!Locate(r.file, r.fileRel) \subseteq truth BY <1>1, <2>1 DEF Places!LocatedIsOwnFile
  <2> QED BY <1>1, <2>2 DEF DiskOk
<1>15. Kept' BY <1>1, <1>6, <1>7, <1>8, <1>14 DEF Kept
<1> QED BY <1>12, <1>13, <1>15

(* What an edit leaves of the file c, n edits having been made before.       *)
EditedTo(c, f, n) == OkFile(f, n + 1) /\ Remembers(c, f, -n) /\ f.mtime >= c.mtime

LEMMA WrittenFile ==
  ASSUME NEW c, NEW n \in Nat, OkFile(c, n), NEW e, IsFile(e), Remembers(c, e, -n), e.mtime = c.mtime,
         NEW t \in Int, t >= c.mtime, NEW f, f = [e EXCEPT !.mtime = t]
  PROVE  EditedTo(c, f, n) /\ f.mtime = t
<1>1. e = [lines |-> e.lines, ids |-> e.ids, mtime |-> e.mtime] BY DEF IsFile
<1>2. f = [lines |-> e.lines, ids |-> e.ids, mtime |-> t] BY <1>1
<1>3. f.lines = e.lines /\ f.ids = e.ids /\ f.mtime = t BY <1>2
<1>4. IsFile(f) BY <1>2, <1>3 DEF IsFile
<1>5. Remembers(c, f, -n) BY <1>3 DEF Remembers
<1>6. \A i \in DOMAIN f.ids : f.ids[i] > -(n + 1)
  <2> SUFFICES ASSUME NEW i \in DOMAIN f.ids PROVE f.ids[i] > -(n + 1) OBVIOUS
  <2>1. f.ids[i] \in Int BY <1>4 DEF IsFile
  <2>2. f.ids[i] = -n \/ f.ids[i] > -n BY <1>5 DEF Remembers, OkFile
  <2> QED BY <2>1, <2>2
<1> QED BY <1>3, <1>4, <1>5, <1>6 DEF EditedTo, OkFile

LEMMA EditOk == DiskOk /\ PinOk /\ Kept /\ Places!Edit => DiskOk' /\ PinOk' /\ Kept'
<1> SUFFICES ASSUME DiskOk, PinOk, Kept, Places!Edit PROVE DiskOk' /\ PinOk' /\ Kept' OBVIOUS
<1>0. truth # {} /\ pin # {} BY DEF Places!Edit
<1>1. PICK T : truth = {T} /\ T \in DOMAIN disk /\ Places!The(truth) = T
  BY <1>0, TheOne DEF DiskOk
<1>2. PICK p : pin = {p} /\ OkPin(p) /\ Places!The(pin) = p
  BY <1>0, TheOne DEF PinOk
<1>3. PICK c, n : c = disk[T] /\ n = edits OBVIOUS
<1>4. OkFile(c, n) /\ IsFile(c) /\ n \in Nat BY <1>1, <1>3 DEF DiskOk, OkFile
<1>5. PICK e \in Places!Revisions(c), newer \in BOOLEAN :
         /\ disk' = [disk EXCEPT ![T] = [e EXCEPT !.mtime = IF newer THEN @ + 1 ELSE @]]
         /\ unseen' = (~newer /\ (unseen \/ pin = {} \/ Places!The(pin).syncedAt >= c.mtime))
  <2>1. Places!The(truth) = T /\ disk[T] = c BY <1>1, <1>3
  <2> QED BY <2>1 DEF Places!Edit
<1>6. \/ \E i \in 1..(Len(c.lines) + 1), l \in NewTexts : IsPut(c, e, -n, i, l)
      \/ \E i \in 1..Len(c.lines) : IsTaken(c, e, i)
      \/ \E i \in 1..Len(c.lines), l \in NewTexts : IsReworded(c, e, -n, i, l)
  <2>1. Places!Fresh = -n BY <1>3 DEF Places!Fresh
  <2>2. CASE e \in {Places!WithLine(c, i, l) : i \in 1..(Len(c.lines) + 1), l \in NewTexts}
    <3>1. PICK i \in 1..(Len(c.lines) + 1), l \in NewTexts : e = Places!WithLine(c, i, l) BY <2>2
    <3>2. IsPut(c, e, -n, i, l) BY <2>1, <3>1 DEF Places!WithLine, IsPut
    <3> QED BY <3>2
  <2>3. CASE e \in {Places!Without(c, i) : i \in IF Len(c.lines) > 1 THEN 1..Len(c.lines) ELSE {}}
    <3>1. PICK i \in 1..Len(c.lines) : e = Places!Without(c, i) BY <2>3
    <3>2. IsTaken(c, e, i) BY <3>1 DEF Places!Without, IsTaken
    <3> QED BY <3>2
  <2>4. CASE e \in {Places!Reworded(c, i, l) : i \in 1..Len(c.lines), l \in NewTexts}
    <3>1. PICK i \in 1..Len(c.lines), l \in NewTexts : e = Places!Reworded(c, i, l) BY <2>4
    <3>2. IsReworded(c, e, -n, i, l) BY <2>1, <3>1 DEF Places!Reworded, IsReworded
    <3> QED BY <3>2
  <2> QED BY <1>5, <2>2, <2>3, <2>4 DEF Places!Revisions
<1>7. -n \in Int /\ \A i \in DOMAIN c.ids : c.ids[i] # -n
  <2>1. \A i \in DOMAIN c.ids : c.ids[i] \in Int /\ c.ids[i] > -n BY <1>4 DEF OkFile, IsFile
  <2> QED BY <1>4, <2>1
<1>8. IsFile(e) /\ Remembers(c, e, -n) /\ e.mtime = c.mtime
  BY <1>4, <1>6, <1>7, EditedFile
<1>9. UNCHANGED <<root, pin, truth, own, misled>> /\ edits' = n + 1
  BY <1>3 DEF Places!Edit, Places!linkVars
<1>10. PICK f : disk' = [disk EXCEPT ![T] = f] /\ EditedTo(c, f, n)
            /\ (f.mtime = c.mtime + 1 \/ (f.mtime = c.mtime /\ (~unseen' => p.syncedAt < c.mtime)))
  <2>0. c.mtime \in Int /\ c.mtime + 1 \in Int /\ c.mtime + 1 >= c.mtime /\ c.mtime >= c.mtime
    BY <1>4 DEF IsFile
  <2>1. CASE newer
    <3>1. PICK f : f = [e EXCEPT !.mtime = c.mtime + 1] OBVIOUS
    <3>2. disk' = [disk EXCEPT ![T] = f] BY <1>5, <1>8, <2>1, <3>1
    <3>3. EditedTo(c, f, n) /\ f.mtime = c.mtime + 1 BY <1>4, <1>8, <2>0, <3>1, WrittenFile
    <3> QED BY <3>2, <3>3
  <2>2. CASE ~newer
    <3>1. PICK f : f = [e EXCEPT !.mtime = c.mtime] OBVIOUS
    <3>2. disk' = [disk EXCEPT ![T] = f] BY <1>5, <1>8, <2>2, <3>1
    <3>3. EditedTo(c, f, n) /\ f.mtime = c.mtime BY <1>4, <1>8, <2>0, <3>1, WrittenFile
    <3>4. ~unseen' => ~(p.syncedAt >= c.mtime) BY <1>2, <1>5, <2>2
    <3>5. p.syncedAt \in Int BY <1>2 DEF OkPin
    <3>6. ~unseen' => p.syncedAt < c.mtime BY <2>0, <3>4, <3>5
    <3> QED BY <3>2, <3>3, <3>6
  <2> QED BY <2>1, <2>2
<1>11. disk'[T] = f /\ \A g \in DOMAIN disk : g # T => disk'[g] = disk[g]
  BY <1>1, <1>10
<1>12. DOMAIN disk' = DOMAIN disk BY <1>10
<1>13. n \in Nat /\ n + 1 \in Nat /\ n <= n + 1 BY <1>4
<1>14. DiskOk'
  <2>1. OkFile(f, n + 1) BY <1>10 DEF EditedTo
  <2>2. \A g \in DOMAIN disk : IsPath(g) /\ OkFile(disk[g], n + 1) BY <1>3, <1>13, MoreOk DEF DiskOk
  <2>3. \A g \in DOMAIN disk' : IsPath(g) /\ OkFile(disk'[g], n + 1) BY <1>11, <1>12, <2>1, <2>2
  <2>4. OkOwn(own, n + 1) BY <1>3, <1>13, MoreOk DEF DiskOk
  <2> QED BY <1>1, <1>9, <1>12, <1>13, <2>3, <2>4 DEF DiskOk
<1>15. PinOk' BY <1>9 DEF PinOk
<1>16. ASSUME ~misled PROVE Tells(p, f, own) /\ (~unseen' => StandsThere(p, f, own))
  <2>1. Tells(p, c, own) BY <1>1, <1>2, <1>3, <1>16 DEF Kept
  <2>2. IsFile(f) /\ Remembers(c, f, -n) /\ f.mtime >= c.mtime BY <1>10 DEF EditedTo, OkFile
  <2>3. AreIds(own) /\ \A k \in DOMAIN own : own[k] # -n
    <3>1. AreIds(own) /\ \A k \in DOMAIN own : own[k] > -n BY <1>3 DEF DiskOk, OkOwn
    <3>2. \A k \in DOMAIN own : own[k] \in Int BY <3>1 DEF AreIds
    <3> QED BY <1>4, <3>1, <3>2
  <2>4. Tells(p, f, own) BY <1>2, <1>4, <2>1, <2>2, <2>3, EditTells
  <2>5. c.mtime \in Int /\ p.syncedAt \in Int BY <1>2, <1>4 DEF IsFile, OkPin
  <2>6. ASSUME ~unseen', p.anchored PROVE ~(p.syncedAt >= f.mtime)
    <3>1. p.syncedAt <= c.mtime BY <2>1, <2>6 DEF Tells
    <3> QED BY <1>10, <2>5, <2>6, <3>1
  <2> QED BY <2>4, <2>6 DEF StandsThere
<1>17. Kept' BY <1>1, <1>2, <1>9, <1>11, <1>16 DEF Kept
<1> QED BY <1>14, <1>15, <1>17

LEMMA MoveOk == Places!PathsAreNames /\ DiskOk /\ PinOk /\ Kept /\ Places!MoveCheckout => DiskOk'
    /\ PinOk' /\ Kept'
<1> SUFFICES ASSUME Places!PathsAreNames, DiskOk, PinOk, Kept, Places!MoveCheckout
  PROVE DiskOk' /\ PinOk' /\ Kept' OBVIOUS
<1>1. PICK to \in Roots : /\ \A x \in DOMAIN disk : ~Places!Under(x, to)
         /\ disk' = [q \in {Places!Renamed(x, to) : x \in DOMAIN disk} |->
                      disk[CHOOSE x \in DOMAIN disk : Places!Renamed(x, to) = q]]
         /\ truth' = {Places!Renamed(x, to) : x \in truth}
         /\ Places!StartAt(to, links')
  BY DEF Places!MoveCheckout
<1>2. UNCHANGED <<pin, own, unseen, edits>> BY DEF Places!MoveCheckout
<1>3. root' = to /\ (misled => misled') BY <1>1 DEF Places!StartAt
<1>4. IsPath(to) /\ IsPath(root) /\ \A x \in DOMAIN disk : IsPath(x) BY <1>1, NewPaths DEF DiskOk
<1>5. ASSUME NEW x \in DOMAIN disk
      PROVE  Places!Renamed(x, to) \in DOMAIN disk' /\ disk'[Places!Renamed(x, to)] = disk[x]
          /\ IsPath(Places!Renamed(x, to))
  <2>1. \A y \in DOMAIN disk : Places!Renamed(y, to) = Places!Renamed(x, to) => y = x
    BY <1>1, <1>4, RenamedApart
  <2>2. PICK y : y = CHOOSE z \in DOMAIN disk : Places!Renamed(z, to) = Places!Renamed(x, to) OBVIOUS
  <2>3. y \in DOMAIN disk /\ Places!Renamed(y, to) = Places!Renamed(x, to) BY <2>2
  <2>4. y = x BY <2>1, <2>3
  <2>5. Places!Renamed(x, to) \in DOMAIN disk' /\ disk'[Places!Renamed(x, to)] = disk[y] BY <1>1, <2>2
  <2> QED BY <1>4, <2>4, <2>5, RenamedIs
<1>6. \A f \in DOMAIN disk' : \E x \in DOMAIN disk : f = Places!Renamed(x, to) BY <1>1
<1>7. \A f \in DOMAIN disk' : IsPath(f) /\ OkFile(disk'[f], edits) BY <1>5, <1>6 DEF DiskOk
<1>8. \A t \in truth' : \E x \in truth : t = Places!Renamed(x, to) /\ truth = {x} /\ x \in DOMAIN disk
  BY <1>1 DEF DiskOk
<1>9. \A t \in truth' : truth' = {t} /\ t \in DOMAIN disk' BY <1>1, <1>5, <1>8
<1>10. DiskOk' BY <1>2, <1>3, <1>4, <1>7, <1>9 DEF DiskOk
<1>11. PinOk' BY <1>2 DEF PinOk
<1>12. Kept' BY <1>2, <1>3, <1>5, <1>8 DEF Kept
<1> QED BY <1>10, <1>11, <1>12

LEMMA ServeOk == DiskOk /\ PinOk /\ Kept /\ Places!ServeFrom => DiskOk' /\ PinOk' /\ Kept'
<1> SUFFICES ASSUME DiskOk, PinOk, Kept, Places!ServeFrom PROVE DiskOk' /\ PinOk' /\ Kept' OBVIOUS
<1>1. PICK to : Places!StartAt(to, links) /\ IsPath(to)
  <2>1. root \in Seq(STRING) BY DEF DiskOk, IsPath, Paths
  <2>2. CASE Len(root) > 1 /\ Places!StartAt(Places!Front(root), links)
    <3>1. Places!Front(root) \in Seq(STRING)
      <4>1. Len(root) - 1 \in 0..Len(root) BY <2>1, <2>2
      <4> QED BY <2>1, <4>1 DEF Places!Front
    <3> QED BY <2>2, <3>1 DEF IsPath, Paths
  <2>3. CASE \E x \in DOMAIN disk : Places!Under(x, root) /\ Len(x) > Len(root) + 1
             /\ Places!StartAt(SubSeq(x, 1, Len(root) + 1), links)
    <3>1. PICK x \in DOMAIN disk : Len(x) > Len(root) + 1
               /\ Places!StartAt(SubSeq(x, 1, Len(root) + 1), links) BY <2>3
    <3>2. x \in Seq(STRING) BY DEF DiskOk, IsPath, Paths
    <3>3. SubSeq(x, 1, Len(root) + 1) \in Seq(STRING)
      <4>1. PICK n \in Nat : n = Len(root) + 1 /\ n <= Len(x) BY <2>1, <3>1, <3>2
      <4> QED BY <3>2, <4>1
    <3> QED BY <3>1, <3>3 DEF IsPath, Paths
  <2> QED BY <2>2, <2>3 DEF Places!ServeFrom
<1>2. root' = to /\ (misled => misled') BY <1>1 DEF Places!StartAt
<1>3. UNCHANGED <<disk, pin, truth, own, unseen, edits>> BY DEF Places!ServeFrom
<1> QED BY <1>1, <1>2, <1>3, StillOk

LEMMA RemoveOk == DiskOk /\ PinOk /\ Kept /\ Places!RemoveFile => DiskOk' /\ PinOk' /\ Kept'
<1> SUFFICES ASSUME DiskOk, PinOk, Kept, Places!RemoveFile PROVE DiskOk' /\ PinOk' /\ Kept' OBVIOUS
<1>1. disk' = [f \in DOMAIN disk \ truth |-> disk[f]] /\ truth' = {} BY DEF Places!RemoveFile
<1>2. UNCHANGED <<root, pin, own, edits>> BY DEF Places!RemoveFile
<1>3. DiskOk' BY <1>1, <1>2 DEF DiskOk
<1>4. PinOk' BY <1>2 DEF PinOk
<1>5. Kept' BY <1>1 DEF Kept
<1> QED BY <1>3, <1>4, <1>5

LEMMA StepOk == Places!PathsAreNames /\ DiskOk /\ PinOk /\ Kept /\ Places!LocatedIsOwnFile
    /\ [Places!Next]_Places!vars => DiskOk' /\ PinOk' /\ Kept'
<1> SUFFICES ASSUME Places!PathsAreNames, DiskOk, PinOk, Kept, Places!LocatedIsOwnFile,
                    [Places!Next]_Places!vars PROVE DiskOk' /\ PinOk' /\ Kept' OBVIOUS
<1>0. IsPath(root) BY DEF DiskOk
<1>1. CASE Places!Pick BY <1>0, <1>1, StillOk DEF Places!Pick, Places!linkVars
<1>2. CASE Places!Save BY <1>2, SaveOk
<1>3. CASE Places!Edit BY <1>3, EditOk
<1>4. CASE Places!Sync BY <1>4, SyncOk
<1>5. CASE Places!EditRange BY <1>5, EditRangeOk
<1>6. CASE Places!MoveCheckout BY <1>6, MoveOk
<1>7. CASE Places!ServeFrom BY <1>7, ServeOk
<1>8. CASE Places!RemoveFile BY <1>8, RemoveOk
<1>9. CASE Places!Relink BY <1>0, <1>9, StillOk DEF Places!Relink
<1>10. CASE Places!Restart BY <1>0, <1>10, StillOk DEF Places!Restart, Places!StartAt
<1>11. CASE UNCHANGED Places!vars BY <1>0, <1>11, StillOk DEF Places!vars
<1> QED BY <1>1, <1>2, <1>3, <1>4, <1>5, <1>6, <1>7, <1>8, <1>9, <1>10, <1>11 DEF Places!Next

(* The surface and the mark of a re-match owed are what they may be.        *)
Flags == surface \in {"latex", "figure"} /\ unseen \in BOOLEAN

LEMMA FlagsKept == Flags /\ [Places!Next]_Places!vars => Flags'
<1> SUFFICES ASSUME Flags, [Places!Next]_Places!vars PROVE Flags' OBVIOUS
<1>1. surface' = surface
  BY DEF Places!Next, Places!vars, Places!Pick, Places!Save, Places!Edit, Places!Sync,
      Places!EditRange, Places!MoveCheckout, Places!ServeFrom, Places!RemoveFile, Places!Relink,
          Places!Restart
<1>2. CASE Places!Edit
  <2>1. PICK c, e, newer : unseen' = (~newer
             /\ (unseen \/ pin = {} \/ Places!The(pin).syncedAt >= c.mtime)) BY <1>2 DEF Places!Edit
  <2> QED BY <1>1, <2>1 DEF Flags
<1>3. CASE Places!Save BY <1>1, <1>3 DEF Flags, Places!Save
<1>4. CASE Places!EditRange BY <1>1, <1>4 DEF Flags, Places!EditRange
<1>5. CASE ~Places!Edit /\ ~Places!Save /\ ~Places!EditRange
  <2>1. unseen' = unseen
    BY <1>5 DEF Places!Next, Places!vars, Places!Pick, Places!Sync, Places!MoveCheckout,
        Places!ServeFrom, Places!RemoveFile, Places!Relink, Places!Restart
  <2> QED BY <1>1, <2>1 DEF Flags
<1> QED BY <1>2, <1>3, <1>4, <1>5

LEMMA TypesHold == Flags /\ DiskOk /\ PinOk => Places!TypeOK
<1> SUFFICES ASSUME Flags, DiskOk, PinOk PROVE Places!TypeOK OBVIOUS
<1>1. \A p \in pin : p.lo <= p.hi /\ p.lo >= 1 /\ p.rev \in Nat /\ (p.stale <=> p.sync = "lost")
  BY DEF PinOk, OkPin, IsPlaced
<1>2. \A f \in DOMAIN disk : Len(disk[f].lines) = Len(disk[f].ids) BY DEF DiskOk, OkFile, IsFile
<1>3. truth \subseteq DOMAIN disk BY DEF DiskOk
<1> QED BY <1>1, <1>2, <1>3 DEF Places!TypeOK, Flags

LEMMA SameSize ==
  ASSUME NEW S
  PROVE  Places!Cardinality(S) = Cardinality(S)
BY DEF Places!Cardinality, Cardinality

LEMMA JustOne ==
  ASSUME NEW n \in Nat, NEW S, S \subseteq 1..n, Places!Cardinality(S) = 1, NEW i \in S, NEW j \in S
  PROVE  i = j
<1>1. IsFiniteSet(1..n) BY FS_Interval
<1>2. IsFiniteSet(S) BY <1>1, FS_Subset
<1> QED BY <1>2, SameSize, FS_Singleton

LEMMA LinesKept == DiskOk /\ PinOk /\ Kept => Places!PinKeepsItsLines
<1> SUFFICES ASSUME DiskOk, PinOk, Kept, NEW p \in pin, truth # {}, own # <<>>,
                    Places!Locate(p.file, p.fileRel) = truth,
                    Places!Synced(p) = p, ~unseen, ~misled, p.anchored, p.anchor # {},
                    NEW now, now = disk[Places!The(truth)],
                    \A l \in {l \in Places!Range(now.lines) : \E a \in p.anchor : l \in {a.head, a.tail}} :
                        Places!Cardinality({i \in DOMAIN now.lines : now.lines[i] = l}) = 1,
                    NEW at \in DOMAIN now.ids, at + Len(own) - 1 <= Len(now.ids),
                        Places!StandsTogether(now, at)
             PROVE  ~p.stale /\ p.lo = at /\ p.hi = at + Len(own) - 1
  BY DEF Places!PinKeepsItsLines
<1>1. PICK t : truth = {t} /\ t \in DOMAIN disk /\ Places!The(truth) = t /\ now = disk[t]
  BY TheOne DEF DiskOk
<1>2. OkPin(p) /\ IsPlaced(p) BY DEF PinOk, OkPin
<1>3. PICK a : p.anchor = {a} /\ Places!The(p.anchor) = a BY <1>2, TheOne DEF OkPin
<1>4. IsFile(now) BY <1>1 DEF DiskOk, OkFile
<1>5. p.syncedAt >= now.mtime
  <2>1. p = Places!Resync(p, t) BY <1>1, <1>2, SyncedPlace
  <2>2. CASE Places!InSync(p, now, t # p.file) BY <2>2 DEF Places!InSync
  <2>3. CASE ~Places!InSync(p, now, t # p.file)
    <3>1. p = Places!Rematched(p, t, now) BY <1>1, <2>1, <2>3 DEF Places!Resync
    <3>2. PICK to : to = Places!FollowAnchor(Places!The(p.anchor), p.lo, p.hi, now.lines) OBVIOUS
    <3>3. IsRematch(p, Places!Rematched(p, t, now), t, now, to) BY <1>2, <3>2, RematchedIs
    <3>4. p.syncedAt = now.mtime BY <3>1, <3>3 DEF IsRematch
    <3> QED BY <1>4, <3>4 DEF IsFile
  <2> QED BY <2>2, <2>3
<1>6. StandsThere(p, now, own) BY <1>1 DEF Kept
<1>7. OnlyEnds(a, now)
  <2>1. PICK n \in Nat : DOMAIN now.lines = 1..n
    <3>1. now.lines \in Seq(FileLines) BY <1>4 DEF IsFile
    <3> QED BY <3>1
  <2> SUFFICES ASSUME NEW i \in DOMAIN now.lines, NEW j \in DOMAIN now.lines,
                      now.lines[i] = now.lines[j],
                      now.lines[i] \in {a.head, a.tail}
               PROVE  i = j
    BY DEF OnlyEnds
  <2>2. PICK l : l = now.lines[i] OBVIOUS
  <2>3. PICK S : S = {k \in DOMAIN now.lines : now.lines[k] = l} OBVIOUS
  <2>4. l \in Places!Range(now.lines) /\ a \in p.anchor /\ l \in {a.head, a.tail}
    BY <1>3, <2>2 DEF Places!Range
  <2>5. Places!Cardinality(S) = 1 BY <2>3, <2>4
  <2>6. S \subseteq 1..n /\ i \in S /\ j \in S BY <2>1, <2>2, <2>3
  <2> QED BY <2>5, <2>6, JustOne
<1>8. Standing(now, own, at) BY DEF Standing, Places!StandsTogether
<1> QED BY <1>3, <1>5, <1>6, <1>7, <1>8 DEF StandsThere, StandsOn

(* As long as no transaction takes another file for the pin's own, which   *)
(* TLC checks (LocatedIsOwnFile), a pin just re-matched stands on exactly  *)
(* the lines it was put on while they stand together and its ends read     *)
(* like no other line - for every file, edit, move and every number of     *)
(* them (pins/location/position.py, follow_anchor, resync): PinKeepsItsLines*)
(* and the types, by Kept: the anchor goes on telling the lines' ends, and *)
(* a pin as new as its file stands on them.                                *)
THEOREM PinsStand ==
  ASSUME Places!PathsAreNames, Places!FilesAreLines
  PROVE  Places!Spec /\ []Places!LocatedIsOwnFile => [](Places!TypeOK /\ Places!PinKeepsItsLines)
<1>1. Places!Init => DiskOk /\ PinOk /\ Kept /\ Flags
  <2>1. Places!Init => Flags BY DEF Places!Init, Flags
  <2> QED BY <2>1, InitOk
<1>2. (DiskOk /\ PinOk /\ Kept /\ Flags) /\ Places!LocatedIsOwnFile /\ [Places!Next]_Places!vars
      => (DiskOk /\ PinOk /\ Kept /\ Flags)'
  BY StepOk, FlagsKept
<1>3. DiskOk /\ PinOk /\ Kept /\ Flags => Places!TypeOK /\ Places!PinKeepsItsLines
  BY TypesHold, LinesKept
<1> QED BY <1>1, <1>2, <1>3, PTL DEF Places!Spec

====
