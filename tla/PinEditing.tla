---- MODULE PinEditing ----
(* Making a pin and editing one in place (pins/editing): the request is    *)
(* parsed against the document as it is, the facts it is decided on are    *)
(* read before the pin lock - the file's lines, the document's verdict     *)
(* words (documents/verdicts.py), the figure its build's map names - and   *)
(* the decision is taken inside the store's transaction, after the open    *)
(* pins are re-matched.  Meanwhile the author writes the source and the    *)
(* word file, builds are published, and other pins are closed, reopened,   *)
(* dropped and restored.                                                   *)
(*                                                                         *)
(* No two lines of the file read alike, and none is blank or a comment:    *)
(* a line is its text, a suggestion's base or text a sequence of lines.    *)
EXTENDS VerdictOrder

CONSTANTS Clients,
          People,          \* the clients whose principal authors verdicts
          Kinds, Texts, FirstLines,
          Words,           \* what the word file may be written to hold, by kind
          VerdictsMax, SuggestLinesMax, SuggestMax,
          RootOf, Exact,   \* of a build: the figure on its page; the builds with equal pages
          NewPins,         \* the adds a client may send, by kind
          Changes,         \* and the edits, by kind
          Warm,            \* the kinds whose word file is there and was read before
          MaxAsked, MaxWrites, MaxWordWrites, MaxBuilds, MaxTurns   \* bounds, by kind

VARIABLES kind,
          file,        \* the source file: [lines, mtime]
          contents,    \* what the word file's signatures held, by signature
          version,     \* the word file now: At(n) for the nth signature, Absent or Unopened
          entry,       \* VerdictFiles' entry of it: {} or {[version, answer, stamp]}
          screen,      \* the build on screen
          pins,        \* by number
          req,         \* the clients' requests
          lock,        \* an edit inside its transaction, and the lines it found there, or {}
          asked, writes, turns

(* A place is lines of the source, an element of a document that has a map *)
(* of its figures, or a region of a page; a request's lines are numbers.   *)
IsLines(place) == place.sort = "lines" /\ place = [sort |-> "lines", lo |-> place.lo, hi |-> place.hi] /\ {place.lo, place.hi} \subseteq Int
IsElement(place) == place.sort = "element" /\ place = [sort |-> "element", path |-> place.path]
IsRegion(place) == place.sort = "region" /\ place = [sort |-> "region", page |-> place.page, whole |-> place.whole] /\ place.whole \in BOOLEAN
IsPlace(place, k) == IsLines(place) \/ (IsElement(place) /\ SurfaceOf[k] = "element") \/ IsRegion(place)
IsEditBody(e, k) ==
    /\ e = [loc |-> e.loc, lo |-> e.lo, hi |-> e.hi, scope |-> e.scope, kindReq |-> e.kindReq, suggest |-> e.suggest,
            removes |-> e.removes, append |-> e.append, verdictSent |-> e.verdictSent, nulls |-> e.nulls]
    /\ {e.scope, e.removes, e.append, e.verdictSent, e.nulls} \subseteq BOOLEAN
    /\ e.lo \cup e.hi \subseteq Int /\ \A l \in e.loc : IsPlace(l, k)
Documents ==
    \A k \in Kinds :
        /\ SurfaceOf[k] \in {"element", "region", "lines"}
        /\ \A a \in NewPins[k] : IsPlace(a.place, k) /\ a.question \in BOOLEAN
        /\ \A e \in Changes[k] : IsEditBody(e, k)
ASSUME DocumentsAssumption == Documents
ASSUME TextsAssumption == FirstLines \in Seq(Texts)

vars == <<kind, file, contents, version, entry, screen, pins, req, lock, asked, writes, turns>>
environment == <<kind, file, contents, version, screen, writes, turns>>

The(S) == CHOOSE x \in S : TRUE
Most(a, b) == IF a > b THEN a ELSE b
Least(a, b) == IF a < b THEN a ELSE b
Idle == [at |-> "idle"]
Busy == {c \in Clients : req[c] /= Idle}
Paged == SurfaceOf[kind] /= "lines"

(* ---- the source -------------------------------------------------------------------- *)

(* lines_text: {} for a range that is not in the file.                     *)
LinesText(lines, lo, hi) == IF 1 <= lo /\ lo <= hi /\ hi <= Len(lines) THEN {SubSeq(lines, lo, hi)} ELSE {}
InFile(lines, lo, hi) == 1 <= lo /\ lo <= hi /\ hi <= Most(Len(lines), 1)

AnchorOf(lines, lo, hi) ==
    LET last == Least(hi, Len(lines))
    IN IF last < lo THEN {} ELSE {[head |-> lines[lo], tail |-> lines[last], tailOff |-> hi - last]}

(* sync_all on a file newer than the pin's anchor: the range follows its   *)
(* first and its last line.                                                *)
Where(lines, text) == {i \in DOMAIN lines : lines[i] = text}
Followed(p, a, h) ==
    LET ends == {t + a.tailOff : t \in {u \in Where(file.lines, a.tail) : u >= h}}
        end == IF ends = {} THEN h + p.place.hi - p.place.lo ELSE The(ends)
    IN [p EXCEPT !.place.lo = h, !.place.hi = Most(h, Least(Len(file.lines), end)), !.stale = FALSE]
Rematched(p) ==
    LET a == The(p.anchor)
        heads == Where(file.lines, a.head)
        found == IF heads = {} THEN [p EXCEPT !.stale = TRUE] ELSE Followed(p, a, The(heads))
    IN [found EXCEPT !.syncedAt = file.mtime, !.rev = IF found = p THEN @ ELSE @ + 1]
Resync(p) ==
    IF p.live /\ p.open /\ p.place.sort = "lines" /\ p.anchor /= {} /\ p.syncedAt < file.mtime THEN Rematched(p) ELSE p
Synced == [i \in DOMAIN pins |-> Resync(pins[i])]

(* ---- the word file (documents/verdicts.py) -------------------------------------------- *)

(* parse_verdicts: the keys it declares, or why it cannot be used.         *)
Unusable(why) == [keys |-> {}, why |-> why]
ParseVerdicts(raw) ==
    IF raw.big THEN Unusable("too_large")
    ELSE IF Len(raw.keys) \in 1..VerdictsMax /\ IsInjective(raw.keys) THEN [keys |-> Range(raw.keys), why |-> "usable"]
    ELSE Unusable("invalid")
Absent == <<"absent">>
Unopened == <<"unopened">>
At(n) == <<"at", n>>
AnswerOf(v) == CASE v = Absent -> Unusable("absent")
                 [] v = Unopened -> Unusable("unreadable")
                 [] v \notin {Absent, Unopened} -> ParseVerdicts(contents[v[2]])
(* VerdictFiles._load: an absent or unopened file is not opened again;     *)
(* anything else is read, under the signature of what is read.             *)
LoadOf(v) == IF v \in {Absent, Unopened} THEN v ELSE version

(* VerdictFiles.read, step by step: the file's version, the entry under    *)
(* the lock, the file itself, and the entry again.                         *)
WholeFigure(place) == place.sort = "element" /\ Len(place.path) = 1
AfterWords(r) == IF SurfaceOf[kind] = "element" /\ WholeFigure(r.place) THEN "root" ELSE "commit"
ReadVersion(c) ==
    /\ req[c].at = "version"
    /\ req' = [req EXCEPT ![c].at = "lookup", ![c].version = version]
    /\ UNCHANGED <<environment, entry, pins, lock, asked>>

(* A mutant of Fresh: an entry is good whatever version it is of.          *)
AnyEntry(held, v) == held
Fresh(held, v) == {e \in held : e.version = v}
LookUp(c) ==
    /\ req[c].at = "lookup"
    /\ LET hits == Fresh(entry, req[c].version)
       IN req' = IF hits /= {} THEN [req EXCEPT ![c].at = AfterWords(req[c]), ![c].keys = The(hits).answer.keys,
                                                     ![c].version = Absent]
                 ELSE [req EXCEPT ![c].at = "load", ![c].seen = entry]
    /\ UNCHANGED <<environment, entry, pins, lock, asked>>

Load(c) ==
    /\ req[c].at = "load"
    /\ LET v == LoadOf(req[c].version)
       IN req' = [req EXCEPT ![c].at = "publish", ![c].version = v, ![c].answer = AnswerOf(v)]
    /\ UNCHANGED <<environment, entry, pins, lock, asked>>

(* The first to publish a version keeps its entry; one that finds another  *)
(* version published since it looked leaves it.  stamp tells two entries   *)
(* of one version apart, as `is` does.                                     *)
Publish(c) ==
    /\ req[c].at = "publish"
    /\ LET held == Fresh(entry, req[c].version)
           answer == IF held /= {} THEN The(held).answer ELSE req[c].answer
           stamp == IF entry = {} THEN 1 ELSE The(entry).stamp + 1
       IN /\ entry' = IF held = {} /\ entry = req[c].seen
                      THEN {[version |-> req[c].version, answer |-> answer, stamp |-> stamp]} ELSE entry
          /\ req' = [req EXCEPT ![c].at = AfterWords(req[c]), ![c].keys = answer.keys, ![c].seen = {},
                               ![c].version = Absent, ![c].answer = Unusable("absent")]
    /\ UNCHANGED <<environment, pins, lock, asked>>

(* ---- a new pin ---------------------------------------------------------------------------- *)

(* parse_add: a place the document can have now.  A suggestion's base is   *)
(* what its author sees.  held and texts are histories: what the word file *)
(* and the source have held since, for the requests they matter to.        *)
ParsePlace(place) == place.sort = "lines" => InFile(file.lines, place.lo, place.hi)
SeenText(place) == IF place.sort = "lines" THEN LinesText(file.lines, place.lo, place.hi) ELSE {<<>>}
Suggested(texts, place) == IF texts = {} THEN {{}} ELSE {{[base |-> b, text |-> t]} : b \in SeenText(place), t \in texts}
AfterPlace(r) == IF r.verdict = {} THEN "commit" ELSE "version"
ArriveAdd(c) ==
    /\ req[c] = Idle /\ asked < MaxAsked[kind]
    /\ \E a \in NewPins[kind], sent \in IF Paged THEN {{}, {screen}} ELSE {{}} :
          /\ ParsePlace(a.place)
          /\ \E s \in Suggested(a.texts, a.place) :
                req' = [req EXCEPT ![c] =
                    [at |-> IF a.place.sort = "lines" \/ s /= {} THEN "snapshot" ELSE AfterPlace(a), do |-> "add",
                     place |-> a.place, verdict |-> a.verdict, question |-> a.question, suggest |-> s, sent |-> sent,
                     lines |-> <<>>, mtime |-> 0, version |-> Absent, seen |-> {}, answer |-> Unusable("absent"),
                     keys |-> {}, holds |-> TRUE, screen |-> {},
                     held |-> IF a.verdict = {} THEN {} ELSE {AnswerOf(version)},
                     texts |-> IF s = {} THEN {} ELSE {file.lines}]]
    /\ asked' = asked + 1
    /\ UNCHANGED <<environment, entry, pins, lock>>

(* check_suggestion, and the base against the lines.                       *)
TakesSuggestions == SurfaceOf[kind] = "lines"
CheckSuggestion(s, span) ==
    /\ TakesSuggestions /\ span /= {}
    /\ The(span)[2] - The(span)[1] + 1 <= SuggestLinesMax
    /\ Len(s.base) <= SuggestMax /\ Len(s.text) <= SuggestMax /\ s.text /= s.base
SpanOf(place) == IF place.sort = "lines" THEN {<<place.lo, place.hi>>} ELSE {}
BaseHolds(s, span, lines) == LinesText(lines, The(span)[1], The(span)[2]) = {s.base}
DecideNewSuggestion(s, place, lines) ==
    CheckSuggestion(s, SpanOf(place)) /\ BaseHolds(s, SpanOf(place), lines)

(* snapshot_checked, before the lock.  A suggestion without a verdict is   *)
(* decided on it at once; a verdict's facts are read next.                 *)
Snapshot(c) ==
    /\ req[c].at = "snapshot"
    /\ LET r == req[c]
           refused == r.verdict = {} /\ \E s \in r.suggest : ~DecideNewSuggestion(s, r.place, file.lines)
       IN req' = [req EXCEPT ![c] = IF refused THEN Idle
                     ELSE [r EXCEPT !.at = AfterPlace(r), !.lines = file.lines, !.mtime = file.mtime]]
    /\ UNCHANGED <<environment, entry, pins, lock, asked>>

(* _read_verdict: a whole figure is checked on the map of the build sent,  *)
(* else of the build on screen, which the pin then records.                *)
ReadRoot(c) ==
    /\ req[c].at = "root"
    /\ LET on == IF req[c].sent /= {} THEN The(req[c].sent) ELSE screen
       IN req' = [req EXCEPT ![c].at = "commit", ![c].holds = (RootOf[on] = req[c].place.path[1]),
                             ![c].screen = IF req[c].sent /= {} THEN {} ELSE {screen}]
    /\ UNCHANGED <<environment, entry, pins, lock, asked>>

(* decide_new_verdict.                                                     *)
DecideNewVerdict(c, r) ==
    /\ c \in People
    /\ r.verdict \subseteq r.keys
    /\ ~r.question /\ r.suggest = {}
    /\ r.holds

(* A mutant of BuildOf: the build on screen is read again inside the lock. *)
BuildOnScreenNow(r) == IF r.sent /= {} THEN The(r.sent) ELSE screen
BuildOf(r) == IF r.sent /= {} THEN The(r.sent) ELSE IF r.screen /= {} THEN The(r.screen) ELSE screen
NewPin(r) ==
    [live |-> TRUE, open |-> TRUE, place |-> r.place, verdict |-> r.verdict, question |-> r.question,
     suggest |-> r.suggest, rev |-> 0, stale |-> FALSE,
     anchor |-> IF r.place.sort = "lines" THEN AnchorOf(r.lines, r.place.lo, r.place.hi) ELSE {},
     syncedAt |-> r.mtime, build |-> IF Paged THEN {BuildOf(r)} ELSE {}]
CommitAdd(c) ==
    /\ req[c].at = "commit" /\ req[c].do = "add" /\ lock = {}
    /\ pins' = IF req[c].verdict = {} \/ DecideNewVerdict(c, req[c]) THEN Append(Synced, NewPin(req[c])) ELSE Synced
    /\ req' = [req EXCEPT ![c] = Idle]
    /\ UNCHANGED <<environment, entry, lock, asked>>

(* ---- an edit ---------------------------------------------------------------------------------- *)

Reshapes(e) == e.loc /= {} \/ e.lo /= {} \/ e.hi /= {} \/ e.scope
Suggests(e) == e.suggest /= {} \/ e.removes
(* Does the edit change what a verdict pin fixed when it was made?         *)
MovesVerdict(e) == e.verdictSent \/ e.nulls \/ Reshapes(e) \/ e.kindReq /= {} \/ Suggests(e)
SetsLines(e) == e.loc = {} /\ (e.lo /= {} \/ e.hi /= {})

(* The card is loaded, and later the body arrives with the rev it showed - *)
(* which only a note_append without a suggestion may leave out - and with  *)
(* a suggestion against the lines the author saw.                          *)
ArriveEdit(c) ==
    /\ req[c] = Idle /\ asked < MaxAsked[kind]
    /\ \E pid \in DOMAIN pins, e \in Changes[kind] :
          \E base \in IF e.append /\ ~Suggests(e) THEN {{}, {pins[pid].rev}} ELSE {{pins[pid].rev}} :
             req' = [req EXCEPT ![c] = [at |-> "scope", do |-> "edit", pid |-> pid, change |-> e, base |-> base,
                                        build |-> {},
                                        texts |-> IF e.suggest = {} THEN {} ELSE {file.lines}]]
    /\ asked' = asked + 1
    /\ UNCHANGED <<environment, entry, pins, lock>>

(* EditScope and parse_edit_place: what the pin is, read from the stored   *)
(* pins before the lock.  A verdict pin's loc is left unread; null counts  *)
(* for nothing on any other pin; a region pin has no lines; a loc that     *)
(* re-places frac records the build on screen.                             *)
Unread == [sort |-> "unread"]
Scoped(p) == [verdict |-> p.live /\ p.verdict /= {}, region |-> p.live /\ p.place.sort = "region"]
Nothing(e) == ~Reshapes(e) /\ e.kindReq = {} /\ ~e.append /\ ~Suggests(e) /\ ~e.verdictSent
ParseEditPlace(e, is) ==
    IF is.verdict \/ e.verdictSent THEN {[e EXCEPT !.loc = IF @ = {} THEN {} ELSE {Unread}]}
    ELSE IF Nothing(e) \/ (is.region /\ (e.lo /= {} \/ e.hi /= {} \/ e.scope)) \/ \E l \in e.loc : ~ParsePlace(l) THEN {}
    ELSE {e}
ReadScope(c) ==
    /\ req[c].at = "scope"
    /\ LET parsed == ParseEditPlace(req[c].change, Scoped(pins[req[c].pid]))
       IN req' = [req EXCEPT ![c] = IF parsed = {} THEN Idle
                     ELSE [req[c] EXCEPT !.at = "commit", !.change = The(parsed),
                                         !.build = IF Paged /\ req[c].change.loc /= {} THEN {screen} ELSE {}]]
    /\ UNCHANGED <<environment, entry, pins, lock, asked>>

(* decide_edit: every refusal leaves the pin as it is.                     *)
NewLines(p, e) == <<IF e.lo /= {} THEN The(e.lo) ELSE p.place.lo, IF e.hi /= {} THEN The(e.hi) ELSE p.place.hi>>
SpanAfter(p, e) ==
    IF e.loc /= {} THEN SpanOf(The(e.loc)) ELSE IF SetsLines(e) THEN {NewLines(p, e)} ELSE SpanOf(p.place)
Refused(p, e, base, lines) ==
    \/ p.verdict /= {} /\ MovesVerdict(e)
    \/ e.verdictSent
    \/ e.loc = {Unread}
    \/ ~p.open /\ (Reshapes(e) \/ Suggests(e))
    \/ base \notin {{}, {p.rev}}
    \/ SetsLines(e) /\ (p.place.sort /= "lines" \/ ~InFile(lines, NewLines(p, e)[1], NewLines(p, e)[2]))
    \/ \E s \in e.suggest : ~CheckSuggestion(s, SpanAfter(p, e)) \/ ~BaseHolds(s, SpanAfter(p, e), lines)
RangeChanged(p, e) ==
    \/ e.loc /= {} /\ The(e.loc).sort = "lines"
    \/ SetsLines(e) /\ (SpanAfter(p, e) /= SpanOf(p.place) \/ p.stale)

(* The transaction begins: the open pins are re-matched, the edit decided  *)
(* on the file read now; an edit that moves the range reads its anchor     *)
(* next, others are written at once.                                       *)
Transact(c) ==
    /\ req[c].at = "commit" /\ req[c].do = "edit" /\ lock = {}
    /\ LET p == Synced[req[c].pid]
           refused == ~p.live \/ Refused(p, req[c].change, req[c].base, file.lines)
       IN IF refused THEN /\ pins' = Synced /\ lock' = {}
                          /\ req' = [req EXCEPT ![c] = Idle]
          ELSE /\ lock' = {[by |-> c, pins |-> Synced, lines |-> file.lines]}
               /\ req' = [req EXCEPT ![c].at = "anchor"]
               /\ UNCHANGED pins
    /\ UNCHANGED <<environment, entry, asked>>

(* evolve_edit, on the file as it is read for the anchor.                  *)
Reanchored(p, e) ==
    IF ~RangeChanged(p, e) THEN p
    ELSE LET span == The(SpanAfter(p, e))
         IN [p EXCEPT !.anchor = AnchorOf(file.lines, span[1], span[2]), !.syncedAt = file.mtime, !.stale = FALSE]
Replaced(p, e) ==
    IF e.loc /= {} THEN [p EXCEPT !.place = The(e.loc)]
    ELSE IF SetsLines(e) THEN [p EXCEPT !.place.lo = NewLines(p, e)[1], !.place.hi = NewLines(p, e)[2]]
    ELSE p
EvolveEdit(p, e, build) ==
    LET anchored == Reanchored(p, e)
        placed == Replaced(anchored, e)
    IN [placed EXCEPT !.question = IF e.kindReq = {} THEN @ ELSE "question" \in e.kindReq,
                      !.suggest = IF Suggests(e) THEN e.suggest ELSE @,
                      !.build = IF build = {} THEN @ ELSE build,
                      !.rev = @ + 1]
WriteEdit(c) ==
    /\ req[c].at = "anchor"
    /\ LET held == The(lock).pins
       IN pins' = [held EXCEPT ![req[c].pid] = EvolveEdit(@, req[c].change, req[c].build)]
    /\ lock' = {}
    /\ req' = [req EXCEPT ![c] = Idle]
    /\ UNCHANGED <<environment, entry, asked>>

(* ---- everything else that goes on ----------------------------------------------------------------- *)

(* The histories the open requests carry.                                  *)
Told(r, answer) == IF r /= Idle /\ r.do = "add" /\ r.held /= {} THEN [r EXCEPT !.held = @ \cup {answer}] ELSE r
Shown(r, lines) == IF r /= Idle /\ r.texts /= {} THEN [r EXCEPT !.texts = @ \cup {lines}] ELSE r

(* The author's editor, which takes no lock.                               *)
WriteSource ==
    /\ writes.source < MaxWrites[kind] /\ SurfaceOf[kind] = "lines"
    /\ \E i \in 1..(Len(file.lines) + 1), t \in Texts \ Range(file.lines) :
          \E lines \in {InsertAt(file.lines, i, t)}
                       \cup (IF i \in DOMAIN file.lines THEN {RemoveAt(file.lines, i), [file.lines EXCEPT ![i] = t]} ELSE {}) :
             /\ file' = [lines |-> lines, mtime |-> file.mtime + 1]
             /\ req' = [c \in Clients |-> Shown(req[c], lines)]
    /\ writes' = [writes EXCEPT !.source = @ + 1]
    /\ UNCHANGED <<kind, contents, version, entry, screen, pins, lock, asked, turns>>

(* The word file is written anew, removed, or cannot be opened any more.   *)
WriteWords ==
    /\ writes.words < MaxWordWrites[kind]
    /\ \/ \E raw \in Words[kind] : contents' = Append(contents, raw) /\ version' = At(Len(contents) + 1)
       \/ version \notin {Absent, Unopened} /\ version' \in {Absent, Unopened} /\ UNCHANGED contents
    /\ req' = [c \in Clients |-> Told(req[c], AnswerOf(version)')]
    /\ writes' = [writes EXCEPT !.words = @ + 1]
    /\ UNCHANGED <<kind, file, entry, screen, pins, lock, asked, turns>>

(* A build of the document is published (its map copy is written once).    *)
PublishBuild ==
    /\ Paged /\ screen < MaxBuilds[kind]
    /\ screen' = screen + 1
    /\ UNCHANGED <<kind, file, contents, version, entry, pins, req, lock, asked, writes, turns>>

(* Other transactions of the store on a pin: close, reopen, drop, restore. *)
Turn(i, p) ==
    /\ turns < MaxTurns[kind] /\ lock = {}
    /\ pins' = [Synced EXCEPT ![i] = p]
    /\ turns' = turns + 1
    /\ UNCHANGED <<kind, file, contents, version, entry, screen, req, lock, asked, writes>>
Close(i) == Synced[i].live /\ Synced[i].open /\ Turn(i, [Synced[i] EXCEPT !.open = FALSE, !.rev = @ + 1])
Reopen(i) == Synced[i].live /\ ~Synced[i].open /\ Turn(i, [Synced[i] EXCEPT !.open = TRUE, !.rev = @ + 1])
DropPin(i) == Synced[i].live /\ Turn(i, [Synced[i] EXCEPT !.live = FALSE])
Restore(i) == ~Synced[i].live /\ Turn(i, [Synced[i] EXCEPT !.live = TRUE, !.rev = @ + 1])

Init ==
    /\ kind \in Kinds
    /\ file = [lines |-> FirstLines, mtime |-> 1]
    /\ \/ kind \notin Warm /\ contents = <<>> /\ version = Absent
       \/ contents \in {<<raw>> : raw \in Words[kind]} /\ version = At(1)
    /\ entry = IF kind \in Warm THEN {[version |-> version, answer |-> AnswerOf(version), stamp |-> 1]} ELSE {}
    /\ screen = 1 /\ pins = <<>> /\ lock = {}
    /\ req = [c \in Clients |-> Idle]
    /\ asked = 0 /\ writes = [source |-> 0, words |-> 0] /\ turns = 0

Step(c) ==
    \/ ArriveAdd(c) \/ Snapshot(c)
    \/ ReadVersion(c) \/ LookUp(c) \/ Load(c) \/ Publish(c) \/ ReadRoot(c) \/ CommitAdd(c)
    \/ ArriveEdit(c) \/ ReadScope(c) \/ Transact(c) \/ WriteEdit(c)
Next ==
    \/ \E c \in Clients : Step(c)
    \/ WriteSource \/ WriteWords \/ PublishBuild
    \/ \E i \in DOMAIN pins : Close(i) \/ Reopen(i) \/ DropPin(i) \/ Restore(i)
Spec == Init /\ [][Next]_vars

(* ---- properties --------------------------------------------------------------------------------------- *)

(* A verdict stands as it was made: whatever is edited, dropped, restored  *)
(* or re-matched, and whatever the pin was when the request was parsed, no *)
(* verdict pin gets another verdict, question, suggestion or target - an   *)
(* open one's lines only follow its first line, in the file its            *)
(* transaction found - and no other pin becomes one (pins/editing/rules.py,*)
(* decide_edit; service.py, EditScope).                                    *)
FoundLines == IF lock = {} THEN file.lines ELSE The(lock).lines
OnlyFollows(p, q) ==
    q.place /= p.place => /\ p.open /\ p.place.sort = "lines"
                          /\ \A a \in p.anchor : FoundLines[q.place.lo] = a.head
Stands(p, q) ==
    /\ q.verdict = p.verdict
    /\ p.verdict /= {} => /\ <<q.question, q.suggest, q.build, q.anchor>> = <<p.question, p.suggest, p.build, p.anchor>>
                          /\ OnlyFollows(p, q)
VerdictsStand == [][\A i \in DOMAIN pins : Stands(pins[i], pins'[i])]_vars

(* A verdict is answered for the word file of its own time: one is saved   *)
(* only by a person, on a plain request, with a word the file held at some *)
(* moment since the request came; and a person's plain request about a     *)
(* target that holds is refused only if the file lacked the word at some   *)
(* such moment - however many requests read and publish the file's         *)
(* versions at once (documents/verdicts.py, VerdictFiles; rules.py,        *)
(* decide_new_verdict).                                                    *)
Held(r) == {a \in r.held : r.verdict \subseteq a.keys}
Plain(c, r) == c \in People /\ ~r.question /\ r.suggest = {}
InTime(c, r, saved) ==
    /\ saved => Plain(c, r) /\ Held(r) /= {}
    /\ ~saved /\ Plain(c, r) /\ r.holds => Held(r) /= r.held
VerdictsAreOfTheirTime ==
    [][\A c \in Clients :
          (req[c] /= Idle /\ req'[c] = Idle /\ req[c].do = "add") =>
             (req[c].verdict /= {} => InTime(c, req[c], Len(pins') > Len(pins)))]_vars

(* A verdict on a page's whole figure names the figure of that page on the *)
(* build the pin records, whatever is published between its check and its  *)
(* transaction, and for good (service.py, _read_verdict, add_pin).         *)
PageTargetsAreTrue ==
    \A p \in Range(pins) :
        (p.verdict /= {} /\ WholeFigure(p.place)) =>
            \A b \in p.build : RootOf[b] = p.place.path[1]

(* A suggestion is stored only on an open line pin, with a base the pin's  *)
(* lines did read as since its request came, and a new pin's is the text   *)
(* its anchor is of - though the file is read before the lock for a new    *)
(* pin, inside it for an edit, which may move the range in the same breath *)
(* (rules.py, decide_new_suggestion, decide_edit).                         *)
Fits(r, p, s) ==
    /\ p.live /\ p.open /\ p.verdict = {} /\ p.place.sort = "lines" /\ s.text /= s.base
    /\ \E lines \in r.texts : LinesText(lines, p.place.lo, p.place.hi) = {s.base}
    /\ r.do = "add" => \A a \in p.anchor : a.head = s.base[1] /\ a.tail = Last(s.base)
Earlier(i) == IF i \in DOMAIN pins THEN pins[i].suggest ELSE {}
SuggestionsFit ==
    [][\A c \in Clients : (req[c] /= Idle /\ req'[c] = Idle) =>
          \A i \in DOMAIN pins' : \A s \in pins'[i].suggest \ Earlier(i) : Fits(req[c], pins'[i], s)]_vars

(* The server and every viewer name the same current verdict of a target,  *)
(* whatever was closed, reopened, moved, dropped or re-matched since the   *)
(* verdicts were given (ADR-0023; pins/verdict.py, superseded_by;          *)
(* viewer/js/verdict.js, verdictOrder).                                    *)
Guess == {i \in DOMAIN pins : pins[i].stale \/ \E b \in pins[i].build : screen \notin Exact[b]}
OneOrder == SupersededBy(pins, kind, Guess) = ViewerOrder(pins, kind, Guess)

(* Together: verdicts name their figure, and everybody the same current one. *)
VerdictsAgree == OneOrder /\ PageTargetsAreTrue

(* Together: what was accepted fitted when it was, and stays as it is.     *)
AcceptedStands == VerdictsStand /\ VerdictsAreOfTheirTime /\ SuggestionsFit
====
