---- MODULE Comparisons ----
(* A document's changes over its Git history (revisions/core.py): requests *)
(* for its history, a commit's or a range's diff, the two sides of a       *)
(* source and the comparison to build, each reading a history window and   *)
(* deciding with what it read, while HEAD moves, folders are replaced by   *)
(* links, pins change and git fails.  What a build reads of the two sides  *)
(* is Snapshot (revisions/execution.py).                                   *)
EXTENDS RevisionScope, TLC

CONSTANTS Commits, None,     \* commits are numbers, parents below children
          Heads,             \* those HEAD may be at; the newest at first
          Parents,           \* Parents[c]: a sequence
          Touching,          \* commits that change the document's files
          NumberOf,          \* NumberOf[c]: the pull request its subject names
          Window, Recent,    \* REVISION_HISTORY_MAX, REVISION_RECENT
          Repo, Folder,      \* the repository and the document's folder in it, sequences of names
          Scripts,           \* the edits of the document's file in commit Fix
          Worked,            \* those of them requests are made about
          Others,            \* the other file changes of Fix
          Fix, File,
          PinFacts,          \* what the pin may say of itself
          Trees,             \* build roots snapshots are taken of: <<old, new, words of the scope>>
          MaxTree, MaxOne, MaxFiles,      \* REVISION_TREE_MAX, REVISION_FILE_MAX, REVISION_FILES_MAX
          Clients, Queries, Slots, KeepScopes,
          MaxMoves, MaxFaults, MaxQueries, \* bounds
          MaxEvents          \* ... on moves and faults together

VARIABLES script, tree,      \* this repository's Fix, and the build roots of its sides
          head, links,       \* HEAD; the folders that were replaced by links
          pin,               \* the pin's facts now
          window,            \* WindowCache: {} or [head, rows]
          scopes,            \* ScopeCache: <<[key, value], ...>>, oldest first
          free,              \* its slots
          req,               \* the requests
          moves, faults, queries,
          heads,             \* history: where HEAD was
          facts              \* history: what the pin said

world == <<script, tree, head, links, pin, moves, heads, facts>>
vars == <<world, window, scopes, free, req, faults, queries>>

Fault == faults < MaxFaults /\ moves + faults < MaxEvents /\ faults' = faults + 1

(* ---- git ------------------------------------------------------------------------------ *)

RECURSIVE Ancestors(_)
Ancestors(c) == {c} \cup UNION {Ancestors(Parents[c][i]) : i \in DOMAIN Parents[c]}
FirstParent(c) == IF Parents[c] = <<>> THEN None ELSE Parents[c][1]

(* `git log` of the pathspec, newest first.                                *)
Log(h) == LET rows == Reverse(Ascending(Ancestors(h) \cap Touching)) IN SubSeq(rows, 1, Least(Window, Len(rows)))
MergeBases(a, b) ==
    LET common == Ancestors(a) \cap Ancestors(b) IN {c \in common : \A d \in common : c \in Ancestors(d) => d = c}

FilesOf(c) == IF c = Fix THEN <<FileChange(File, File, "text", script)>> \o Others ELSE <<>>

(* _unlinked_prefix and registered_repo: git is asked above the first link.*)
Inside(path, top) == IsPrefix(top, path)
UnlinkedPrefix(folder) ==
    LET reached == {n \in 0..Len(folder) : \A m \in 1..n : SubSeq(folder, 1, m) \notin links}
    IN SubSeq(folder, 1, Max({n \in reached : \A m \in 0..n : m \in reached}))
RegisteredRepo(folder) == IF Inside(UnlinkedPrefix(folder), Repo) THEN Repo ELSE None

(* ---- deciding, with the rows of a window --------------------------------------------------- *)

Refused(why) == [refused |-> why]
Ok(answer) == answer @@ [refused |-> None]

(* history_page.                                                           *)
HistoryPage(rows, before, limit) ==
    IF before # None /\ before \notin ToSet(rows) THEN Refused("commit not recent")
    ELSE LET at == IF before = None THEN 0 ELSE CHOOSE i \in DOMAIN rows : rows[i] = before
         IN Ok([rows |-> SubSeq(rows, at + 1, Least(at + limit, Len(rows))), more |-> Len(rows) > at + limit])

(* window_base, outside_base.                                              *)
WindowBase(rows, base) == \E i \in DOMAIN rows : rows[i] = base \/ FirstParent(rows[i]) = base
OutsideBase(base) ==
    IF base \in Ancestors(head) /\ base \in Touching THEN Refused("base too old") ELSE Refused("commit not recent")

(* resolve_range: what may come of it, a merge base being git's to pick.   *)
ResolveRange(base, commit) ==
    CASE base \in Ancestors(commit) -> {Ok([old |-> base, merge |-> None])}
      [] base \notin Ancestors(commit) /\ commit \in Ancestors(base) -> {Refused("base after head")}
      [] OTHER -> IF MergeBases(base, commit) = {} THEN {Refused("no merge base")}
                  ELSE {Ok([old |-> m, merge |-> m]) : m \in MergeBases(base, commit)}
(* range_ends.                                                             *)
RangeEnds(rows, commit, base) ==
    IF commit \notin ToSet(rows) THEN {Refused("commit not recent")}
    ELSE IF ~WindowBase(rows, base) THEN {OutsideBase(base)}
    ELSE ResolveRange(base, commit)

(* comparison_key, and the class the cache keeps a comparison in.          *)
ComparisonKey(old, commit, blocks) == <<old, commit, blocks>>
Comparison(old, commit, blocks, ranged) ==
    Ok([old |-> old, blocks |-> blocks, key |-> ComparisonKey(old, commit, blocks),
        class |-> IF blocks # {} THEN "scoped" ELSE IF ranged THEN "ranged" ELSE "whole"])
(* range_spec.                                                             *)
RangeSpec(rows, commit, base) ==
    {IF ends.refused # None THEN ends
     ELSE IF ends.old = commit THEN Refused("empty range")
     ELSE Comparison(ends.old, commit, {}, FirstParent(commit) # ends.old) : ends \in RangeEnds(rows, commit, base)}

(* _ref_commit: a hash anywhere in the rows, else a number in the first.   *)
RefCommit(ref, rows) ==
    IF ref.hash \in ToSet(rows) THEN ref.hash
    ELSE LET named == {i \in 1..Least(Recent, Len(rows)) : ref.number # None /\ NumberOf[rows[i]] = ref.number}
         IN IF named = {} THEN None ELSE rows[Min(named)]
MatchingChanges(p, commit, rows) == IF RefCommit(p.closeRef, rows) = commit THEN p.changes ELSE {}

(* _scope_facts, with the commit: what a decision is kept under.           *)
ScopeFacts(p, commit, changes) == <<commit, p.path, p.lo, p.hi, p.stale, p.anchor, changes, p.closeRef>>

(* ---- requests ------------------------------------------------------------------------------- *)

(* A request [kind, commit, base, pin]: "page", "diff", "sources" or       *)
(* "build"; the pin is asked about when pin, a range when base is one.     *)
Idle == [pc |-> "idle", q |-> None, head |-> None, rows |-> <<>>, repo |-> None, facts |-> None, answer |-> None,
         since |-> 0, factsSince |-> 0, torn |-> FALSE]
Goto(c, pc) == req' = [req EXCEPT ![c].pc = pc]
Answer(c, a) == req' = [req EXCEPT ![c].pc = "answered", ![c].answer = a]
(* Making requests only where there is something to ask.                   *)
Asked == script \in Worked /\ queries < MaxQueries

(* A request arrives, and the repository is asked for (revision_scope).    *)
Ask(c) ==
    /\ req[c].pc \in {"idle", "answered"} /\ Asked /\ queries' = queries + 1
    /\ \E q \in Queries :
          LET new == [Idle EXCEPT !.q = q, !.repo = RegisteredRepo(Folder), !.since = Len(heads), !.factsSince = Len(facts)]
          IN req' = [req EXCEPT ![c] = IF new.repo = None THEN [new EXCEPT !.pc = "answered", !.answer = Refused("no history")]
                                       ELSE [new EXCEPT !.pc = "head"]]
    /\ UNCHANGED <<world, window, scopes, free, faults>>

(* WindowCache.rows: HEAD, then the window kept for it, else the log - of  *)
(* HEAD as it is then.                                                     *)
ReadHead(c) ==
    /\ req[c].pc = "head"
    /\ \/ /\ req' = [req EXCEPT ![c].pc = "cached", ![c].head = head]
          /\ UNCHANGED faults
       \/ Fault /\ Goto(c, "decide")
    /\ UNCHANGED <<world, window, scopes, free, queries>>
LookUp(c) ==
    /\ req[c].pc = "cached"
    /\ LET hit == {w \in window : w.head = req[c].head}
       IN IF hit = {} THEN Goto(c, "log")
          ELSE LET w == CHOOSE w \in hit : TRUE
               IN req' = [req EXCEPT ![c].pc = "decide", ![c].rows = w.rows, ![c].torn = w.torn]
    /\ UNCHANGED <<world, window, scopes, free, faults, queries>>
ReadLog(c) ==
    /\ req[c].pc = "log"
    /\ \/ /\ req' = [req EXCEPT ![c].pc = "store", ![c].rows = Log(head), ![c].torn = head # req[c].head]
          /\ UNCHANGED faults
       \/ Fault /\ Goto(c, "decide")
    /\ UNCHANGED <<world, window, scopes, free, queries>>
(* A mutant of StoreWindow: the window is kept whatever HEAD it is for.    *)
StoreWindowForAny(c) ==
    /\ req[c].pc = "store"
    /\ window' = {[head |-> head, rows |-> req[c].rows, torn |-> FALSE]}
    /\ Goto(c, "decide")
    /\ UNCHANGED <<world, scopes, free, faults, queries>>
StoreWindow(c) ==
    /\ req[c].pc = "store"
    /\ window' = {[head |-> req[c].head, rows |-> req[c].rows, torn |-> req[c].torn]}
    /\ Goto(c, "decide")
    /\ UNCHANGED <<world, scopes, free, faults, queries>>

(* The answers that need no more than the rows: revision_history, a        *)
(* commit's diff, a range's (range_diff), the two sides of a source        *)
(* (revision_sources) and what to build (revision_spec).                   *)
Recently(rows, commit, answers) == IF commit \in ToSet(rows) THEN answers ELSE {Refused("commit not recent")}
HistoryAnswer(rows, q) == {HistoryPage(rows, q.commit, Recent)}
DiffAnswer(rows, q) == Recently(rows, q.commit, {Ok([old |-> FirstParent(q.commit)])})
RangeDiffAnswer(rows, q) == RangeEnds(rows, q.commit, q.base)
SourcesAnswer(rows, q) ==
    IF q.base = None THEN Recently(rows, q.commit, {Ok([old |-> FirstParent(q.commit)])})
    ELSE RangeEnds(rows, q.commit, q.base)
BuildAnswer(rows, q) ==
    LET old == FirstParent(q.commit)
    IN Recently(rows, q.commit,
                IF q.base # None THEN RangeSpec(rows, q.commit, q.base)
                ELSE IF old = None THEN {Refused("no parent")} ELSE {Comparison(old, q.commit, {}, FALSE)})
Answers(rows, q) ==
    CASE q.kind = "page" -> HistoryAnswer(rows, q)
      [] q.kind = "diff" /\ q.base = None -> DiffAnswer(rows, q)
      [] q.kind = "diff" /\ q.base # None -> RangeDiffAnswer(rows, q)
      [] q.kind = "sources" -> SourcesAnswer(rows, q)
      [] q.kind = "build" -> BuildAnswer(rows, q)
Decide(c) ==
    /\ req[c].pc = "decide"
    /\ \E a \in Answers(req[c].rows, req[c].q) :
          IF req[c].q.pin /\ a.refused = None
          THEN req' = [req EXCEPT ![c].pc = "project", ![c].answer = a]
          ELSE Answer(c, a)
    /\ UNCHANGED <<world, window, scopes, free, faults, queries>>
GitFails(c) ==
    /\ req[c].pc = "decide" /\ req[c].q.kind # "page" /\ Fault /\ Answer(c, Refused("diff failed"))
    /\ UNCHANGED <<world, window, scopes, free, queries>>

(* revision_pin_scope: the pin's facts, a decision kept for them, a slot   *)
(* to read the commit in, the decision, and keeping it.  A root commit has *)
(* nothing to be decided of (revision_diff), but the pin must be there.    *)
Changes(c) == MatchingChanges(req[c].facts, req[c].q.commit, req[c].rows)
Key(c) == ScopeFacts(req[c].facts, req[c].q.commit, Changes(c))
Scoped(c, sc) ==
    LET with(a) == IF req[c].q.kind = "build" THEN Comparison(a.old, req[c].q.commit, sc.blocks, FALSE) ELSE a
    IN Answer(c, with(req[c].answer) @@ [scope |-> sc])
Project(c) ==
    /\ req[c].pc = "project"
    /\ CASE pin = None -> Answer(c, Refused("pin not in doc"))
         [] pin # None /\ req[c].answer.old = None ->
              req' = [req EXCEPT ![c].pc = "answered", ![c].facts = pin,
                                 ![c].answer = @ @@ [scope |-> WholeCommit("none", 0, 0)]]
         [] pin # None /\ req[c].answer.old # None -> req' = [req EXCEPT ![c].pc = "kept", ![c].facts = pin]
    /\ UNCHANGED <<world, window, scopes, free, faults, queries>>
GetScope(c) ==
    /\ req[c].pc = "kept"
    /\ LET hit == {i \in DOMAIN scopes : scopes[i].key = Key(c)}
       IN IF hit = {} THEN Goto(c, "slot") ELSE Scoped(c, scopes[Min(hit)].value)
    /\ UNCHANGED <<world, window, scopes, free, faults, queries>>
TakeSlot(c) ==
    /\ req[c].pc = "slot"
    /\ \/ free > 0 /\ free' = free - 1 /\ Goto(c, "read") /\ UNCHANGED faults
       \/ free = 0 /\ Fault /\ Scoped(c, PinScope({}, req[c].facts, {})) /\ UNCHANGED free
    /\ UNCHANGED <<world, window, scopes, queries>>

Kept(key, value) ==
    IF \E i \in DOMAIN scopes : scopes[i].key = key
    THEN [i \in DOMAIN scopes |-> IF scopes[i].key = key THEN [key |-> key, value |-> value] ELSE scopes[i]]
    ELSE Append(IF Len(scopes) >= KeepScopes THEN Tail(scopes) ELSE scopes, [key |-> key, value |-> value])
ReadCommit(c) ==
    LET kept(sc) == Scoped(c, sc) /\ scopes' = Kept(Key(c), sc)
    IN /\ req[c].pc = "read" /\ free' = free + 1
       /\ \/ kept(PinScope({FilesOf(req[c].q.commit)}, req[c].facts, Changes(c))) /\ UNCHANGED faults
          \/ Fault /\ Scoped(c, PinScope({}, req[c].facts, {})) /\ UNCHANGED scopes
       /\ UNCHANGED <<world, window, queries>>

(* ---- everybody else ----------------------------------------------------------------------------- *)

Move == Asked /\ moves < MaxMoves /\ moves + faults < MaxEvents /\ moves' = moves + 1
ApartFromThat == UNCHANGED <<script, tree, window, scopes, free, req, faults, queries>>
MoveHead == Move /\ \E h \in Heads \ {head} : head' = h /\ heads' = Append(heads, h) /\ UNCHANGED <<links, pin, facts>> /\ ApartFromThat
Relink == /\ Move /\ \E n \in 1..Len(Folder) : links' = {SubSeq(Folder, 1, n)} /\ links' # links
          /\ UNCHANGED <<head, heads, pin, facts>> /\ ApartFromThat
ChangePin == /\ Move /\ \E p \in (PinFacts \cup {None}) \ {pin} : pin' = p /\ facts' = Append(facts, p)
             /\ UNCHANGED <<head, heads, links>> /\ ApartFromThat

(* ---- what a comparison build reads ------------------------------------------------------------------ *)

(* revision_snapshot of rows [name, stem, picture, size, words, edged,     *)
(* sort]: refused, or the files written whole and those left blank; also   *)
(* are the words of the other side and of the scope.                       *)
Over(files) == MapThenSumSet(LAMBDA e : e.size, files) > MaxTree \/ \E e \in files : e.size > MaxOne
Snapshot(rows, main, also) ==
    LET files == {e \in rows : e.sort = "file"}
        held == IF Over(files) THEN {e \in files : e.picture} ELSE {}
        sources == files \ held
        words == also \cup UNION {e.words : e \in sources}
        needed == {e \in held : e.edged \/ e.name \in words \/ e.stem \in words}
    IN CASE \E e \in rows : e.sort = "unsafe" -> Refused("unsafe snapshot")
         [] (\A e \in rows : e.sort # "unsafe") /\ (Cardinality(files) > MaxFiles \/ Over(sources) \/ Over(sources \cup needed)) ->
              Refused("snapshot size")
         [] OTHER -> IF \E e \in files : e.name = main THEN Ok([whole |-> sources \cup needed, blank |-> held \ needed])
                     ELSE Refused("missing main")
WordsOf(files) == UNION {e.words : e \in {e \in files : ~e.picture}}
(* revision_compile: the old side, then the new one, which is built with   *)
(* the old side's words in it.                                             *)
Snapshots(t) ==
    LET old == Snapshot(t[1], "main", {})
    IN <<old, IF old.refused # None THEN old ELSE Snapshot(t[2], "main", WordsOf(old.whole) \cup t[3])>>

Init ==
    /\ \/ script \in Scripts /\ tree = (CHOOSE t \in Trees : TRUE)
       \/ script = (CHOOSE s \in Scripts : s \notin Worked) /\ tree \in Trees
    /\ head = Max(Heads) /\ links = {} /\ pin \in (IF script \in Worked THEN PinFacts ELSE {None})
    /\ window = {} /\ scopes = <<>> /\ free = Slots
    /\ req = [c \in Clients |-> Idle]
    /\ moves = 0 /\ faults = 0 /\ queries = 0
    /\ heads = <<head>> /\ facts = <<pin>>

ClientStep(c) ==
    \/ Ask(c) \/ ReadHead(c) \/ LookUp(c) \/ ReadLog(c) \/ StoreWindow(c)
    \/ Decide(c) \/ GitFails(c) \/ Project(c) \/ GetScope(c) \/ TakeSlot(c) \/ ReadCommit(c)
Next == (\E c \in Clients : ClientStep(c)) \/ MoveHead \/ Relink \/ ChangePin
Spec == Init /\ [][Next]_vars

(* ---- properties --------------------------------------------------------------------------------------- *)

Decided == {c \in Clients : req[c].pc = "answered" /\ req[c].answer.refused = None}
Read == {"decide", "project", "kept", "slot", "read", "answered"}

(* The window a request decides with is the history of a HEAD there was    *)
(* since it came, though other requests fill the cache meanwhile - but for *)
(* one that was read while HEAD moved (WindowCache).                       *)
WindowsAreOfTheirTime ==
    \A c \in Clients :
        req[c].pc \in Read /\ req[c].rows # <<>> /\ ~req[c].torn =>
            \E i \in req[c].since..Len(heads) : req[c].rows = Log(heads[i])

(* What a request is told of a pin's part is what the pin said of itself   *)
(* at some moment since it came makes of the commit, or the whole commit   *)
(* if reading it failed or it is the first of all; and only what was read  *)
(* is kept for others                                                      *)
(* (ScopeCache, revision_pin_scope).                                       *)
ScopesAreOfTheirFacts ==
    /\ \A c \in Decided :
          "scope" \in DOMAIN req[c].answer =>
              /\ \E i \in req[c].factsSince..Len(facts) : req[c].facts = facts[i]
              /\ req[c].answer.scope \in
                    IF req[c].answer.old = None THEN {WholeCommit("none", 0, 0)}
                    ELSE {PinScope({FilesOf(req[c].q.commit)}, req[c].facts, Changes(c)),
                          PinScope({}, req[c].facts, {})}
    /\ \A i \in DOMAIN scopes : scopes[i].key[1] = Fix => scopes[i].value.hunks + scopes[i].value.other > 0

(* Only commits of the document's own history are read, in the repository  *)
(* it was registered in; a range runs forward, from the base asked for or, *)
(* if that is on another line, from where the lines part; all answers about *)
(* the same commit and base start from the same side; and comparisons have *)
(* the same cache folder exactly when they compare the same texts, in the  *)
(* same class of the cache.                                                *)
ComparisonsAreOfTheHistory ==
    /\ \A c \in Clients : req[c].repo \in {None, Repo}
    /\ \A c \in {c \in Decided : req[c].q.kind # "page"} :
          LET q == req[c].q
              old == req[c].answer.old
          IN /\ q.commit \in ToSet(req[c].rows)
             /\ old # None => old \in Ancestors(q.commit)
             /\ q.base # None => IF q.base \in Ancestors(q.commit) THEN old = q.base ELSE old \in MergeBases(q.base, q.commit)
    /\ \A c, d \in {c \in Decided : req[c].q.kind # "page"} :
          LET p == req[c].q
              q == req[d].q
              build == {p.kind, q.kind} = {"build"}
          IN /\ p.commit = q.commit /\ p.base = q.base /\ p.base \in {None} \cup Ancestors(p.commit)
                => req[c].answer.old = req[d].answer.old
             /\ build => LET a == req[c].answer
                             b == req[d].answer
                         IN /\ a.key = b.key <=> (a.old = b.old /\ p.commit = q.commit /\ a.blocks = b.blocks)
                            /\ a.key = b.key => a.class = b.class

(* The change the samples are about, and the parts of it a pin might own.  *)
Change == FileChange(File, File, "text", script)
(* What is said of the change alone is looked at before anything happens.  *)
AtFirst == queries + moves = 0

(* A comparison of a pin's part compiles the old text with those changes   *)
(* and no others; the patches shown of it and of the rest stand at the     *)
(* commit's real lines, show each change once and no other one as context, *)
(* and count to the whole (apply_blocks, scoped_patch).                    *)
Text(part) ==
    LET nth(i) == Cardinality({j \in Changed(script) : j <= i})
    IN FlattenSeq([i \in DOMAIN script |-> IF i \in Changed(script) /\ nth(i) \in part THEN script[i].new ELSE script[i].old])
Lines(h, marks) == LET kept == SelectSeq(h.body, LAMBDA l : l[1] \in marks) IN [n \in DOMAIN kept |-> kept[n][2]]
At(lines, start, count) == [n \in 1..count |-> IF start + n - 1 \in DOMAIN lines THEN lines[start + n - 1] ELSE "no line"]
PartsAreTrue ==
    LET f == Change
    IN AtFirst => \A part \in SUBSET DOMAIN f.blocks :
        LET ids == {<<1, b>> : b \in part}
            files == <<f>> \o Others
        IN /\ part # {} => ScopeWrites(files, ScopeKey(files, ids)) = {1 :> [path |-> File, text |-> Text(part)]}
           /\ \A want \in BOOLEAN :
                 LET hunks == Patch(files, ids, want)[1]
                     mine == IF want THEN part ELSE (DOMAIN f.blocks) \ part
                     all(marks) == FlattenSeq([n \in DOMAIN hunks |-> Lines(hunks[n], marks)])
                 IN /\ \A n \in DOMAIN hunks :
                          /\ Lines(hunks[n], {" ", "-"}) = At(f.old, hunks[n].oldStart, hunks[n].oldCount)
                          /\ Lines(hunks[n], {" ", "+"}) = At(f.new, hunks[n].newStart, hunks[n].newCount)
                          /\ n > 1 => hunks[n - 1].oldStart + hunks[n - 1].oldCount <= hunks[n].oldStart + (IF hunks[n].oldCount = 0 THEN 1 ELSE 0)
                    /\ Len(all({"-"})) = MapThenSumSet(LAMBDA b : f.blocks[b].oldN, mine)
                    /\ Len(all({"+"})) = MapThenSumSet(LAMBDA b : f.blocks[b].newN, mine)
           /\ Places(files, ids, TRUE) + Places(files, ids, FALSE) =
                 Len(f.blocks) + Len(Others)

(* The viewer and the server put every line git numbers on the same line   *)
(* of the screen, the end of the text included (git_line_starts,           *)
(* _pin_lines).                                                            *)
LineNumbersAgree ==
    AtFirst => \A lines \in {Change.old, Change.new} :
        /\ LET pairs == GitLineStarts(lines)
           IN \A g \in 1..(Len(lines) + 1) : ScreenOf(pairs, g) = ScreenStart(lines, g)
        /\ \A g \in DOMAIN lines : \A n \in ScreenStart(lines, g)..(ScreenStart(lines, g + 1) - 1) : ToGit(lines, n) = g

(* A pin that stood on lines a to b before the commit, and was re-matched  *)
(* to them or lost since, is told the changes at its own lines, before or  *)
(* after, and only those - whatever the two ways of counting make of them  *)
(* (pin_range_candidates).                                                 *)
PlaceOf(text, lines) == LET at == {n \in DOMAIN Screen(lines) : Screen(lines)[n] = text} IN IF at = {} THEN 0 ELSE Min(at)
Beside(i, side, from, to) ==
    LET lo == Before(script, i, side)
        n == Len(script[i][side])
    IN \E g \in from..to : IF n = 0 THEN g \in {Most(1, lo), lo + 1} ELSE g \in (lo + 1)..(lo + n)
PinGetsItsOwnChanges ==
    LET f == Change
        texts == Screen(f.old)
    IN AtFirst => \A a \in DOMAIN texts : \A b \in {a, a + 1} \cap DOMAIN texts :
        LET text(n) == texts[n]
            now(n) == PlaceOf(text(n), f.new)
            stale == now(a) = 0
            lo == IF stale THEN a ELSE now(a)
            hi == IF stale THEN b ELSE now(b)
            it == [path |-> File, lo |-> lo, hi |-> hi, stale |-> stale, closeRef |-> [hash |-> None, number |-> None], changes |-> {},
                   anchor |-> {[head |-> text(a), tail |-> text(b), headOff |-> 0, tailOff |-> 0]}]
            order == Ascending(Changed(script))
            own == {i \in DOMAIN order :
                      \/ Beside(order[i], "old", ToGit(f.old, a), ToGit(f.old, b))
                      \/ ~stale /\ Beside(order[i], "new", ToGit(f.new, lo), ToGit(f.new, hi))}
        IN stale \/ (now(b) >= now(a)) =>
              Inferred(f, it) \subseteq own /\ (own # {} => Inferred(f, it) # {})

(* No picture the compiled text names, in the words of either side or of a *)
(* pin's changes, is left blank; what is written stays within the limits;  *)
(* and within them nothing is blank (revision_snapshot).                   *)
NamedPicturesAreWhole ==
    LET two == Snapshots(tree)
    IN AtFirst => \A n \in {1, 2} : two[n].refused = None =>
          /\ ~Over(two[n].whole) /\ Cardinality(two[n].whole \cup two[n].blank) <= MaxFiles
          /\ two[n].blank # {} => Over(two[n].whole \cup two[n].blank)
          /\ n = 2 => \A e \in two[2].blank :
                        {e.name, e.stem} \cap (WordsOf(two[1].whole) \cup WordsOf(two[2].whole) \cup tree[3]) = {}

(* Together: an answer is of one history, one pin and one cache folder,    *)
(* however requests share the caches.                                      *)
AnswersHold == WindowsAreOfTheirTime /\ ScopesAreOfTheirFacts /\ ComparisonsAreOfTheHistory

(* Together: what a comparison is made of, its numbers and its pictures.   *)
PartsHold == /\ PartsAreTrue /\ LineNumbersAgree
             /\ PinGetsItsOwnChanges /\ NamedPicturesAreWhole
====
