---------------------------- MODULE BuildReaders ----------------------------
(***************************************************************************)
(* What requests read of a document's builds while one is published        *)
(* (src/limn/builds/queries.py over artifacts.py; the page and PDF URLs of *)
(* http.py; the pick).  No lock guards these reads: each is a series of    *)
(* looks at the folder, between which the publisher names a page folder,   *)
(* moves pages.cur, removes old folders and dates and records the build.   *)
(*                                                                         *)
(* A folder's name is <<second, suffix>>.  A folder holds page images, the *)
(* PDF they were drawn from and its companion: the element map, or latex's *)
(* .aux.  `of` is the version of the source all three were made of.        *)
(***************************************************************************)
EXTENDS Integers, FiniteSets, FiniteSetsExt, Functions, Sequences

CONSTANTS None,          \* no value
          Kinds,         \* "latex", "figure", "pdf": which document this is
          Texts,         \* what its source may hold
          PagesOf(_),    \* how many pages a text makes
          Second(_),     \* the second a build gets its name in
          Starts,        \* the states of the folder the server may start on
          Limits,        \* by kind: the reads made, and how many of each thing
          MapCacheMax,   \* MAP_CACHE_MAX
          MaxWrites

ASSUME BuildReadersAssumption ==
  /\ Kinds \subseteq {"latex", "figure", "pdf"}
  /\ Starts \subseteq {"new", "legacy", "legacy_edited"}
  /\ \A k \in Kinds : Limits[k].ops \subseteq {"meta", "pick", "url", "position", "overlay", "companion"}
                        /\ {Limits[k].reads, Limits[k].builds, Limits[k].mishaps} \subseteq Nat
  /\ \A t \in Texts : PagesOf(t) \in Nat \ {0}
  /\ MapCacheMax \in Nat \ {0}
  /\ MaxWrites \in Nat
  /\ None \notin Int \cup Texts \cup (Nat \X Nat)

\* Local time is not set back, and no three builds get their names in one second.
SecondsGoOn ==
  \A k \in Kinds : \A m, n \in 1..Limits[k].builds :
    /\ Second(n) \in Nat \ {0}
    /\ m < n => Second(m) <= Second(n)
    /\ m + 1 < n => Second(m) < Second(n)

VARIABLES
  kind,     \* which kind of document this is
  src,      \* the source: its text and its mtime
  out,      \* the text of the PDF in the build copy, which latexmk overwrites
  page,     \* the page folders, by name
  cur,      \* pages.cur, or None
  dated,    \* the folder built_at.txt, and the folder head.txt, was written for
  base,     \* built_src_mtime.txt, or None
  hist,     \* builds.json: its seq and its entries by folder
  bstate,   \* the build state in memory
  job,      \* the build under way
  read,     \* the read under way, or the answer it gave
  maps,     \* BuildMapCache: the entries, oldest first
  browser,  \* the files the browser keeps for a year, by the build their URL names
  known,    \* what no file holds: what each folder was made of, the folders shown
  used      \* how often each bounded thing happened

readersVars == <<kind, src, out, page, cur, dated, base, hist, bstate, job, read, maps, browser, known, used>>
marks == <<dated, base, hist>>
clients == <<maps, browser>>

\* The function g laid over f, and the one that is y at x and nowhere else.
With(f, g) == [x \in DOMAIN f \cup DOMAIN g |-> IF x \in DOMAIN g THEN g[x] ELSE f[x]]
Only(x, y) == [z \in {x} |-> y]

Legacy == <<0, 0>>   \* the folder `pages` of the old layout
Files == {"images", "pdf", "companion"}
NoJob == [pc |-> "none"]
NoRead == [pc |-> "none"]
Folders == DOMAIN page
MayFail == used.mishaps < Limits[kind].mishaps
Spend(what) == used' = [used EXCEPT ![what] = @ + 1]
Has(f, file) == f \in Folders /\ file \in page[f].files

\* cur_pages: what pages.cur names when it is there, else the legacy folder.
CurPages == IF cur \in Folders THEN cur ELSE Legacy

\* _build_order: the second, then the suffix as a number.
Older(a, b) == a[1] < b[1] \/ (a[1] = b[1] /\ a[2] < b[2])

-----------------------------------------------------------------------------
(* The source *)

\* A write: new text, or the same text with a new mtime (touch, git checkout).
\* Two writes may be closer than the 2 seconds source_newer lets pass.  Once its
\* input is taken, a write during a build is to it one after it.
WriteSource == /\ used.writes < MaxWrites /\ job.pc \in {"none", "make"}
               /\ \E t \in Texts, gap \in {1, 3} :
                    /\ t = src.text => gap = 3
                    /\ src' = [text |-> t, at |-> src.at + gap]
               /\ Spend("writes")
               /\ UNCHANGED <<kind, out, page, cur, marks, bstate, job, read, clients, known>>

-----------------------------------------------------------------------------
(* The publisher *)

\* What a read in flight does not know: pages.cur moved, a folder lost files, or
\* the build on screen is not dated and recorded yet.
Mark(moved, lost) ==
  read' = IF read = NoRead THEN NoRead ELSE [read EXCEPT !.moved = @ \/ moved, !.lost = @ \cup lost]

Publishing == job.pc \in {"prune", "date", "head", "baseline", "record"}

\* Startup: migrate_pages gives the legacy folder its PDF; a copy that fails only
\* warns.  seed_builds adds the build on screen to the history.
Startup ==
  /\ job.pc = "startup"
  /\ \/ /\ page' = IF Legacy \in Folders THEN [page EXCEPT ![Legacy].files = @ \cup {"pdf"}] ELSE page
        /\ UNCHANGED used
     \/ Legacy \in Folders /\ MayFail /\ Spend("mishaps") /\ UNCHANGED page
  /\ cur' = IF Legacy \in Folders THEN Legacy ELSE cur
  /\ LET ref == IF base # None THEN base ELSE page[Legacy].time
         same == src.at <= ref
     IN hist' = IF Legacy \in Folders
                THEN [hist EXCEPT !.by = Only(Legacy, [hash |-> IF same THEN src.text ELSE None,
                                                      at |-> IF base # None THEN base
                                                             ELSE IF same THEN src.at ELSE None])]
                ELSE hist
  /\ job' = NoJob
  /\ UNCHANGED <<kind, src, out, dated, base, bstate, read, clients, known>>

\* run_tracked: running, and the source's mtime is measured.
BeginBuild == /\ job = NoJob /\ used.builds < Limits[kind].builds
              /\ bstate' = [bstate EXCEPT !.state = "running"]
              /\ job' = [pc |-> "make", at |-> src.at]
              /\ Spend("builds")
              /\ UNCHANGED <<kind, src, out, page, cur, marks, read, clients, known>>

\* The copy and latexmk, or the staging of the document's own PDF.
Make == /\ job.pc = "make"
        /\ out' = IF kind = "latex" THEN src.text ELSE out
        /\ job' = [pc |-> "name", at |-> job.at, of |-> src.text, time |-> src.at]
        /\ UNCHANGED <<kind, src, page, cur, marks, bstate, read, clients, known, used>>

\* _new_build_name: the first free suffix of this second.
NewName == LET now == Second(used.builds)
               free == {n \in 0..Limits[kind].builds : <<now, n>> \notin Folders \cup DOMAIN hist.by}
           IN <<now, Min(free)>>

\* render_pages: every page is drawn and every companion stored in a folder no
\* client can name; it gets its name in one rename.
NameFolder == /\ job.pc = "name"
              /\ page' = With(page, Only(NewName, [of |-> job.of, time |-> job.time, files |-> Files]))
              /\ known' = [known EXCEPT !.of = With(@, Only(NewName, job.of))]
              /\ job' = With(job, [pc |-> "swap", new |-> NewName])
              /\ UNCHANGED <<kind, src, out, cur, marks, bstate, read, clients, used>>

\* commit_pages: the pointer moves in one step.
Swap == /\ job.pc = "swap"
        /\ cur' = job.new
        /\ known' = [known EXCEPT !.before = CurPages, !.shown = @ \cup {job.new}]
        /\ job' = With(job, [pc |-> "prune", prev |-> CurPages])
        /\ Mark(TRUE, {})
        /\ UNCHANGED <<kind, src, out, page, marks, bstate, clients, used>>

\* The folders but the new one and the one it replaced are removed, file by file.
Doomed == Folders \ {job.new, job.prev}

Prune == /\ job.pc = "prune"
         /\ IF Doomed = {}
            THEN job' = [job EXCEPT !.pc = "date"] /\ UNCHANGED <<page, read>>
            ELSE /\ LET f == CHOOSE f \in Doomed : TRUE
                    IN /\ \/ \E file \in page[f].files : page' = [page EXCEPT ![f].files = @ \ {file}]
                          \/ page[f].files = {} /\ page' = Restrict(page, Folders \ {f})
                       /\ Mark(FALSE, {f})
                 /\ UNCHANGED job
         /\ UNCHANGED <<kind, src, out, cur, marks, bstate, clients, known, used>>

Fails == job' = [pc |-> "record", new |-> None]

\* built_at.txt, then head.txt; a write that fails kills a build that is shown.
Date == /\ job.pc \in {"date", "head"}
        /\ \/ /\ dated' = IF job.pc = "date" THEN [dated EXCEPT !.at = job.new] ELSE [dated EXCEPT !.head = job.new]
              /\ job' = [job EXCEPT !.pc = IF @ = "date" THEN "head" ELSE "baseline"]
              /\ UNCHANGED used
           \/ MayFail /\ Fails /\ Spend("mishaps") /\ UNCHANGED dated
        /\ UNCHANGED <<kind, src, out, page, cur, base, hist, bstate, read, clients, known>>

\* latexmk, the render or pages.cur: the build fails before it is shown.
PublisherFails == /\ job.pc \in {"make", "name", "swap"} /\ MayFail
                  /\ Fails /\ Spend("mishaps")
                  /\ UNCHANGED <<kind, src, out, page, cur, marks, bstate, read, clients, known>>

\* write_built_src_mtime: a write that fails is passed over.
WriteBaseline == /\ job.pc = "baseline"
                 /\ \/ base' = job.at /\ UNCHANGED used
                    \/ MayFail /\ Spend("mishaps") /\ UNCHANGED base
                 /\ job' = [job EXCEPT !.pc = "record"]
                 /\ UNCHANGED <<kind, src, out, page, cur, dated, hist, bstate, read, clients, known>>

\* record_build counts from the file and from memory.
NextSeq == Max({hist.seq, bstate.seq}) + 1

\* project_completion: only a build that is shown gets an entry.
Entries == IF job.new = None THEN hist.by
           ELSE With(hist.by, Only(job.new, [hash |-> job.of, at |-> job.at]))

\* What a tab's poll sees once the build is over, in one update.
Publication == [state |-> IF job.new = None THEN "fail" ELSE "ok", seq |-> NextSeq]

\* finish_build: the history, whose failed write only warns, then the state.
Record ==
  /\ job.pc = "record"
  /\ \/ hist' = [seq |-> NextSeq, by |-> Entries] /\ UNCHANGED used
     \/ MayFail /\ Spend("mishaps") /\ UNCHANGED hist
  /\ bstate' = Publication
  /\ job' = NoJob
  /\ UNCHANGED <<kind, src, out, page, cur, dated, base, read, clients, known>>

PublisherSteps == \/ Startup \/ BeginBuild \/ Make \/ NameFolder \/ Swap \/ Prune \/ Date \/ PublisherFails
                  \/ WriteBaseline \/ Record

-----------------------------------------------------------------------------
(* A read: the looks one request takes, and its answer *)

BeginRead(op, more) ==
  /\ op \in Limits[kind].ops /\ read = NoRead /\ used.reads < Limits[kind].reads
  /\ job.pc # "startup"
  /\ read' = With(more, [op |-> op, moved |-> FALSE, early |-> Publishing,
                         lost |-> IF job.pc = "prune" THEN Doomed ELSE {}])
  /\ Spend("reads")
  /\ UNCHANGED <<kind, src, out, page, cur, marks, bstate, job, clients, known>>

Look(op, pc) == read.pc = pc /\ read.op = op
Then(more) == /\ read' = With(read, more)
              /\ UNCHANGED <<kind, src, out, page, cur, marks, bstate, job, known, used>>
Answer(more) == Then(With(more, [pc |-> "answered"]))

\* The builds a client may name: its tab shows one that was once on screen.
Named == {None} \cup known.shown

(* The map cache: an entry is keyed by the build and its copy's mtime and size. *)

MapHit(f) == \E i \in DOMAIN maps : maps[i].build = f /\ maps[i].time = page[f].time

\* BuildMapCache.get on a hit, on no copy, and on a copy to parse.
Evicted(s) == IF Len(s) > MapCacheMax THEN Tail(s) ELSE s

MapOf(f) == (CHOOSE m \in Range(maps) : m.build = f /\ m.time = page[f].time).of

\* What a reader of folder f's map gets, and the cache after it.
ReadMap(f) == IF ~Has(f, "companion") THEN None ELSE IF MapHit(f) THEN MapOf(f) ELSE page[f].of

CacheMap(f) == maps' = IF Has(f, "companion") /\ ~MapHit(f)
                       THEN Evicted(Append(maps, [build |-> f, time |-> page[f].time, of |-> page[f].of]))
                       ELSE maps

-----------------------------------------------------------------------------
(* GET /api/meta: BuildQueries.summary *)

\* The build state first: its seq is the one the tab will compare.
MetaState == BeginRead("meta", [pc |-> "pages", seq |-> bstate.seq, state |-> bstate.state])

MetaPages == /\ Look("meta", "pages")
             /\ Then([pc |-> "stale", build |-> CurPages])
             /\ UNCHANGED clients

\* build_ref_mtime: the entry of the build on screen (read anew), else the
\* baseline file, else the time of its PDF.
RefMtime == LET f == CurPages
            IN IF f \in DOMAIN hist.by /\ hist.by[f].at # None THEN hist.by[f].at
               ELSE IF base # None THEN base
               ELSE IF f \in Folders THEN page[f].time ELSE None

\* source_newer, past the 2 seconds it lets pass.
SourceNewer(ref) == ref # None /\ src.at - ref > 2

MetaStale == /\ Look("meta", "stale")
             /\ Then([pc |-> "heading", stale |-> kind = "latex" /\ SourceNewer(RefMtime), srcAt |-> src.at])
             /\ UNCHANGED clients

MetaHeading == /\ Look("meta", "heading")
               /\ Then([pc |-> "facts", dated |-> dated])
               /\ UNCHANGED clients

\* page_facts over page_list: the images there are, and the map's words for them.
MetaFacts == /\ Look("meta", "facts")
             /\ Answer([images |-> IF Has(read.build, "images") THEN page[read.build].of ELSE None])
             /\ IF kind = "figure" THEN CacheMap(read.build) ELSE UNCHANGED maps
             /\ UNCHANGED browser

-----------------------------------------------------------------------------
(* POST /api/pick: a box on a page of the build on screen at drag time *)

\* parse_pick asks whether the named build is gone.
PickAsks == \E want \in Named, n \in 1..Max({PagesOf(t) : t \in Texts}) :
              BeginRead("pick", [pc |-> IF want # None /\ want \notin Folders THEN "answered" ELSE "dir",
                                 want |-> want, page |-> n, build |-> None, text |-> None])

\* Mutant: the build on screen, whatever the tab showed.
CurrentDir(want) == CurPages

\* pages_dir_for looks again, and takes the build on screen for a folder gone since.
PagesDirFor(want) == IF want \in Folders THEN want ELSE CurPages

\* page_list: the images there are, in name order.
PageList(f) == IF Has(f, "images") THEN PagesOf(page[f].of) ELSE 0

\* parse_pick: the page must be one of that folder's.
PickDir == /\ Look("pick", "dir")
           /\ LET f == PagesDirFor(read.want)
              IN IF read.page <= PageList(f) THEN Then([pc |-> "pdf", build |-> f])
                 ELSE Answer([build |-> None])
           /\ UNCHANGED clients

\* cur_pdf: the copy in the folder, else latexmk's own or the document's.
Pdf(f) == IF Has(f, "pdf") THEN page[f].of ELSE IF kind = "latex" THEN out ELSE src.text

\* publication: the folder's PDF, and the one a region on a figure is shown of.
PickPdf == /\ Look("pick", "pdf")
           /\ Then([pc |-> IF kind = "figure" THEN "map" ELSE "trace", copy |-> Has(read.build, "pdf"),
                    region |-> IF kind = "figure" THEN ReadMap(read.build) ELSE None])
           /\ IF kind = "figure" THEN CacheMap(read.build) ELSE UNCHANGED maps
           /\ UNCHANGED browser

\* The drag is looked up in the map of that build; without an element it is a region.
PickElement == /\ Look("pick", "map")
               /\ CacheMap(read.build)
               /\ \/ /\ ReadMap(read.build) # None
                     /\ Answer([text |-> ReadMap(read.build)])
                  \/ Then([pc |-> "trace"])
               /\ UNCHANGED browser

\* pdftotext and SyncTeX open the PDF chosen before; one gone since gives no words.
Traced == IF read.copy /\ ~Has(read.build, "pdf") THEN None ELSE Pdf(read.build)

PickLines == /\ Look("pick", "trace") /\ kind = "latex"
             /\ Answer([text |-> Traced])
             /\ UNCHANGED clients

\* A region keeps the words under it and the PDF it is shown of.
PickRegion == /\ Look("pick", "trace") /\ kind # "latex"
              /\ Answer([text |-> Traced])
              /\ UNCHANGED clients

-----------------------------------------------------------------------------
(* GET /pdf?build= and /pages/<build>/<page> *)

\* Mutant: a build that is gone is answered by the one on screen.
BuildFileOrCurrent(want) == IF want \in Folders THEN want ELSE CurPages

\* build_pdf, and the folder of a page: the one named or, with no name, the
\* one on screen; never another for one that is gone.
BuildFile(want) == IF want = None THEN CurPages ELSE IF want \in Folders THEN want ELSE None

\* A file the browser keeps is not asked for again.
UrlAsks == \E want \in Named, file \in {"images", "pdf"} :
             /\ <<want, file>> \notin DOMAIN browser
             /\ BeginRead("url", [pc |-> IF BuildFile(want) = None THEN "answered" ELSE "bytes",
                                  want |-> want, build |-> BuildFile(want), file |-> file, text |-> None])

\* _answer: a named, stamped build is kept for a year; a file gone is the 404.
UrlAnswers ==
  /\ Look("url", "bytes")
  /\ LET text == IF Has(read.build, read.file) THEN page[read.build].of ELSE None
     IN /\ Answer([text |-> text])
        /\ browser' = IF text # None /\ read.want \notin {None, Legacy}
                      THEN With(browser, Only(<<read.want, read.file>>, text)) ELSE browser
  /\ UNCHANGED maps

-----------------------------------------------------------------------------
(* The build facts a list of pins is estimated with: BuildQueries.position *)

PositionAsks == BeginRead("position", [pc |-> "history", build |-> CurPages])

PositionHistory == /\ Look("position", "history")
                   /\ Then([pc |-> "baseline", by |-> hist.by])
                   /\ UNCHANGED clients

\* _same_source: by hash when both have one, else by mtime.
SameSource(a, b) == IF a.hash # None /\ b.hash # None THEN a.hash = b.hash
                    ELSE a.at # None /\ a.at = b.at

\* position_basis: a build without an entry stands at the baseline file's mtime.
Exact(build, by) == LET all == With(Only(build, [hash |-> None, at |-> base]), by)
                    IN {f \in DOMAIN all : SameSource(all[f], all[build])}

PositionAnswers == /\ Look("position", "baseline")
                   /\ Answer([exact |-> Exact(read.build, read.by)])
                   /\ UNCHANGED clients

-----------------------------------------------------------------------------
(* The two builds a figure's changes view lays over each other *)

OverlayAsks == kind = "figure" /\ BeginRead("overlay", [pc |-> "list", build |-> CurPages])

\* previous_pages lists the document's folder, then reads pages.cur.
OverlayLists == /\ Look("overlay", "list")
                /\ Then([pc |-> "previous", names |-> Folders])
                /\ UNCHANGED clients

\* previous_build: the latest of the folders older than the current one.
PreviousBuild(names, f) == LET old == {g \in names : Older(g, f)}
                           IN IF old = {} THEN None ELSE CHOOSE g \in old : \A h \in old \ {g} : Older(h, g)

OverlayAnswers == /\ Look("overlay", "previous")
                  /\ Answer([prev |-> PreviousBuild(read.names, CurPages)])
                  /\ UNCHANGED clients

-----------------------------------------------------------------------------
(* The companion of a build: its elements, its root, its outline, its files *)

\* Of the build on screen, or of the build a selection names.
CompanionAsks == kind # "pdf" /\ \E want \in Named :
                   BeginRead("companion", [pc |-> "read", build |-> IF want = None THEN CurPages ELSE want,
                                           want |-> want, text |-> None])

CompanionAnswers == /\ Look("companion", "read")
                    /\ IF kind = "figure"
                       THEN Answer([text |-> ReadMap(read.build)]) /\ CacheMap(read.build)
                       ELSE Answer([text |-> IF Has(read.build, "companion") THEN page[read.build].of ELSE None])
                            /\ UNCHANGED maps
                    /\ UNCHANGED browser

Read == \/ MetaState \/ MetaPages \/ MetaStale \/ MetaHeading \/ MetaFacts
        \/ PickAsks \/ PickDir \/ PickPdf \/ PickElement \/ PickLines \/ PickRegion
        \/ UrlAsks \/ UrlAnswers
        \/ PositionAsks \/ PositionHistory \/ PositionAnswers
        \/ OverlayAsks \/ OverlayLists \/ OverlayAnswers
        \/ CompanionAsks \/ CompanionAnswers

-----------------------------------------------------------------------------
\* A new document, or a folder of the old layout: pages and no PDF beside them,
\* made of a source that may have been edited since.
LegacyPage == Only(Legacy, [of |-> 1, time |-> 1, files |-> {"images"}])

ReadersInit ==
  /\ kind \in Kinds
  /\ \E start \in Starts :
       LET old == start # "new" /\ kind = "latex"
       IN /\ start # "new" => kind = "latex"
          /\ page = IF old THEN LegacyPage ELSE <<>>
          /\ out = IF old THEN 1 ELSE None
          /\ known = [of |-> IF old THEN Only(Legacy, 1) ELSE <<>>, before |-> Legacy,
                      shown |-> IF old THEN {Legacy} ELSE {}]
          /\ src = IF start = "legacy_edited" THEN [text |-> 2, at |-> 4] ELSE [text |-> 1, at |-> 1]
          /\ base \in IF old THEN {None, 1} ELSE {None}
          /\ dated = [at |-> Legacy, head |-> Legacy]
  /\ cur = None
  /\ hist = [seq |-> 0, by |-> <<>>]
  /\ bstate = [state |-> "idle", seq |-> 0]
  /\ job = [pc |-> "startup"] /\ read = NoRead
  /\ maps = <<>> /\ browser = <<>>
  /\ used = [writes |-> 0, builds |-> IF Legacy \in Folders THEN 1 ELSE 0, reads |-> 0, mishaps |-> 0]

\* Nothing that happens once an answer is made bears on it.
Sent == /\ read.pc = "answered" /\ read' = NoRead
        /\ UNCHANGED <<kind, src, out, page, cur, marks, bstate, job, clients, known, used>>

ReadersNext == Sent \/ (read.pc # "answered" /\ (WriteSource \/ PublisherSteps \/ Read))

ReadersSpec == ReadersInit /\ [][ReadersNext]_readersVars

-----------------------------------------------------------------------------
(* What the reads may rely on *)

Answered(op) == read.pc = "answered" /\ read.op = op
Undisturbed == ~read.early /\ ~read.moved

\* A tab that holds the count of finished builds shows what is on screen: meta
\* takes the count before the pages, and a publication moves the pages before
\* the count (summary, finish_build).  Its dates are those on disk, and a
\* manuscript more than 2 seconds newer than its pages is said to be.
MetaIsOfTheScreen ==
  Answered("meta") /\ read.seq = bstate.seq /\ read.state # "running" /\ ~Publishing =>
    /\ read.build = CurPages /\ read.dated = dated
    /\ read.images = IF CurPages \in Folders THEN page[CurPages].of ELSE None
    /\ kind = "latex" /\ CurPages \in Folders /\ ~read.stale => read.srcAt - page[CurPages].time <= 2

\* A pick that names the build its tab shows is traced on that build's PDF and
\* map, and one that names none on the PDF of the build it answers, whatever is
\* published meanwhile (pick_pages, publication) - unless that build's folder
\* was being removed, or a legacy folder never got its PDF.
PickIsOnItsBuild ==
  Answered("pick") /\ read.build # None /\ {read.want, read.build} \cap read.lost = {} =>
    /\ read.want \in {None, read.build}
    /\ read.copy => read.text = known.of[read.build]
    /\ kind = "figure" => read.region = known.of[read.build]

\* A URL or a selection that names a build gives the bytes of that build or
\* nothing, from the server, from its map cache and from a browser that keeps
\* them for a year, although folders come and go (_answer, BuildMapCache.get).
BuildsAnswerForThemselves ==
  /\ Answered("url") \/ Answered("companion") =>
       /\ read.want # None => read.build \in {None, read.want}
       /\ read.text \in {None} \cup IF read.build \in DOMAIN known.of THEN {known.of[read.build]} ELSE {}
  /\ Answered("companion") /\ Has(read.build, "companion") => read.text # None
  /\ \A url \in DOMAIN browser : browser[url] = known.of[url[1]]

\* The builds whose coordinates a pin list takes for exact on the screen are made
\* of the source the screen is made of (position_basis), once the build on screen
\* is recorded.
ExactIsSameSource ==
  Answered("position") /\ Undisturbed /\ read.build \in DOMAIN read.by =>
    \A f \in read.exact : known.of[f] = known.of[read.build]

\* The changes view lays the build on screen over the one shown before it, and
\* never over a folder that was not shown (previous_build).
OverlayIsTwoBuilds ==
  Answered("overlay") /\ Undisturbed =>
    read.prev = IF known.before \in Folders THEN known.before ELSE None

\* Together: a read that names a build tells of that build alone.
ReadsAreOfOneBuild == MetaIsOfTheScreen /\ PickIsOnItsBuild /\ OverlayIsTwoBuilds

\* Together: builds are not taken for one another, by number or by source.
BuildsStayApart == BuildsAnswerForThemselves /\ ExactIsSameSource
=============================================================================
