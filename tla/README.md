# Limn, specified

TLA+ specifications of Limn (`src/src/limn/`), the review server that shows a
manuscript as page images, keeps numbered review pins on it, and lets people and
agents work on the pins. The specifications are checked with TLC on small
instances and, where a theorem is listed, proved with TLAPS for every value of the
constants. Paths below are relative to `src/src/limn/`.

## 1. The system

One server process serves one state directory. HTTP requests run on threads of
their own; a few daemon threads run beside them; commands (`limn member`, `limn
token`) and the authors' programs change files from other processes. Nothing is
coordinated between processes except by file locks, so every hard behaviour is one
of these: threads interleaving around locks, a process dying (or a file system
refusing) between two file replacements, and readers that decide on what they read
some time ago.

| component | state it keeps | operations | talks to | hard behaviour | what makes it correct |
|---|---|---|---|---|---|
| pin store (`pins/store.py`, `pins/trash`, `pins/maintenance.py`, `platform/files.py`) | `pins.jsonl`, `pins.md`, `pins.dropped.jsonl`, `pins_*.jsonl.bak`, `pins.seq`, one lock | add, change, drop, restore, purge, clear, upkeep, `init_seq` | every pin request; agents read `pins.md` without the lock | each operation replaces several files one at a time; a crash or an I/O error falls between any two | no acknowledged change is lost, no number is given twice, nothing cleared comes back, `pins.md` follows |
| pin lifecycle (`pins/lifecycle`, `pins/claims`) | one pin: state, revision, close, confirmation, claim, thread | close, reopen, confirm, reply, edit, claim, unclaim, drop, restore, re-match | the store (one transaction each), notices | people and agents act on stale pages; clock ticks are whole seconds | an edit or a confirmation lands on what its author saw; claims exclude; thread and state tell the same story |
| tags and notices of a pin (`pins/mentions.py`, `collaboration`) | who is tagged, who was told when | a post, a hand-over, a reopen, a close | the event log | a cooldown, batches that are lost, people who join | a tag is told once, whom the open round reaches |
| editing (`pins/editing`, `pins/verdict.py`, `documents/verdicts.py`) | verdicts, suggestions, the word file | add, edit, current verdict | location, builds | decided on facts read before the lock | what was accepted fitted and stays; server and viewer agree |
| location (`pins/location`, `builds/figure_map.py`) | anchors and line spans inside pins, recorded folders | pick, re-match, resolve, overlap | the store's transactions, page folders | the manuscript changes underneath and the checkout moves | lines follow their text or are marked lost; never another file's |
| builds (`builds`) | build copy, page folders, `pages.cur`, `builds.json`, build state | copy, latexmk, render, publish, record, watch, import | sync, viewer polls | publication is several files; warm byproducts; a build can die anywhere | the screen shows one complete build, its pages are what a cold build makes, and what is told of it is about it |
| readers of builds (`builds/queries.py`, `artifacts.py`, `http.py`) | caches | stamps, picks, page and PDF URLs, overlays | builds | a read is a series of looks while a build publishes | an answer is of one build |
| sync (`sync`) | the checkout, `PullShare`, `SyncWatch.record` | pull, round, settle | builds (build locks), closes | builds and pulls share one tree and take several locks | no pull under a copy, no deadlock, pushed sources reach the screen |
| comparisons (`revisions`) | window and scope caches, cache folders, slots, a file lock, the active table | history, diff, source, start, status, prune, worker | git, latexmk | step-by-step claims handed to a thread; several git calls per answer | every claim is released once; a running job is never pruned; an answer is of one history |
| connection admission (`web/connections.py`, `web/connection_policy.py`) | admission state, leases, sockets, the fatal cause | reserve, make and start a worker, enter, clean up, release, fence, close | the HTTP handlers | any thread or socket call may fail half way | the cap is physical; a fatal cause fences entry and stops the loop |
| event log (`collaboration/events.py`, `viewer/js/notify.js`) | `events.jsonl`, its lock and read cache; the browser's cursor | emit, events since a cursor | every pin request, every poll | rotation, failed writes, tabs that share a cursor | a notice is said once to each addressee |
| access (`security`, `web/handler.py`, `administration`) | `people.json`, `tokens.json`, their caches, the audit log | guard, record a person, member and token commands | every request | files change, break and heal while requests are decided | every answer is of the files since the request came; no change is lost |
| listing, documents, runtime, viewer, platform | little or none of their own | reads and rendering, start and stop | all of the above | stale reads | - |

## 2. The modules

| module | models | relation |
|---|---|---|
| `PinShelf` | what the pin files promise: a number is in one place, and moves only by the operations that may move it | abstract specification |
| `PinStore` | the pin files and the threads that replace them, one action per durable write | implements `PinShelf` |
| `PinLifecycle` | one pin and the requests made on it from stale pages | - |
| `PinNotices` | the posts on one pin, whom they tag and who is told | - |
| `RangeLadder`, `ElementMap` | which lines of a LaTeX source, or which figure element, a drag means | pure rules |
| `PinLocation` | from a drag to a pin to where its lines are after edits, moves and restarts | extends `RangeLadder`, uses `ElementMap` |
| `Overlaps` | how open pins of one file relate | pure rules |
| `VerdictOrder` | which verdict is the current one: the server's rule and the viewer's | pure rules |
| `PinEditing` | adding and editing comments, verdicts and suggestions while texts, words and builds change | extends `VerdictOrder` |
| `Screen` | what the pages of one document promise to whoever looks at them | abstract specification |
| `LatexBuild` | a LaTeX build step by step, with the manuscript, the machine, crashes, restarts and a tab | implements `Screen` |
| `FigureImport` | figure documents and view-only PDFs: looks, imports, settlements | - |
| `BuildReaders` | what requests read of the page folders while a build publishes | - |
| `ManuscriptSync` | builds, pulls and sync rounds around one checkout | - |
| `RevisionScope` | which hunks of a change are a pin's, and the texts shown and compiled | pure rules |
| `Comparisons` | requests for history, diffs, sources and comparisons, with their caches | extends `RevisionScope` |
| `RevisionJobs` | comparison PDFs: claims, cache folders, workers, several servers | - |
| `Admission` | the bounded listener, its workers and their leases | - |
| `EventLog` | `events.jsonl`, its read cache, the tabs that poll it | - |
| `HostRules`, `AccessRules` | which Host and Origin are let in; who a request is and what it may change | pure rules |
| `Access` | connections, files and caches, and the commands that change the files | extends `AccessRules` |
| `MC*` | the instances TLC checks; `MCPinLifecycle`, `MCLimits` and `MCBuilds` run one of two components at a time (`part`), the other stays as it started | extend the module they are named after |
| `*Proofs` | the theorems, section 5 | extend the module they are about |

### PinStore

The variables `live`, `md`, `trash`, `archived` and `seq` are the files; a file's
contents are reduced to which pins it holds at which revision, which is all the
operations compare. `md` is the table of pins `pins.md` was rendered from.
`unparsed[f]` says where the lines of `f` that nobody can parse survive. `lock`
is the store lock and `op[t]` what thread `t` has read, decided and still has to
write. A request is a first action that takes the lock, reads, re-matches an
arbitrary set of pins and decides (`AddPin` ... `Maintain`), then one `Write...`
action for each file replacement in the order of the code (`After` is that
order), then `Reply`, which releases the lock and acknowledges. `Fail` is an I/O
error at any write (the exception releases the lock; `replace_files` alone puts
its originals back), `Crash` the death of the process between any two writes,
`Restart` what `prepare` does before it serves. The pins of a directory that an
older version left behind are in `LegacyIds`, wherever they are.

`born`, `acked` and `gone` are history: how many pins a number was given to,
which revision a client may have been shown, which numbers were destroyed by
purge or expiry. No guard reads them.

`ImplementsShelf` maps a number to the first place that holds it (live, Trash,
archive), with the files as they were before an upkeep pass while that pass can
still be rolled back.

### PinLifecycle and PinNotices

`pin` is the stored record, `seen` a copy some client read at some time (clients
do not see each other's pages, so one stale copy, used by any client, stands for
all of them). One action is one transaction; `PinStore` is what happens between
its writes. The thread is kept as its length and the positions of its last close
and reopen entries. `closes` and `confirmed` number the closes; the program has
no such number, it knows a close by its `done_at`.

`PinNotices` is the other half of the same pin. A text is how often each `@name`
occurs in it; the longest-token matching is abstracted to the relation `Bearers`;
people only join; accounts of the agent role are not among `People`. A notice is
queued in the transaction and appended after it, and the append may fail (`lost`).
`late` marks somebody tagged by a save that did not count them anew. The cooldown
is forgotten once its record is rotated out of the log. A save of the note may hand the
pin over too: the mention and the "assigned" notice are two rows of one post, and may
reach the same person (`editing/service.py:125`-127, 245-248). Confirm entries, too long
notes, stale revisions and full threads belong to `PinLifecycle` and `PinEditing`.

### Location

`RangeLadder` and `ElementMap` are the rules of `pins/location/mapping.py` and
`builds/figure_map.py` as operators: what a drag means, and the rungs around it.
`PinLocation` puts a pin on a rung, lets the author edit the file, the checkout
move and links appear, and re-matches the pin in every transaction as
`lookup.py` and `position.py` do. A recorded place is kept only for the pin's own
file; what `changes[]` of closes record is not. `Private` are the names no search
enters. `misled` marks a server that started, or wrote the pin, while a link led
elsewhere, or wrote it while the folder served did not hold its file; `unseen` a
file changed without a newer time: the properties except
both. Only pins on the files of `FollowedFiles` are stored and followed; on the other
files, and on figures, a drag is picked and that is all. The caps
RECORDED_FOLDERS_MAX and PATH_MAX, the weights of number tokens and the estimate of
old pins are left out. Where the served folder lacks the file, `LocatedIsOwnFile`
says nothing.

### PinEditing

A request reads the document, the word file and the build before the pin lock,
and decides inside the transaction, after the open pins were re-matched; between
the two the author writes, builds are published and other pins turn. `lock` keeps the lines the transaction found when it re-matched the pins: the author
can write once more before its pins are stored. A suggestion on a place that has no
lines is refused before the lock, one on lines inside it. `entry` is VerdictFiles'
cache. Every line of the source is distinct and none is a comment, so
a line is its text. The order in which refusals are tried, a pin outside the tree
and the lines of figure pins are left out; a suggestion too long by characters is
one too long by lines (`SuggestMax`).

### LatexBuild and Screen

`man` is the manuscript: a text, the version of another document's figure, and the
time of the last write to each; `machine` what latexmk does not track (rc files,
tools) and files outside the copy. `warm` is what is left in the build copy: what
latexmk made and of what, whether its recorder told what it read (`rec`, `reads`).
`page` are the page folders with their `recipe.json`; `cur`, `bsm`, `hist` and
`bstate` are `pages.cur`, `built_src_mtime.txt`, `builds.json` and the state a tab
polls; `memo` the shared src_mtime memo and a measurement in flight. `job.pc` is how
far `run_tracked` around `compile_tex` is: measure, copy, decide (skip, go cold, or
`-g`), latexmk, draw, swap the pointer, expire the memo, prune, date, baseline,
record. Any write may fail (`...Fails`), the thread may not start, and `Crash` kills
the process at any point; `Restart` adopts the pages on screen (`Seeded`).

Histories: `page[f].made` is what the pages show and `page[f].want` what a cold run
on that copy would have shown; `left` marks what a killed latexmk left, `stale`
pages of a build during which the machine changed, `hist.by[f].guess` a restart that
had no baseline to adopt by, `used.lost` a crash that cost the history a build. These
four are the exceptions of the properties. `tab` is a browser tab: it claims the `seq`
it is told (`TabClaims`), then asks for the pages (`TabRefreshes`), and a refresh that
is lost leaves it with the new `seq` and the old pages (`missed`). What else refreshes a
tab (a pick that meets a newer build, a switch of documents) is left out. `Screen` is
the promise to readers: whole new folders, one move at a time, and the folder shown
before stays until the next.

### FigureImport

A look compares the signature of the map and the PDF on disk with the settled one,
reads, and settles or starts a build that settles once its pages are shown; the
watch, an agent's close and a rebuild call look at the same files at once, and the
program that writes them stops anywhere. Exceptions: `unseen.pdf` (a PDF changed
and no signature moved), `unseen.lost` (a lost settle met a newer one) and `failed`
(signatures settled by a render that failed).

### BuildReaders

One read at a time, look by look, against a publisher that names a folder, moves
`pages.cur`, removes old folders one at a time, dates and records the build. A
folder's name is a second and a suffix, so several builds fall in one second
(`Second`). An answered read is handed over before anything else happens; writes
to the source after a build took its input are as writes after the build. The
directory may start in the old layout (`migrate_pages`, `seed_builds`). The overlay
reads `pages.cur` twice (`moved`). Crashes are `LatexBuild`'s, refusals of a pick
`PinLocation`'s.

### ManuscriptSync

`head` is the checked out commit, `remote` the upstream one. `build[d]` is the running
build of document `d`: it pulls, copies (in steps), compiles, publishes, writes
`head.txt`, records its result and releases `docLock[d]`. `edited` says that the tree
holds sources of no commit; a copy reads what the tree holds at each of its steps, and a
build that could not pull goes on with it. `failures` counts the faults: of a copy, a
compilation, a write after the pages were swapped, a start of a build, a call of git.
`round[r]` is a round of `SyncWatch.once`, run by the watch or by a close: it takes
every build lock in order, then the pull lock, pulls, releases, records, starts the
builds that fell behind and marks the record. `Judge` and `Settle` are a poll of `GET
/api/meta`, which copies the record under its lock, looks at the documents without it
and writes its verdict under it. Commits in `quiet` change no document's sources.

### Comparisons and RevisionJobs

`Comparisons` is a request reading its history window by several git calls,
deciding with it, and reading the two sides or starting a build, while `HEAD`
moves, folders are replaced by links, the pin changes and git fails. A log is by
descending commit numbers; a close refers to a commit by its hash or a pull
request's number; a window that was read while `HEAD` moved is marked `torn` and
excepted. `RevisionScope` holds the rules: which hunks are a pin's, the patches, the
compiled text. Macros, `numstat` and the sandbox are left out, and so is the cache's
eviction across documents. `ComparisonsAreOfTheHistory` is why `RevisionJobs` may
take a comparison's class as given.

In `RevisionJobs`, `folder[k]` is the cache folder of comparison `k`: whether it is
there, what its status answers, whether it carries the mark by which the prune tells
its class, and whether it expired; `newer` is the order of the folders' times, a
relation. `free[s]`, `held[d]` and `active[s]` are the claims: slots of a process, the
document's file lock, the active table. A request looks (`Look`) and then takes all
its claims, prunes, makes the folder and starts the thread under the lock of the
jobs, one action, `Start`, whose failing outcomes are `StartFails`. `stage[s][k]` is
the worker. Several servers may run on one directory and die at any point.

### Admission

One action is one section under the admission lock or one call that may fail:
making a worker thread, starting it, closing a socket. `loop` is the accepting
loop's program counter, `stage[k]` the one of connection `k`'s worker. A failing
`Thread.start` may or may not have started the worker.

### EventLog

`log` is `events.jsonl`; a record is its `seq` and whether the person whose browser
is modelled is to be told of it. `writer` is the emit under way. A poll asks with the
cursor, is served by a thread that stats the file and then reads it or the cache
without any lock, and is answered whenever, with the numbers of its notices as a set; `Handle` is `notifyHandle`. The cursor is
the newer of `mem[t]`, the tab's own, and `stored`, the browser's. `issued`, `told`,
`since` and `rewound` are history. `told` counts a notice that is picked, even if a
more urgent one of the same pin is shown for it; every replacement of the file has its
own modification time.

### Access

`people` and `tokens` are the files with inode, mode and shape; the caches are keyed
as `FileCache` keys them, by a stamp that takes the clock (`StatKey`). Connections
carry several requests, with bodies read or left; `shell[k]` is a member or token
command, which takes the file's lock, reads, writes and appends to the audit log, and
may be killed anywhere. `audit` and `changes` keep the lines on members apart from
those on tokens: either file's lines are in order because they are written under its
lock, nothing orders the two files. A change in flight of somebody just removed records them
again, as the code does. `adrift` are tokens whose only copy a kill or another
command took. `tokens.json` is never broken by hand. `HostRules` leaves out how
headers are spelled, trailing dots, the parsing of addresses and peers.

## 3. What the runs check

| run | instance | shows |
|---|---|---|
| `store` | 2 threads, 2 pins, 2 faults, revisions to 2, clock to 1, an older directory, an unreadable line in both files | `CopiesAreTrue`: live file, Trash and archives never contradict each other about a pin; `NoAckedChangeLost`: what a client was told is never rolled back; `IdsNeverReused` with `Numbering`; `FilesKeepTheirs`: `pins.md` is only replaced by a rendering of the file as it is, unreadable lines survive; `MdCatchesUp`; `ImplementsShelf` |
| `lifecycle` | the record: a person, 2 agents, 5 revisions, clock to 2, a full thread; or the tags: 2 people and the agent, 2 posts, 2 latest records | `RecordHolds`, `ActsOnWhatWasSeen`, `HoldersKeepTheirs`; `TagsWereTold`, `PostsReachAll`, `CooldownKept` |
| `event_log` | 2 tabs, a log of 2 records, answers of 1 notice, 3 records, 1 fault | `CursorHolds`: no number twice, nothing said twice or passed over; `NoticesArrive` |
| `limits` | 2 servers with 1 slot each, 2 documents, 3 whole commits, a pin's part, a range, 1 fault; or 3 connections, 2 places, 2 failing calls | `JobsHold`, `FreshResultStays`; `PlacesHold`, `FatalEndsService`, `PlacesAreReturned` |
| `access` | 2 connections with 2 requests, 2 shells with 2 commands, 1 fault, 1 broken file | `AnswersAreCurrent`, `RequestsStayApart`, `RecordsHold` |
| `sync` | 1 document with a commit, a fault and a request, or edits and a fault, or a quiet commit and a fault; or 2 documents and a request | `SyncStateHolds`, `RoundsKeepFaith`, `RoundsComeThrough` |
| `sync_head_moves` | 2 documents, 2 requests | a violation of `HeadTellsPagesOfEach`, section 4 |
| `builds` | a LaTeX document, 1 write, 3 builds, 1 read, 1 mishap; or a figure or PDF, 2 writes, 1 call, 1 mishap | `PagesAreTold`, `ReadersMeetScreen`, `FilesAreTold`, `ImplementsScreen`, `WorkComesToAnEnd` |
| `pin_location` | every LaTeX file of up to 3 lines of nine kinds, some longer ones, small figures; 2 edits and 2 moves, 3 in all | `RungsAreSound`, `PinsKeepTheirPlace`, `EditsLandOnSeenLines` |
| `comparisons` | 2 requests, 1 slot, a window of 5 of 7 commits with a fork and a merge, 2 moves, 1 git failure; edits of up to 3 changes | `AnswersHold`, `PartsHold` |
| `editing` | 2 clients on a LaTeX source of 2 lines, a figure, a view-only PDF; 2 verdicts per document, 1 suggestion | `VerdictsAgree`, `AcceptedStands` |
| `build_readers` | one document of each kind, a text of one page and one of two, 1 write, new or older directory | `ReadsAreOfOneBuild`, `BuildsStayApart` |

The deadlock check is off where the modelled work runs out or the system may
stop: a dead listener, spent revisions, builds, requests, edits and reads.

**Bounds.** Two threads are enough for the store because its lock admits one
operation at a time. Two faults give a crash in the middle of the operation that
repairs the first one, which is where shadows of drops and restores meet clear and
purge. Two pins give an operation a bystander. `TrashTicks = 0` makes a Trash row
expire at the first tick. In `PinLifecycle` five revisions are a close, a reopen, a
second close, a confirmation and one more write; in `PinNotices` two posts within
and outside the cooldown (`Window = 1`, `MaxTicks = 2`) meet a log that keeps two
records. Three connections are one more than the listener's places. Two documents
are what it takes for one build to move the tree under another. The comparisons of
the first document are one more than its limits together, so the bound on the cache
is met; the second gives the second server something to build. Three records are
one more than the log keeps and two more than an answer carries. Three builds are one
more than the folders a prune keeps; one write between them tells warm from cold; the
theorems of section 5 lift both. The bounds of `editing` differ per kind (requests:
3, 3, 2; writes to the source: LaTeX 1; to the words: PDF 2; builds: figure 3, PDF 2;
turns of other pins: LaTeX 2, figure 1), each where that kind has something to lose.
Servers, whole commits, clients, threads and agents are interchangeable. The liveness
formulas of `store` and `limits` and their fairness name none of them, so symmetry
does not hide a counterexample there.

**Fairness.** `PinStore`: threads inside an operation go on, a dead server is
started again, and the upkeep loop, which tries every minute, gets the lock
infinitely often if it is free infinitely often (strong fairness; the lock's
holders always release it). `Admission`: the loop and the workers go on; clients
may keep their connections for ever. `LatexBuild`, `FigureImport`: a build that began
goes on (its thread runs), a killed server is started again, a tab and the watch poll
(a refresh may be lost; then `TabFollows` owes that tab nothing);
nobody is obliged to write or to ask for a build. `ManuscriptSync`: builds
and rounds go on, the 20-second window ends, the watch begins a round every
minute; pushes, edits, polls, requests and a blocked checkout are under no obligation.
Faults and requests are bounded: a client that requests builds without
end can keep the watch deferred for ever, so `RoundsComeThrough` says nothing of
that case. `EventLog`: every tab goes on polling; failing writes, lost answers,
reloads and crashes are bounded together. The other modules state no liveness.

## 4. Findings and remarks

One run shows a disagreement between the code and its documentation:

* With several documents, a build pulls under the pull lock alone
  (`sync/run.py:168`): once the share window is over, the tree moves while another
  document copies it ("the tree never changes while one of them copies it"), and
  `head.txt` names a commit whose sources the pages do not show. The watch then takes
  that document for current. With one document no pull does this (`HeadIsOfPages`).

Met while modelling, and kept out of the properties by a constant, a hypothesis or an
exception that is named in the module:

* An unreadable `pins.seq` counts as 0 (`pins/store.py:287`): `next_id` then gives the
  number of a dropped, archived or purged pin to a new one, against "An id is never
  reused" in the same docstring (constant `SeqReadMayFail`; the theorems assume it is
  FALSE).
* `confirm` tells closes apart by `done_at`, in whole seconds
  (`pins/lifecycle/rules.py:65`): after close, reopen and close within one second, a
  confirmation of the first close lands on the second (constant `SameSecondCloses`).
* A start prunes with a place reserved for its own folder among the whole commits
  whatever it builds, ranges excepted (`revisions/jobs.py:265`): a pin's comparison
  removes the oldest whole-commit PDF of a full cache, against the comment at
  `revisions/core.py:65`.
* A folder is named by the second and the first free suffix among the folders there are
  and the names of `builds.json` (`builds/engine.py:739`-749). A build that is shown and
  fails before its row is written leaves a name that only its folder holds; the next
  build removes the folder, and a third in the same second is given the name again,
  against "a name is never given to two builds" in the docstring. TLC finds this on the
  model with three builds in one second. The theorems assume that there are no three,
  and that local time is not set back (`SecondsGoOn`).
* The window of commits is read in several git calls while `HEAD` may move
  (`revisions/core.py:345`-353); the doc at 330 speaks of one history (`torn`).
* A checkout with uncommitted edits is not pulled (`sync/run.py:119`), but a build
  copies the edits (`builds/engine.py:473`) and writes `head.txt` = HEAD (860), a commit
  whose sources the pages do not show, against "the manuscript D's page images came
  from" (`artifacts.py:709`). Once the edits are taken back, `behind`
  (`sync/rules.py:167`) says no, and the watch leaves the edited pages on screen until
  another push or a rebuild (`BuiltEdited`; `HeadIsOfPages` leaves edits open). A write
  that fails after `pages.cur` (`engine.py:853`-861) leaves new pages beside the old
  `head.txt`; that build has failed, and the next round makes up for it.
* A tab claims the new `seq` before it asks for the pages and swallows a failure
  (`viewer/js/build-chip.js:69`-71); `pollLight` asks again only for another `seq`
  (`polling.js:69`). Against "the next poll retries" in the comment (`build-chip.js:47`),
  which is so of `/api/build` alone, the tab stays on the old pages until another build
  or another reason to refresh (`missed`).
* A settle that fails is told as done (`builds/figure.py:280`; docstring 276-277), and
  the docstring of `MapLooks` promises more than it keeps (`unseen`).
* `position_basis` reads `builds.json` beside the pages (`builds/queries.py:95`) and
  the pick falls back to the screen when its folder is pruned in between
  (`artifacts.py:207`-217), where the docstrings speak of one build (`moved`).
* The branch of `notifyHandle` that puts the cursor backwards
  (`viewer/js/notify.js:74`) is taken only by an answer to a poll that had no cursor:
  with two tabs opened in a new browser, the answer of the slower one puts the shared
  cursor back behind what the faster one has said (`rewound`).
* A `stat` of `events.jsonl` that fails although the file is there would start the log
  again at 1 (`collaboration/events.py:137`); a word file that cannot be opened is
  published again under the same words (`VerdictFiles`).

## 5. What is proved

Every theorem holds for all values of the constants: any sets of threads, servers,
clients and texts, any bounds, any number of faults. What it assumes of them is in its
statement or in the `ASSUME` of the module it is about, which TLC evaluates on the
instances above.

**`PinStoreProofs` (about `PinStore`).** `TypeCorrect` needs
nothing. Everything else assumes that `pins.seq` can be read (`~SeqReadMayFail`, the
first remark of section 4).

* `NumberingHolds`, `NumbersAreNeverReused`: `Numbering` is the inductive
  strengthening of `IdsNeverReused`. `pins.seq`, once it exists, is at least every
  number ever given out, which holds after `init_seq` because a number given out before
  then still has a row somewhere (nothing runs before `init_seq` does), and which an
  add preserves because it writes `pins.seq` before the pin; while an add is in flight
  its number is above everything used, because the lock is held.
* `StoreInvHolds`: for the operation in progress (there is at most one) the invariant
  says, at each of its steps, what the plan it carries says of every file and of every
  pin: which pins it may still move, at which revisions, what a roll back of an upkeep
  pass would bring back, and where the unparseable lines are. Without the plan the
  files between two writes of a drop or a restore would be indistinguishable from a
  damaged directory, so no invariant over the files alone is inductive.
* `CopiesStayTrue` and `FilesAreKept` follow: `CopiesAreTrue`, `FilesKeepTheirs`.
* `FilesAreTheShelf` is the refinement `ImplementsShelf`. `Views` says what readers go
  by: the files, or what a running upkeep pass read of them. A write that removes the
  first copy of a pin is the shelf's step; most writes destroy a set of pins and raise
  revisions of others (`Settles`); the other writes are stutters.
* `AnswersAreKept` (`NoAckedChangeLost`) follows from the shelf's steps, which never
  lower a revision, and from the fact that an operation about to answer left its
  answer in the files.

**`PinLifecycleProofs` (about `PinLifecycle`, `PinNotices` and `Overlaps`).** The proof first shows, one lemma per rule, which fields a
step may change and what it makes of them (`Closing`, `Reopening`, ... and `StepIs`);
the theorems then argue about those eleven kinds of step.

* `TypeCorrect`, `LifecycleHolds` (`RecordHolds`): the strengthening `Rounds` adds that
  the entry positions are positions of the thread, that a pin in review carries no
  confirmation and that an open pin carries none either.
* `ClosesStand`, `ClaimsExclude`, and both as `HoldersAreSafe` (`HoldersKeepTheirs`).
* `EditsLandOnWhatWasSeen`: the page a client looks at is never newer than the pin, and
  is the pin's own record if it carries the same revision: every change of the record
  raises the revision, except drop, after which nothing can be edited until a restore
  raises it.
* `ConfirmsBindShownClose`, and with it `ActsLandOnWhatWasSeen` (`ActsOnWhatWasSeen`),
  assume that no two closes of the pin fall in one second, the second remark of
  section 4; the strengthening adds that `done_at` grows from close to close.
* `OverlapsAgree`, `NestingIsAnOrder` and `BannerMatchesListing`: two pins are told
  reverse relations, nesting is an order, and the banner of a drag agrees with the
  listing, for any pins, files and lines. These rules have no state and no run.

Of the posts, as `MCPinLifecycle` composes `PinNotices` (`Tags!`), it assumes
`TagsAssumption`: no person is called what the agent is called, pins are handed to
people, the agent or nobody, a log that is cut keeps something. `TagsInv` is the
inductive invariant.

* `TagsAreTold` (`TagsWereTold`): a save either tells whom it tags anew, or finds them
  in a note mention of the log (`Cooled`), whose readers were all told (`LogTold`); whom
  it counts no more often than before is the history's `late` unless the pin had them
  already. How often a text names somebody stays opaque: that nobody tags themselves is
  all that is used of it.
* `CooldownHolds` (`CooldownKept`): the log is the newest `Keep` rows written
  (`LogIsNewest`), so the last note mention an editor sent somebody is found at a place
  computed from its row number while it is less than `Keep` rows old (`LastIsLogged`),
  through every cut of the log (`CutIs`). Whom a batch tells was then not found there
  within the window (`UncooledIsApart`, `BatchCools`), and nothing is written between
  the decision and the batch's own rows.
* `PostsReach` (`PostsReachAll`): the rows of a post are joined from notices that reach
  somebody, which for a reply are everyone involved. Their readers are disjoint
  (`OneMoreNotice`, `EachOnce`) but in a save of the note, which has at most one row that
  tells of tags and one that tells of a hand-over (`KindsApart`), and may tell one person
  of both; the marks of the thread give where the round starts, and every
  entry moves it as the state does (`RoundMoves`).

**`LimitsProofs` (about `RevisionJobs`, and `Admission` as `MCLimits` composes it).**

* `ListenerInvHolds`: a ledger of the places (pending and claimed ones are disjoint,
  issued, within the limit), the loop's ownership of a connection until it has a
  worker, and who holds a place at every stage of a worker, with distinct leases.
  `PlacesAlwaysHold` (`PlacesHold`) is read off it: sockets and handlers that are open
  hold places.
  `NobodyEntersBehindAFatalCause`: once a fatal cause is published no handler starts,
  and the cause that is reported stays the first one.
* `JobsAlwaysHold`: `JobsHold` is inductive by itself. Claims are the running jobs' at
  every step of the hand-over; a free file lock means no job in the document, so the
  folders a prune takes are nobody's; and what a prune leaves of a class is a finite
  ordered set in which nobody has `Limit` less the reserved places before them, so it
  is no larger (`SomebodyIsLast`, `FewAhead`).
* `FreshResultsStay` (`FreshResultStays`), when the limits of whole commits and of
  ranges are at least 2 (they are 6 and 4): what was just finished is the newest of its
  class, and a prune reserves one place.

**`BuildProofs` (about `LatexBuild`, and `FigureImport` as `MCBuilds` composes it).**
Beside the modules' assumptions: `NoneIsNoValue` and `NoneIsNoFile`, the absent value
is none of the values that may be there; for the figures, contents and the bound on
writes are numbers.

* `TypesHold`: `Typed` gives a build its shape at every stage, counts the names given
  (each later than all before), and says that a folder about to be shown is there. It
  carries the refinement `FoldersAreTheScreen` (`ImplementsScreen`): drawing completes a
  folder, the swap shows it, the prune keeps it and the one before, all else stutters.
* `ReadersAreToldTheScreen` (`ReadersMeetScreen`): a measurement of the manuscript in
  flight that nobody called late is of the screen, except between the swap and the
  expiry (`MemoInv`); and the count of builds in memory is never behind the file's, nor
  a tab ahead of it, also over crashes and a history that could not be written
  (`SeqInv`). So a tab that shows other pages at the `seq` it is told is still asking, or
  lost its refresh.
* `PagesAreToldAlways` (`PagesAreTold`). A page folder's recipe tells the copy and the
  machine its pages came from (`PagesInv`), and the byproducts in the build copy are
  those of the screen, or of the new folder once it is drawn (`WarmInv`); so a digest
  that matches means pages and byproducts of this very copy (`DigestVouches`), which is
  what a skip, and a latexmk run without `-g`, rely on. For a restart that adopts pages,
  `TimesInv` follows the times: whatever the manuscript did not write after the time a
  build measured is as the copy has it, so `built_src_mtime.txt` tells whether the
  manuscript is still the one of the pages. The exceptions are those of the property.
* `FilesAreAlwaysTold` (`FilesAreTold`). `FilesInv` rests on what a stat can tell: every
  write gives a signature that was not there before, so one that is gone (`Gone`) stays
  gone, and one that was read (`Past`, `Seen`) is never of files to come. A look or a
  build in flight carries files that fit its signature (`Fits`) or a refusal that is
  still true (`NoPair`) or of files that are gone. Hence `Answered`: a settled
  signature is of a failed render, of files that are no figure, of files that will not
  be there again, or of the pages on screen (`OnScreen`), and there is nothing to look
  at again until the signature moves.

**`SyncProofs` (about `ManuscriptSync` and `BuildReaders`).** The theorems about
`ManuscriptSync` assume nothing beside the module's own assumption.

* `SyncInvHolds`: `LocksAreHeld` says who holds what at every step. A document's build
  lock is its running build's; a round has the build locks of the documents it has come
  past, from its first step to the release, and the pull lock only with all of them; and
  of the builds of several documents at most one is in its pull. `HeadsGoOn` orders
  what was noted of commits (the record, the rounds, a verdict in flight) before the
  checkout and the checkout before the upstream. With one document `BuildsAreOfHead`
  follows the commit from the copy to `head.txt`: whatever of a copy is of a commit is of
  the one checked out, and nothing moves the checkout before `head.txt` is written, since
  only that build or a round that holds its lock could. `PagesReach` says the rest: the
  pages are never behind `head.txt`, also when a write failed between them.
* `SyncStateAlwaysHolds` (`SyncStateHolds`) is read off that invariant.
  `RoundsAlwaysKeepFaith` (`RoundsKeepFaith`) needs one thing more, `VerdictStands`: a
  poll judges and writes in two steps, and a build may publish in between; what it
  publishes is of the checkout, which is not before the commit judged, and the sources
  at a later commit are not older (`ContentGoesOn`). That the sources at a commit exist at
  all is `SomeCommitIsLast`, by the well-founded order of the sets of later commits.

Those about `BuildReaders` take `SecondsGoOn` as their hypothesis (section 4): local time
is not set back, and no three builds get their names in one second. The constants of
`build_readers` satisfy it (`SecondsAssumption`), with two builds in one second.

* `ReadersInvHolds`: `BuildsInv` says what the publisher leaves between two of its
  steps. `NamesInv`: every name was given in the second of its build, and one whose
  folder is gone is of a build before the last, so `NewNameIs` can show that a new name
  was never given and comes after them all, although the code looks only at the folders
  there are and at the history. `JobInv` follows the build from its name to its row;
  `FilesInv` and `ScreenInv` say that a folder is whole unless it is being removed, and
  that of the older ones only the folder shown before stays; `TimesInv` and `HistInv`
  keep the dates and hashes of `builds.json` true of what was built, the legacy build
  included, whose hash may be missing; `CachesInv` is about the browser and the map
  cache. `ReadInv` says, for each of the six kinds of read and each of its looks, what
  it may still rely on: the folder it named was there or was taken from it (`lost`), and
  what it saw of the screen holds as long as no build came between. Its other half is
  `OnReader`: what a step of the publisher may do to a read under way. The answers
  alone are not inductive: they say nothing of a read that has looked and not answered.
* `ReadsAlwaysOfOneBuild` (`ReadsAreOfOneBuild`) and `BuildsAlwaysApart`
  (`BuildsStayApart`) are read off that invariant.

**`CursorProofs` (about `EventLog`).** No assumption beside the module's own.

* `CursorInvHolds`: record `i` has number `i`, the log is the newest of the records
  written, and what the cache holds under the file's present signature is the file
  (`LogInv`), which rests on a signature that changes with every replacement (`Seen`).
  Since only the emit under way writes, the rows it read are still the log when it
  replaces it (`WriterInv`), whatever polls left in the cache in between. `Passed` says
  of a cursor, and `Passes` of an answer on its way, that every due notice it leaves
  behind was said or is left out; both survive any number of records written later, and
  a cursor that a slow first answer put back. Without such an answer the cursor of
  localStorage is the furthest and what was said lies behind it (`SaidInv`).
* `CursorAlwaysHolds` (`CursorHolds`) is read off that invariant. That the numbers
  of a log or an answer have a greatest one is `MaxIs`, by the well-founded order of the
  strict subsets of a finite set.

**`AccessProofs` (about `Access` and `HostRules`).** `NamesAssumption` keeps connections
and shells apart and names the operations of the commands.

* `AccessInvHolds`: its parts go component by component. `FilesInv`: the last version
  of a history is the file, and what the rows are is what was done, readable or not.
  `CachesInv`: a cached value was loaded after the stat it is kept under, so it was the
  file at some moment since that stat (`RolesGot`, `TokensGot`). `ConnInv` hands this
  on, from the stat through the decision to the act: `Current` of a principal survives
  every later version (`CurrentStays`), for a request's marks never move. `PeopleInv`:
  who is about to write holds the lock, and its rows are what it makes of the rows
  there, since nobody else writes rows without that lock; closing, opening, mangling and
  mending the file change what can be read, not the rows. `AuditInv`: between its write
  and its line a command holds the lock of its file, and its line is all that the log
  lacks. `TokensInv`: a valid token is known, adrift or in the token file, or a command
  `Carries` it, about to store it or to revoke it; what a command is about to forget is
  `Spent`.
* `AnswersAlwaysCurrent`, `RequestsAlwaysApart`, `RecordsAlwaysHold` (`AnswersAreCurrent`,
  `RequestsStayApart`, `RecordsHold`) are read off it.
* `OneEntryPerName`, `OriginIsOnItsSide` and `AddressLeadsBack`: one entry per public
  name, an accepted Origin is on the side of its Host, and the printed address is one
  the server's own rule lets in (for hosts that can be used, with loopback and tailnet
  names disjoint). They have no state and no run.

**`EditingProofs` (about `PinEditing`, `VerdictOrder` and `PinLocation`).** `Documents` says that the
places and bodies the constants offer are ones the parsers let through: ranges of lines,
element paths on figures only, the fields an edit may carry.

* `VerdictOrdersAgree`: the server (`superseded_by`) and the viewer (`verdictOrder`) name
  the same later pin of every verdict, for any pins. Both read the same target of a pin;
  of one target, the newest by classes of text and the newest among the pins about the
  same lines are the same number, and the server's filter (a later pin) and the
  viewer's (another pin) leave the same pairs.
* `EditingInvHolds`: `EntryInv` says that what the cache holds for a version of the
  word file is that version's answer. `RequestsInv` follows a request from its first
  read to its answer: the word file had the version it carries at some moment since it
  came (`WordsTold`), the build it read was on screen then, and what was decided before
  the lock follows from them. `LockInv` is the part a test hardly reaches: inside a
  transaction the pins about to be written are the stored pins re-matched against the
  file that transaction found (`Reread`), and the decision was taken on those
  (`Accepted`), whatever the author writes and the build publishes until then.
* `VerdictsAgreeHolds`, `AcceptedStandsHolds` (`VerdictsAgree`, `AcceptedStands`) are
  read off it; an action owes something only when it stores pins or ends a request
  (`QuietIsGood`). The attempt at a proof corrected the property: it compared what was
  stored with the file at the moment of the write, which an author's write between
  re-match and write would break; it is stated over the file the transaction read.

About `PinLocation`, an instance `Places` here, of which two `ASSUME`s are used: names
are strings, and the files whose pins are followed have two lines at least.

* `EditsOnSeenLines` (`EditsLandOnSeenLines`): a re-match that moves a pin's lines
  raises its `rev`, so `SeenInv` (what a client saw is the pin at a `rev` not above
  its own) leaves an edit of `lo`/`hi` no other lines to land on.
* `PinsStand` (`PinKeepsItsLines`, the second part of `PinsKeepTheirPlace`): by `Kept`,
  the anchor of a pin names the offsets and the texts of the ends of the lines it was
  put on (`Tells`), through every edit above, below and between them; and a pin that
  was re-matched since its file was written stands on them (`StandsThere`). `Marks` is
  what an edit must not break: a line that keeps its identity keeps its text. The
  theorem takes `LocatedIsOwnFile` as its hypothesis: that no other file is found for
  the pin depends on which names the folders share and where links lead, and stays
  with TLC, as does `RecordedIsOwnFile`. The attempt found a case the runs had
  missed with one move: while the server serves a folder without the pin's file, a
  transaction may take a file of the same name there for it, and the pin keeps that one
  when the folder with its own file is served again. The code allows that, so the
  properties except it (`misled`), and the run now makes two moves.

**Only model-checked.** All liveness (`MdCatchesUp`, `NoticesArrive`,
`FatalEndsService`, `PlacesAreReturned`, `RoundsComeThrough`, `WorkComesToAnEnd`): the
prover has no rules for fairness and ENABLED. What recursive definitions and folds over
files and histories compute for every input (`RungsAreSound`, `PartsHold`): that is
induction over data, and the theorems of the library that take an operator as a
parameter cannot be instantiated; the same holds for facts about filtered and sorted
sequences. Of `PinsKeepTheirPlace`, the two parts about links and names of folders. The
invariants of `Comparisons` have no theorem.

## 6. What is not modelled, and why

* Data the properties do not tell apart: most texts, names, fields of requests,
  formatting of answers and of `pins.md`, HTTP and header parsing.
* The audit lines a pin operation leaves behind; the wording of notices.
* Upkeep's file stamps (`pins/maintenance.py:50`): `PinStore` lets a pass happen whenever
  the lock is free.
* A `stat` of `events.jsonl` that fails, and two replacements of it within one tick of
  the file system's clock.
* Which of git's refusals a pull meets: a refusal changes nothing. A restart in the
  middle of a sync round, and commits made by hand in the checkout.
* What the properties do not depend on: that a comparison skips files outside the build
  root and refuses unsafe paths (`revisions/scope.py:489`-499, `ScopeWrites`), and that
  part of a long anchor line, its first 40 letters, may stand for it when a pin is
  matched again (`location/mapping.py:444`-446, 460, `PinLocation.FindLine`; the one of
  `RevisionScope` has it).
* The HTML of the listing, the document outline, the handbook's publisher, measuring
  tools, migration and instance commands, most of the browser viewer, vendored code.

## 7. Plan

Proofs: `AnswersHold` of `Comparisons`, as far as its folds over hunks allow. Models:
upkeep's stamps in `PinStore`, the confirm and claim entries of `PinNotices`,
companions of a pruned folder in `BuildReaders`.
