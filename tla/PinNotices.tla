----------------------------- MODULE PinNotices -----------------------------
(***************************************************************************)
(* One pin's @-tags and notices: who a saved note, a reply or a reopening  *)
(* tags, who is told of it, and whom the pin then calls.  A text is how    *)
(* often it has each '@name'; a name can be borne by several people, and   *)
(* people become known over time.  Each action is one transaction under    *)
(* the pin lock; its notices are appended to events.jsonl after it, still  *)
(* under the lock, and only then.                                          *)
(***************************************************************************)
EXTENDS Integers, FiniteSets, FiniteSetsExt, Functions, SequencesExt

CONSTANTS People,    \* logins of people
          Agent,     \* the agent on the loopback, "local": nobody tags it
          Nobody,
          Names,     \* what can follow an '@'
          Bearers,   \* Bearers[n]: the people one of whose tokens is n
          AddedFor,  \* bound: whom a new pin is handed to, Nobody among them
          HandedTo,  \* bound: whom an edit hands the pin to
          Window,    \* NOTE_MENTION_COOLDOWN_S, in ticks
          Keep,      \* records events.jsonl keeps
          MaxClock,  \* bound on the clock
          MaxPosts,  \* bound on what is posted on the pin
          MaxRows,   \* bound on the records written
          MaxFaults  \* bound on lost batches and backward clock steps

Clients == People \cup {Agent}
Counts  == [Names -> 0..2]   \* bound: a name at most twice in a text
Blank   == [n \in Names |-> 0]

VARIABLES pin,     \* the stored pin: "state" is "none" before it is made
          known,   \* the people the '@names' are matched against
          clock,
          log,     \* the rows of events.jsonl
          batch,   \* what the transaction queued, not yet emitted
          posts,   \* posts on the pin so far
          faults,
          told,    \* history: who a note mention of this pin reached
          late,    \* history: tagged by a save that did not count them anew
          lost,    \* history: whose note mention was lost
          last,    \* history: last[c][p], the latest one c sent p
          rows,    \* history: how many rows were ever written
          round    \* history: whom the open round's posts have tagged

history == <<told, late, lost, last, rows, round>>
vars    == <<pin, known, clock, log, batch, posts, faults, history>>

Quiet == [kind |-> "none", by |-> Nobody, now |-> 0, rows |-> <<>>, involved |-> {}]
Never == [ts |-> 0, row |-> 0]

NoPin == [state |-> "none", author |-> Nobody, question |-> FALSE, assignee |-> Nobody,
          note |-> Blank, tags |-> {}, thread |-> <<>>]
InReview(c, q) == [NoPin EXCEPT !.state = "review", !.author = c, !.question = q,
                                !.thread = <<[ev |-> "close", tags |-> {}]>>]

-----------------------------------------------------------------------------
(* mention_tokens, mention_hits: how often text tags p.  A name borne by   *)
(* one known person is theirs, one borne by several only those the post's  *)
(* author picked (hints); nobody tags themselves.                          *)
Named(n) == Bearers[n] \cap known
Picked(n, hints) == IF Cardinality(Named(n)) = 1 THEN Named(n)
                    ELSE Named(n) \cap hints

Hits(text, hints, me) ==
  [p \in People |->
     IF p = me THEN 0
     ELSE MapThenSumSet(LAMBDA n : IF p \in Picked(n, hints) THEN text[n] ELSE 0, Names)]

(* resolve_mentions. *)
Tagged(text, hints, me) == {p \in People : Hits(text, hints, me)[p] > 0}

(* make_event: a notice reaches neither who posts nor the agent; none at   *)
(* all when it reaches nobody.                                             *)
Row(type, here, msg, by, to) ==
  [type |-> type, here |-> here, msg |-> msg, by |-> by,
   to |-> to \ {by, Agent, Nobody}, ts |-> 0]
Notice(r) == IF r.to = {} THEN <<>> ELSE <<r>>

(* Nothing yet; a pin that tags nobody and whose close awaits the author's *)
(* review; or one whose note has just told p.                              *)
Nothing == /\ pin = NoPin /\ known = {} /\ log = <<>>
           /\ last = [c \in Clients |-> [p \in People |-> Never]]

AwaitsReview(c, q) == /\ pin = InReview(c, q) /\ known = {c} \cap People
                      /\ log = <<>>
                      /\ last = [d \in Clients |-> [p \in People |-> Never]]

HasTold(c, p) ==
  /\ pin = [NoPin EXCEPT !.state = "open", !.author = c, !.tags = {p},
                         !.note = [n \in Names |-> IF p \in Bearers[n] THEN 1 ELSE 0]]
  /\ known = People
  /\ log = <<[Row("mention", TRUE, FALSE, c, {p}) EXCEPT !.ts = 1]>>
  /\ last = [d \in Clients |-> [q \in People |->
               IF d = c /\ q = p THEN [ts |-> 1, row |-> 1] ELSE Never]]

Init == /\ \/ Nothing
           \/ \E c \in Clients, q \in BOOLEAN : AwaitsReview(c, q)
           \/ \E c \in Clients : \E p \in People \ {c} : HasTold(c, p)
        /\ rows = Len(log) /\ told = UNION {log[i].to : i \in DOMAIN log}
        /\ clock = 1 /\ batch = Quiet /\ posts = 0 /\ faults = 0
        /\ late = {} /\ lost = {} /\ round = {}

Near(ts, window) == clock - ts < window /\ ts - clock < window
NoteMentions(c)  == {i \in DOMAIN log : /\ log[i].type = "mention" /\ ~log[i].msg
                                        /\ log[i].by = c}

\* mutants: about any pin; the window ends a tick early.
CooledAnywhere(c) ==
  UNION {log[i].to : i \in {j \in NoteMentions(c) : Near(log[j].ts, Window)}}
CooledBriefly(c) ==
  UNION {log[i].to : i \in {j \in NoteMentions(c) :
                              log[j].here /\ Near(log[j].ts, Window - 1)}}

(* note_mention_targets: whom c sent a note mention of this pin lately.    *)
Cooled(c) ==
  UNION {log[i].to : i \in {j \in NoteMentions(c) :
                              log[j].here /\ Near(log[j].ts, Window)}}

(* tag_note: whom the new note tags more often than the old one did.       *)
Newly(c, note, hints) ==
  {p \in People : Hits(note, hints, c)[p] > Hits(pin.note, hints, c)[p]}

-----------------------------------------------------------------------------
Marks(ev) == {i \in DOMAIN pin.thread : pin.thread[i].ev = ev}
LastClose  == Max({0} \cup Marks("close"))
LastReopen == Max({0} \cup Marks("reopen"))

\* mutant: a round is whatever follows the last close.
RoundStartAfterClose == LastClose + 1
RoundStart == IF LastReopen > LastClose THEN LastReopen ELSE LastClose + 1

TagsFrom(start) ==
  pin.tags \cup UNION {pin.thread[i].tags : i \in {j \in DOMAIN pin.thread : j >= start}}

RoundMentions == TagsFrom(RoundStart)  \* thread_round, round_mentions
AllMentions   == TagsFrom(1)           \* pin_mentions_all

AddressedTo == CASE pin.assignee = Agent  -> {}
                 [] pin.assignee # Nobody /\ pin.assignee # Agent -> {pin.assignee}
                 [] OTHER -> IF pin.question THEN RoundMentions ELSE {}

FyiMentionsTo == CASE pin.assignee = Nobody /\ pin.question -> {}
                   [] OTHER -> RoundMentions \ ({pin.assignee} \cap People)

-----------------------------------------------------------------------------
(* Whoever posts is known from then on: as the pin's author, a thread      *)
(* entry's, or in people.json.                                             *)
Post(c) == /\ batch = Quiet /\ posts < MaxPosts
           /\ posts' = posts + 1
           /\ known' = known \cup ({c} \cap People)
           /\ UNCHANGED <<clock, log, faults, told, lost, last, rows>>

Queue(kind, c, made, involved) ==
  batch' = IF made = <<>> THEN Quiet
           ELSE [kind |-> kind, by |-> c, now |-> clock, rows |-> made,
                 involved |-> involved]

(* The part of a save that is the note's: its tags, and the mention it     *)
(* sends to those newly tagged and not cooled.                             *)
NoteTags(c, note, hints) == Tagged(note, hints, c)
NoteMention(c, note, hints) ==
  Row("mention", TRUE, FALSE, c, Newly(c, note, hints) \ Cooled(c))
NotCountedAnew(c, note, hints) ==
  LET tags == NoteTags(c, note, hints)
  IN  (tags \cap (late \cup (tags \ pin.tags))) \ Newly(c, note, hints)

Handed(c, assignee) ==
  Row("assigned", TRUE, FALSE, c, {assignee} \ {Nobody, pin.assignee})

(* add_pin. *)
Add(c, note, hints, assignee, question) ==
  /\ pin.state = "none" /\ Post(c)
  /\ pin' = [state |-> "open", author |-> c, question |-> question,
             assignee |-> assignee, note |-> note,
             tags |-> NoteTags(c, note, hints), thread |-> <<>>]
  /\ Queue("note", c, Notice(NoteMention(c, note, hints)) \o Notice(Handed(c, assignee)), {})
  /\ late' = NotCountedAnew(c, note, hints)
  /\ UNCHANGED round

(* edit_pin's note (in place of the old one, or under it), and in the same *)
(* save perhaps its assignee; a closed pin's note may be edited too.       *)
EditNote(c, note, hints, assignee) ==
  /\ pin.state # "none" /\ Post(c)
  /\ pin' = [pin EXCEPT !.note = note, !.tags = NoteTags(c, note, hints),
                        !.assignee = assignee]
  /\ Queue("note", c, Notice(NoteMention(c, note, hints)) \o Notice(Handed(c, assignee)), {})
  /\ late' = NotCountedAnew(c, note, hints)
  /\ UNCHANGED round

(* edit_pin without a note. *)
Assign(c, assignee) ==
  /\ pin.state # "none" /\ Post(c)
  /\ pin' = [pin EXCEPT !.assignee = assignee]
  /\ Queue("assign", c, Notice(Handed(c, assignee)), {})
  /\ UNCHANGED <<late, round>>

-----------------------------------------------------------------------------
Entry(ev, tags) == Append(pin.thread, [ev |-> ev, tags |-> tags])

(* close_pin: the author hears of a close that awaits their review.        *)
Close(c, review) ==
  /\ pin.state = "open" /\ Post(c)
  /\ pin' = [pin EXCEPT !.state = IF review THEN "review" ELSE "done",
                        !.thread = Entry("close", {})]
  /\ Queue("close", c, IF review THEN Notice(Row("review_requested", TRUE, TRUE, c, {pin.author}))
                       ELSE <<>>, {})
  /\ round' = {}
  /\ UNCHANGED late

ReopenNotices(c, tags) ==
  Notice(Row("mention", TRUE, TRUE, c, tags)) \o
  Notice(Row("reopened", TRUE, TRUE, c, {pin.author} \ tags))

Reopened(tags) == /\ pin' = [pin EXCEPT !.state = "open", !.thread = Entry("reopen", tags)]
                  /\ round' = tags

(* reopen_pin of a closed pin; of an open one it only counts the revision. *)
Reopen(c, text, hints) ==
  /\ pin.state \in {"review", "done"} /\ Post(c)
  /\ Reopened(Tagged(text, hints, c))
  /\ Queue("reopen", c, ReopenNotices(c, Tagged(text, hints, c)), {})
  /\ UNCHANGED late

ReopensOnReply(c, tags, asked) ==
  /\ pin.state # "open"
  /\ IF asked = "unset" THEN c \in People /\ ~pin.question /\ tags = {}
     ELSE asked = "yes"

RepliedTo(c, tags) ==
  Row("replied", TRUE, TRUE, c, ({pin.author} \cup AllMentions) \ tags)

(* reply_pin: everyone the reply tags, the author, and everyone the pin    *)
(* tagged before hear of it.                                               *)
ReplyTagging(c, tags, asked) ==
  LET involved == {pin.author} \cup AllMentions \cup tags
  IN  IF ReopensOnReply(c, tags, asked)
      THEN /\ Reopened(tags)
           /\ Queue("reply", c, ReopenNotices(c, tags) \o
                    Notice(Row("replied", TRUE, TRUE, c, AllMentions \ ({pin.author} \cup tags))),
                    involved)
      ELSE /\ pin' = [pin EXCEPT !.thread = Entry("reply", tags)]
           /\ round' = round \cup tags
           /\ Queue("reply", c, Notice(Row("mention", TRUE, TRUE, c, tags)) \o
                                Notice(RepliedTo(c, tags)), involved)

Reply(c, text, hints, asked) ==
  /\ pin.state # "none" /\ Post(c)
  /\ ReplyTagging(c, Tagged(text, hints, c), asked)
  /\ UNCHANGED late

(* A note mention of another pin. *)
Elsewhere(c, p) == /\ p # c /\ Post(c)
                   /\ Queue("other", c, Notice(Row("mention", FALSE, FALSE, c, {p})), {})
                   /\ UNCHANGED <<pin, late, round>>

-----------------------------------------------------------------------------
(* Nothing reads the time of a record that is no mention.                  *)
Stamped(made) == [i \in DOMAIN made |->
                    IF made[i].type = "mention" THEN [made[i] EXCEPT !.ts = clock]
                    ELSE made[i]]
NoteRows(p) == {i \in DOMAIN batch.rows : /\ batch.rows[i].here /\ ~batch.rows[i].msg
                                          /\ batch.rows[i].type = "mention"
                                          /\ p \in batch.rows[i].to}
NoteTold    == {p \in People : NoteRows(p) # {}}

(* emit_events, once the pins are written. *)
Emit ==
  /\ batch # Quiet /\ rows + Len(batch.rows) <= MaxRows
  /\ LET all == log \o Stamped(batch.rows)
     IN  log' = SubSeq(all, Max({1, Len(all) - Keep + 1}), Len(all))
  /\ rows' = rows + Len(batch.rows)
  /\ told' = told \cup NoteTold
  /\ last' = [last EXCEPT ![batch.by] =
                [p \in People |-> IF p \in NoteTold THEN [ts |-> clock, row |-> rows + 1]
                                  ELSE @[p]]]
  /\ batch' = Quiet
  /\ UNCHANGED <<pin, known, clock, posts, faults, late, lost, round>>

(* The write fails, or the server dies before it: nobody is told.          *)
LoseBatch ==
  /\ batch # Quiet /\ faults < MaxFaults
  /\ faults' = faults + 1
  /\ lost' = lost \cup NoteTold
  /\ batch' = Quiet
  /\ UNCHANGED <<pin, known, clock, log, posts, told, late, last, rows, round>>

Join(p) == /\ p \notin known
           /\ known' = known \cup {p}
           /\ UNCHANGED <<pin, clock, log, batch, posts, faults, history>>

Tick == /\ clock < MaxClock
        /\ clock' = clock + 1
        /\ UNCHANGED <<pin, known, log, batch, posts, faults, history>>

StepBack == /\ clock > 1 /\ faults < MaxFaults
            /\ clock' = 1
            /\ faults' = faults + 1
            /\ UNCHANGED <<pin, known, log, batch, posts, history>>

Plus(a, b) == [n \in Names |-> a[n] + b[n]]
Texts == {t \in Counts : MapThenSumSet(LAMBDA n : t[n], Names) <= 1}
Hints == {{}} \cup {{p} : p \in People}

Save(c, text, hints) ==
  \/ \E a \in AddedFor, q \in BOOLEAN : Add(c, text, hints, a, q)
  \/ \E note \in {text, Plus(pin.note, text)} \cap Counts, a \in HandedTo \cup {pin.assignee} :
       EditNote(c, note, hints, a)
  \/ Reopen(c, text, hints)
  \/ \E asked \in {"unset", "yes", "no"} : Reply(c, text, hints, asked)

Next == \/ \E c \in Clients, t \in Texts, h \in Hints : Save(c, t, h)
        \/ \E c \in Clients, a \in HandedTo : Assign(c, a)
        \/ \E c \in Clients, review \in BOOLEAN : Close(c, review)
        \/ \E c \in Clients, p \in People : Elsewhere(c, p)
        \/ \E p \in People : Join(p)
        \/ Emit \/ LoseBatch \/ Tick \/ StepBack

Spec == Init /\ [][Next]_vars

-----------------------------------------------------------------------------
(* Everyone the stored note tags has been told by a note mention, whatever *)
(* was edited out and in again by whom - except those whose '@name' stood  *)
(* in the note already when it came to mean them (they were not known yet, *)
(* the name was picked for someone else, or it was their own post), and    *)
(* those whose notice was lost after the pin was written.                  *)
TagsWereTold == pin.tags \subseteq told \cup late \cup lost \cup NoteTold

(* A reply reaches everyone involved - those it tags, the author, everyone *)
(* tagged before - with exactly one notice, also when it reopens the pin.  *)
(* No reply, close, reopening or hand-over reaches anybody twice.  A save  *)
(* of the note may: once as tagged and once as assigned, and no more.      *)
(* Nothing reaches its own poster.                                         *)
PostReachesEachOnce ==
  \A p \in People :
    LET to == {i \in DOMAIN batch.rows : p \in batch.rows[i].to}
    IN  /\ batch.kind # "note" => \A i, j \in to : i = j
        /\ batch.kind = "note" =>
             /\ \A i \in to : batch.rows[i].type \in {"mention", "assigned"}
             /\ \A i, j \in to : batch.rows[i].type = batch.rows[j].type => i = j
        /\ batch.kind = "reply" /\ p # batch.by =>
             (to # {} <=> p \in batch.involved)
        /\ p = batch.by => to = {}

(* The pin calls those its note tags and those tagged since its open round *)
(* began - a reply during the review is not the next round's ("leaked into *)
(* the new round after reopening") - each either asked or for reference.   *)
RoundCallsAreShown ==
  pin.state # "none" =>
    /\ RoundMentions = pin.tags \cup round
    /\ AddressedTo \cap FyiMentionsTo = {}
    /\ RoundMentions \subseteq AddressedTo \cup FyiMentionsTo
    /\ AddressedTo \subseteq RoundMentions \cup {pin.assignee}

(* "At most once per window per (editor, person, pin)": when a save sends  *)
(* someone a note mention of this pin, the one its editor sent them before *)
(* was no nearer than the window, or is no longer in the log.              *)
Apart(t, u)  == t - u >= Window \/ u - t >= Window
CooldownKept ==
  [][\A c \in Clients, p \in People :
       last'[c][p] # last[c][p] /\ last[c][p] # Never =>
         \/ Apart(batch.now, last[c][p].ts)
         \/ rows - last[c][p].row >= Keep]_vars
=============================================================================
