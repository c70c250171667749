------------------------------ MODULE EventLog ------------------------------
(***************************************************************************)
(* Notices: events.jsonl, the threads that append to it and read it, and   *)
(* the tabs of one person's browser, which poll it with a cursor they      *)
(* share in localStorage.                                                  *)
(***************************************************************************)
EXTENDS Integers, FiniteSets, FiniteSetsExt, SequencesExt

CONSTANTS Tabs,      \* tabs of the browser
          Keep,      \* records events.jsonl keeps (EVENTS_KEEP)
          Most,      \* notices one poll carries (EVENTS_SINCE_MAX)
          MaxSeq,    \* bound on the records ever written
          MaxFaults  \* bound on failing writes, lost answers, reloads, crashes

ASSUME BoundsAssumption == /\ Keep \in Nat \ {0} /\ Most \in Nat \ {0}
                           /\ MaxSeq \in Nat \ {0} /\ MaxFaults \in Nat

NoCursor == -1
Cursors  == {NoCursor} \cup 0..MaxSeq
Rows     == [seq : 1..MaxSeq, mine : BOOLEAN]  \* mine: the poll is to say it

VARIABLES log,     \* the rows of events.jsonl
          written, \* its mtime: each replacement has one of its own, 0 no file
          cache,   \* what the server last parsed, under which signature
          writer,  \* the emit under way: it holds the pin lock and the log's
          tab,     \* tab[t]: the poll t has under way
          mem,     \* mem[t]: NOTIFY_CURSOR_MEM of t
          stored,  \* pinNotifyCursor in localStorage
          faults,  \* failures so far
          issued,  \* history: every row ever written
          told,    \* history: how often row n was said
          since,   \* history: the cursor the browser's first visit set
          rewound  \* history: the cursor was put backwards

server  == <<log, written, cache, writer>>
browser == <<mem, stored>>
said    == <<told, since, rewound>>
vars    == <<server, tab, browser, faults, issued, said>>

Signature == [written |-> written, size |-> Len(log)]
NoFile    == [written |-> 0, size |-> 0]
Idle      == [step |-> "idle"]

IsLog(rows, n) == /\ rows \in Seq(Rows) /\ Len(rows) <= n
                  /\ \A i, j \in DOMAIN rows : i < j => rows[i].seq < rows[j].seq

TypeOK ==
  /\ IsLog(log, Keep) /\ IsLog(issued, MaxSeq)
  /\ written \in 0..MaxSeq
  /\ cache.sig.written \in 0..written /\ IsLog(cache.rows, Keep)
  /\ writer.step \in {"idle", "read", "write"}
  /\ \A t \in Tabs : /\ tab[t].step \in {"idle", "asked", "stat", "answered"}
                     /\ tab[t].step = "asked" => tab[t].ev \in Cursors
                     /\ tab[t].step = "answered" => tab[t].top \in 0..MaxSeq
  /\ mem \in [Tabs -> Cursors] /\ stored \in Cursors
  /\ faults \in 0..MaxFaults
  /\ told \in [1..MaxSeq -> Nat]
  /\ since \in Cursors /\ rewound \in BOOLEAN

(* A directory with or without an older log; a browser that was never here. *)
Init == /\ log \in {<<>>, <<[seq |-> 1, mine |-> TRUE]>>}
        /\ written = Len(log)
        /\ cache = [sig |-> NoFile, rows |-> <<>>]
        /\ writer = Idle
        /\ tab = [t \in Tabs |-> Idle]
        /\ mem = [t \in Tabs |-> NoCursor] /\ stored = NoCursor
        /\ faults = 0
        /\ issued = log
        /\ told = [n \in 1..MaxSeq |-> 0]
        /\ since = NoCursor /\ rewound = FALSE

Fault == faults < MaxFaults /\ faults' = faults + 1

-----------------------------------------------------------------------------
LastSeq(rows) == Max({0} \cup {rows[i].seq : i \in DOMAIN rows})
Newest(n, rows) == SubSeq(rows, Max({1, Len(rows) - n + 1}), Len(rows))

\* mutant: what was parsed once is trusted whatever the file is by now.
CachedForGood(sig) == cache.sig # NoFile
Cached(sig)        == cache.sig = sig

(* EventLog.read, its stat behind it: the cached rows, or the file as it   *)
(* is by now, remembered under the signature the stat saw.                 *)
Read(sig) == IF sig = NoFile THEN <<>> ELSE IF Cached(sig) THEN cache.rows ELSE log
Remember(sig) ==
  cache' = IF sig = NoFile THEN cache ELSE [sig |-> sig, rows |-> Read(sig)]

(* emit, called under the pin lock once the pins are written. *)
Emit(mines) ==
  /\ writer = Idle
  /\ LastSeq(issued) + Len(mines) <= MaxSeq
  /\ writer' = [step |-> "read", batch |-> mines, sig |-> Signature]
  /\ UNCHANGED <<log, written, cache, tab, browser, faults, issued, said>>

EmitRead ==
  /\ writer.step = "read"
  /\ Remember(writer.sig)
  /\ writer' = [step |-> "write", batch |-> writer.batch, rows |-> Read(writer.sig)]
  /\ UNCHANGED <<log, written, tab, browser, faults, issued, said>>

Numbered(rows, mines) ==
  [i \in DOMAIN mines |-> [seq |-> LastSeq(rows) + i, mine |-> mines[i]]]

\* mutant: one record too many is kept.
RotatedLate(rows) == Newest(Keep + 1, rows)
Rotated(rows)     == Newest(Keep, rows)

EmitWrite ==
  /\ writer.step = "write"
  /\ LET new == Numbered(writer.rows, writer.batch)
     IN  /\ log' = Rotated(writer.rows \o new)
         /\ issued' = issued \o new
  /\ written' = written + 1
  /\ writer' = Idle
  /\ UNCHANGED <<cache, tab, browser, faults, said>>

(* A write that fails only warns; the batch is lost, its numbers used next. *)
EmitFails == /\ writer # Idle /\ Fault
             /\ writer' = Idle
             /\ UNCHANGED <<log, written, cache, tab, browser, issued, said>>

-----------------------------------------------------------------------------
Cursor(t) == Max({mem[t], stored})

(* One poll of t at a time (single-flight): asks with the cursor, if any.  *)
Ask(t) == /\ tab[t] = Idle
          /\ tab' = [tab EXCEPT ![t] = [step |-> "asked", ev |-> Cursor(t)]]
          /\ UNCHANGED <<server, browser, faults, issued, said>>

PollStat(t) ==
  /\ tab[t].step = "asked"
  /\ tab' = [tab EXCEPT ![t] = [step |-> "stat", ev |-> @.ev, sig |-> Signature]]
  /\ UNCHANGED <<server, browser, faults, issued, said>>

After(rows, ev) == {e.seq : e \in {r \in ToSet(rows) : r.mine /\ r.seq > ev}}

(* events_since: with a cursor the newest notices after it, without none.  *)
EventsSince(rows, ev) ==
  LET due == After(rows, ev)
  IN  [step |-> "answered", top |-> LastSeq(rows), asked |-> ev # NoCursor,
       events |-> IF ev = NoCursor THEN {}
                  ELSE {n \in due : Cardinality({m \in due : m > n}) < Most}]

PollRead(t) ==
  /\ tab[t].step = "stat"
  /\ Remember(tab[t].sig)
  /\ tab' = [tab EXCEPT ![t] = EventsSince(Read(@.sig), @.ev)]
  /\ UNCHANGED <<log, written, writer, browser, faults, issued, said>>

Put(t, v)     == mem' = [mem EXCEPT ![t] = v] /\ stored' = v
Say(S)    == told' = [n \in 1..MaxSeq |-> told[n] + IF n \in S THEN 1 ELSE 0]

(* notifyHandle, by what the tab's cursor and the answer are. *)
FirstVisit(t, answer) == /\ Cursor(t) = NoCursor
                         /\ Put(t, answer.top)
                         /\ since' = answer.top
                         /\ UNCHANGED <<told, rewound>>

StartedAgain(t, answer) ==
  /\ Cursor(t) # NoCursor /\ ~answer.asked
  /\ IF answer.top < Cursor(t)
     THEN Put(t, answer.top) /\ rewound' = TRUE
     ELSE UNCHANGED <<browser, rewound>>
  /\ UNCHANGED <<told, since>>

\* mutant: another tab's advance meanwhile is not looked at.
PickAll(t, events) == events
Pick(t, events)    == {n \in events : n > Cursor(t)}

Notify(t, answer) ==
  /\ Cursor(t) # NoCursor /\ answer.asked
  /\ Say(Pick(t, answer.events))
  /\ LET top == Max({Cursor(t)} \cup answer.events)
     IN  IF top > Cursor(t) THEN Put(t, top) ELSE UNCHANGED browser
  /\ UNCHANGED <<since, rewound>>

Handle(t) ==
  /\ tab[t].step = "answered"
  /\ \/ FirstVisit(t, tab[t])
     \/ StartedAgain(t, tab[t])
     \/ Notify(t, tab[t])
  /\ tab' = [tab EXCEPT ![t] = Idle]
  /\ UNCHANGED <<server, faults, issued>>

(* The poll fails, or its answer finds the tab shown again and is dropped  *)
(* (pollHiddenNotifyOnce); the next one asks again.                        *)
Lose(t) == /\ tab[t] # Idle /\ Fault
           /\ tab' = [tab EXCEPT ![t] = Idle]
           /\ UNCHANGED <<server, browser, issued, said>>

Reload(t) == /\ Fault
             /\ mem' = [mem EXCEPT ![t] = NoCursor]
             /\ tab' = [tab EXCEPT ![t] = Idle]
             /\ UNCHANGED <<server, stored, issued, said>>

(* The server dies and is started again; the log's replacement is atomic.  *)
Crash == /\ Fault
         /\ cache' = [sig |-> NoFile, rows |-> <<>>]
         /\ writer' = Idle
         /\ tab' = [t \in Tabs |-> Idle]
         /\ UNCHANGED <<log, written, browser, issued, said>>

Poll(t)  == Ask(t) \/ PollStat(t) \/ PollRead(t) \/ Handle(t)
Batches  == [1..1 -> BOOLEAN] \cup [1..2 -> BOOLEAN]

Next == \/ \E mines \in Batches : Emit(mines)
        \/ EmitRead \/ EmitWrite \/ EmitFails \/ Crash
        \/ \E t \in Tabs : Poll(t) \/ Lose(t) \/ Reload(t)

Spec     == Init /\ [][Next]_vars
FairSpec == Spec /\ \A t \in Tabs : WF_vars(Poll(t))

-----------------------------------------------------------------------------
(* Whatever read the file in between and what it left in the cache, an     *)
(* emit appends to what is there: the file is the newest of all that was   *)
(* ever written, and no number is used twice ("seq only increases").       *)
LogIsTheNewestWritten ==
  /\ log = Newest(Keep, issued)
  /\ \A i, j \in DOMAIN issued : i < j => issued[i].seq < issued[j].seq

(* "A reload or two tabs never announce the same event twice", and nothing *)
(* from before the browser's first visit is announced - unless a slow      *)
(* answer to a first poll put the cursor backwards (StartedAgain).         *)
SaidOnceAndNothingOld ==
  ~rewound => \A n \in 1..MaxSeq : told[n] <= 1 /\ (told[n] = 1 => n > since)

(* The log keeps only the newest records and an answer only the newest     *)
(* notices: record i may be left out once that many came after it.         *)
LeftOut(i) == LET newer == {j \in DOMAIN issued : j > i}
              IN  \/ Cardinality(newer) >= Keep
                  \/ Cardinality({j \in newer : issued[j].mine}) >= Most

(* Notices the browser is to say: those written after its first visit.     *)
Due == {i \in DOMAIN issued : issued[i].mine /\ since # NoCursor
                                /\ issued[i].seq > since}

(* The cursor passes no due notice that was not said, the left out aside.  *)
NothingPassedOver ==
  \A i \in Due : issued[i].seq <= stored /\ told[issued[i].seq] = 0 => LeftOut(i)

(* Every due notice is said or left out, whatever answers are lost, as     *)
(* long as the tabs go on polling: again and again none is outstanding.    *)
NoticesArrive == []<>(\A i \in Due : told[issued[i].seq] > 0 \/ LeftOut(i))

(* Together: the log, the cursor and what was said agree at any moment.    *)
CursorHolds == /\ TypeOK /\ LogIsTheNewestWritten
               /\ SaidOnceAndNothingOld /\ NothingPassedOver
=============================================================================
