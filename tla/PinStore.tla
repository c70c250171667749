------------------------------ MODULE PinStore ------------------------------
(***************************************************************************)
(* The pin files of one state directory and the threads that replace them: *)
(* pins.jsonl (live), pins.md (md), pins.dropped.jsonl (trash), the        *)
(* archives, and pins.seq (seq).  Every operation runs under one lock, but *)
(* writes several files, each by an atomic replace; a crash or an I/O      *)
(* error can fall between any two.  One action is one durable write.       *)
(***************************************************************************)
EXTENDS Integers

CONSTANTS Threads,       \* request threads and the maintenance thread
          NoThread,      \* the lock's owner when it is free
          MaxId,         \* bound on pin numbers
          MaxRev,        \* bound on a pin's revision
          MaxClock,      \* bound on the clock
          TrashTicks,    \* how long a dropped pin stays restorable
          MaxFaults,     \* bound on crashes and I/O errors together
          LegacyIds,     \* numbers an older version may have used already
          Unreadable,    \* files that start with a line nobody can parse
          SeqReadMayFail \* pins.seq can be unreadable when next_id reads it

Ids == 1..MaxId

ASSUME BoundsAssumption ==
  /\ MaxId \in Nat /\ MaxRev \in Nat /\ MaxClock \in Nat
  /\ TrashTicks \in Nat /\ MaxFaults \in Nat
ASSUME ThreadsAssumption == NoThread \notin Threads
ASSUME StartAssumption == /\ LegacyIds \subseteq Ids
                          /\ Unreadable \subseteq {"live", "trash"}
                          /\ SeqReadMayFail \in BOOLEAN

VARIABLES live,       \* pins.jsonl: id -> revision, Absent without a row
          md,         \* what pins.md was rendered from, in the same form
          trash,      \* the rows of pins.dropped.jsonl
          archived,   \* the rows of every pins_*.jsonl.bak
          seq,        \* pins.seq, NoSeq while the file is missing
          unparsed,   \* unparsed[f]: where the unreadable line of f survives
          lock,       \* owner of the store's lock
          op,         \* op[t]: what thread t is in the middle of
          up,         \* the server is running
          clock, faults,
          born,       \* history: how many pins each number was given to
          acked,      \* history: revision a client may have been shown
          gone        \* history: numbers purged or expired

vars == <<live, md, trash, archived, seq, unparsed, lock, op, up, clock,
          faults, born, acked, gone>>
files == <<live, md, trash, archived, seq, unparsed>>

Absent == -1
NoSeq  == -1
NoPin  == 0

Table == [Ids -> -1..MaxRev]
Row   == [id : Ids, rev : 0..MaxRev, at : 0..MaxClock]
Held  == [id : Ids, rev : 0..MaxRev]
Kept  == {"file", "backup", "archive", "staged", "left"}
Kinds == {"add", "change", "drop", "restore", "cleanup", "clear", "purge",
          "maintain"}
Steps == {"seq", "live", "md", "trash", "archive", "keepLive", "keepTrash",
          "reply"}
(* live, trash: what the operation will write.  read: what it read, which  *)
(* for a maintenance pass is also what its hard links still hold.          *)
Work  == [kind : Kinds, step : Steps, pid : 0..MaxId,
          live : Table, trash : SUBSET Row,
          read : [live : Table, md : Table, trash : SUBSET Row,
                  unparsed : [{"live", "trash"} -> SUBSET Kept]]]
Idle  == [kind |-> "none"]

TypeOK == /\ live \in Table /\ md \in Table
          /\ trash \subseteq Row /\ archived \subseteq Held
          /\ seq \in -1..MaxId
          /\ unparsed \in [{"live", "trash"} -> SUBSET Kept]
          /\ lock \in Threads \cup {NoThread}
          /\ op \in [Threads -> Work \cup {Idle}]
          /\ up \in BOOLEAN /\ clock \in 0..MaxClock /\ faults \in 0..MaxFaults
          /\ born \in [Ids -> Nat]
          /\ acked \in [Ids -> -1..MaxRev]
          /\ gone \subseteq Ids

LiveIds == {i \in Ids : live[i] # Absent}
Nothing == [i \in Ids |-> Absent]
IdsOf(rows) == {e.id : e \in rows}

-----------------------------------------------------------------------------
(* A state directory an older version left behind, without pins.seq.  Its  *)
(* pins are live, dropped or archived, at revision 0.                      *)
Init ==
  \E at \in [LegacyIds -> {"live", "trash", "archived"}] :
    LET In(p) == {i \in LegacyIds : at[i] = p}
    IN  /\ live = [i \in Ids |-> IF i \in In("live") THEN 0 ELSE Absent]
        /\ md = live
        /\ trash = {[id |-> i, rev |-> 0, at |-> 0] : i \in In("trash")}
        /\ archived = {[id |-> i, rev |-> 0] : i \in In("archived")}
        /\ seq = NoSeq
        /\ unparsed = [f \in {"live", "trash"} |->
                         IF f \in Unreadable THEN {"file"} ELSE {}]
        /\ lock = NoThread /\ op = [t \in Threads |-> Idle]
        /\ up = FALSE /\ clock = 0 /\ faults = 0
        /\ born = [i \in Ids |-> IF i \in LegacyIds THEN 1 ELSE 0]
        /\ acked = [i \in Ids |-> IF i \in LegacyIds THEN 0 ELSE -1]
        /\ gone = {}

IsTopLiveId(m) == LET used == LiveIds \cup {0}  \* mutant: live pins only
                  IN  m \in used /\ \A i \in used : i <= m

(* init_seq: m is the largest number in the live, archived and Trash rows. *)
IsTopId(m) == LET used == LiveIds \cup IdsOf(archived) \cup IdsOf(trash) \cup {0}
              IN  m \in used /\ \A i \in used : i <= m

InitSeq == IF seq # NoSeq THEN UNCHANGED seq
           ELSE \E m \in 0..MaxId : IsTopId(m) /\ seq' = m

Restart == /\ ~up
           /\ up' = TRUE
           /\ InitSeq
           /\ UNCHANGED <<live, md, trash, archived, unparsed, lock, op, clock,
                          faults, born, acked, gone>>

-----------------------------------------------------------------------------
(* transact: take the lock, read, re-sync a set S of anchored pins whose   *)
(* lines moved, then apply the change to what was read.                    *)
Synced(S) == [i \in Ids |-> IF i \in S THEN live[i] + 1 ELSE live[i]]
Movable   == {i \in LiveIds : live[i] < MaxRev}

Expired(e) == clock > e.at + TrashTicks
Unexpired(rows) == {e \in rows : ~Expired(e)}
Without(rows, i) == {e \in rows : e.id # i}
WithoutLiveShadows(rows) == {e \in rows : e.id \notin LiveIds}

RequestUnlocked(t) == up /\ op[t] = Idle  \* mutant: no lock taken
Request(t) == up /\ lock = NoThread /\ op[t] = Idle

Begin(t, kind, step, pid, newLive, newTrash) ==
  /\ lock' = t
  /\ op' = [op EXCEPT ![t] =
              [kind |-> kind, step |-> step, pid |-> pid,
               live |-> newLive, trash |-> newTrash,
               read |-> [live |-> live, md |-> md, trash |-> trash,
                         unparsed |-> unparsed]]]

Untouched == UNCHANGED <<up, clock, faults, born, acked, gone>>

IsNextLiveId(i, last) == LET used == LiveIds \cup {0}  \* mutant: no pins.seq
                         IN  i - 1 \in used /\ \A j \in used : j < i

(* next_id: one more than pins.seq and every live number. *)
IsNextId(i, last) == LET used == LiveIds \cup {last}
                     IN  i - 1 \in used /\ \A j \in used : j < i
SeqReadings == {seq} \cup (IF SeqReadMayFail THEN {0} ELSE {})

AddPin(t) ==
  /\ Request(t)
  /\ \E S \in SUBSET Movable, i \in Ids, last \in SeqReadings :
       /\ IsNextId(i, last)
       /\ Begin(t, "add", "seq", i, [Synced(S) EXCEPT ![i] = 0], trash)
  /\ Untouched /\ UNCHANGED files

(* An edit, close, reopen, confirm, reply or claim of one pin. *)
ChangePin(t) ==
  /\ Request(t)
  /\ \E S \in SUBSET Movable, i \in LiveIds :
       /\ Synced(S)[i] < MaxRev
       /\ Begin(t, "change", "live", i,
                [Synced(S) EXCEPT ![i] = @ + 1], trash)
  /\ Untouched /\ UNCHANGED files

(* A refused or read-only step still writes a re-sync. *)
RefusedRequest(t) ==
  /\ Request(t)
  /\ \E S \in SUBSET Movable \ {{}} :
       Begin(t, "change", "live", NoPin, Synced(S), trash)
  /\ Untouched /\ UNCHANGED files

(* drop_pin: the Trash copy is written before the live row goes. *)
DropPin(t) ==
  /\ Request(t)
  /\ \E S \in SUBSET Movable, i \in LiveIds :
       LET copy == [id |-> i, rev |-> Synced(S)[i], at |-> clock]
       IN  Begin(t, "drop", "trash", i, [Synced(S) EXCEPT ![i] = Absent],
                 Without(Unexpired(trash), i) \cup {copy})
  /\ Untouched /\ UNCHANGED files

\* mutant: the revision of the dropped copy is kept.
RestorePinAsDropped(t) ==
  /\ Request(t)
  /\ \E S \in SUBSET Movable, e \in Unexpired(trash) :
       /\ e.id \notin LiveIds
       /\ Begin(t, "restore", "live", e.id, [Synced(S) EXCEPT ![e.id] = e.rev],
                Unexpired(Without(trash, e.id)))
  /\ Untouched /\ UNCHANGED files

(* restore_pin: the live row is written before the Trash copy goes. *)
RestorePin(t) ==
  /\ Request(t)
  /\ \E S \in SUBSET Movable, e \in Unexpired(trash) :
       /\ e.id \notin LiveIds /\ e.rev < MaxRev
       /\ Begin(t, "restore", "live", e.id,
                [Synced(S) EXCEPT ![e.id] = e.rev + 1],
                Unexpired(Without(trash, e.id)))
  /\ Untouched /\ UNCHANGED files

(* restore_pin answering AlreadyLive: an interrupted drop or restore left  *)
(* a copy of a live pin in the Trash, which goes now.                      *)
RestoreLivePin(t) ==
  /\ Request(t)
  /\ \E S \in SUBSET Movable, e \in Unexpired(trash) :
       /\ e.id \in LiveIds
       /\ Begin(t, "cleanup", IF S = {} THEN "trash" ELSE "live", e.id,
                Synced(S), Without(trash, e.id))
  /\ Untouched /\ UNCHANGED files

\* mutant: the Trash is left alone.
ClearPinsOnly(t) == /\ Request(t)
                    /\ Begin(t, "clear", "archive", NoPin, Nothing, trash)
                    /\ Untouched /\ UNCHANGED files

(* clear_pins: no re-sync; copies of live pins leave the Trash first. *)
ClearPins(t) ==
  /\ Request(t)
  /\ Begin(t, "clear", "trash", NoPin, Nothing, WithoutLiveShadows(trash))
  /\ Untouched /\ UNCHANGED files

PurgePin(t) ==
  /\ Request(t)
  /\ \E e \in Unexpired(trash) :
       /\ e.id \notin LiveIds
       /\ Begin(t, "purge", "trash", e.id, live,
                Unexpired(Without(trash, e.id)))
  /\ Untouched /\ UNCHANGED files

\* mutant: an outdated pins.md is no reason to run.
MaintainStoreOnly(t) ==
  /\ Request(t)
  /\ \E S \in SUBSET Movable :
       LET keep == Unexpired(WithoutLiveShadows(trash))
       IN  /\ S # {} \/ keep # trash
           /\ Begin(t, "maintain", "md", NoPin, Synced(S), keep)
  /\ Untouched /\ UNCHANGED files

(* maintain: everything is staged, the originals hard-linked, before the   *)
(* first replace.  A pass that would change nothing takes no step.         *)
Maintain(t) ==
  /\ Request(t)
  /\ \E S \in SUBSET Movable :
       LET keep == Unexpired(WithoutLiveShadows(trash))
           linked == {f \in {"live", "trash"} :
                        /\ "file" \in unparsed[f]
                        /\ f = "live" => S # {}
                        /\ f = "trash" => keep # trash}
       IN  /\ S # {} \/ keep # trash \/ md # live
           /\ Begin(t, "maintain", "md", NoPin, Synced(S), keep)
           /\ unparsed' = [f \in {"live", "trash"} |->
                IF f \in linked THEN unparsed[f] \cup {"staged"} ELSE unparsed[f]]
  /\ Untouched /\ UNCHANGED <<live, md, trash, archived, seq>>

-----------------------------------------------------------------------------
(* The order of the writes of each operation. *)
After(kind, step) ==
  CASE step = "seq" -> "live"
    [] step = "live" -> IF kind = "maintain" THEN "trash" ELSE "md"
    [] step = "md" -> CASE kind = "maintain" -> "live"
                        [] kind \in {"restore", "cleanup"} -> "trash"
                        [] OTHER -> "reply"
    [] step = "trash" -> CASE kind = "drop" -> "live"
                           [] kind = "clear" -> "archive"
                           [] kind = "maintain" -> "keepLive"
                           [] OTHER -> "reply"
    [] step = "archive" -> "md"
    [] step = "keepLive" -> "keepTrash"
    [] OTHER -> "reply"

At(t, step) == op[t].kind # "none" /\ op[t].step = step
Done(t) == op' = [op EXCEPT ![t].step = After(op[t].kind, op[t].step)]
Same == UNCHANGED <<lock, up, clock, faults, acked>>

WriteSeq(t) ==
  /\ At(t, "seq")
  /\ seq' = op[t].pid
  /\ Done(t)
  /\ Same /\ UNCHANGED <<live, md, trash, archived, unparsed, born, gone>>

(* _keep_corrupt: a file with unreadable lines is copied before an         *)
(* ordinary rewrite drops them.                                            *)
Drops(t, f) ==
  /\ "file" \in unparsed[f]
  /\ op[t].kind = "maintain" => op[t][f] # op[t].read[f]
  /\ ~(op[t].kind = "clear" /\ op[t].trash = op[t].read.trash)

KeepCorrupt(t) ==
  /\ op[t].kind \notin {"none", "maintain"}
  /\ \E f \in {"live", "trash"} :
       /\ At(t, f) /\ Drops(t, f) /\ "backup" \notin unparsed[f]
       /\ unparsed' = [unparsed EXCEPT ![f] = @ \cup {"backup"}]
  /\ Same /\ UNCHANGED <<live, md, trash, archived, seq, op, born, gone>>

Rewrite(t, f) ==
  IF Drops(t, f)
  THEN /\ op[t].kind # "maintain" => "backup" \in unparsed[f]
       /\ unparsed' = [unparsed EXCEPT ![f] = @ \ {"file"}]
  ELSE UNCHANGED unparsed

WriteLive(t) ==
  /\ At(t, "live")
  /\ Rewrite(t, "live")
  /\ live' = op[t].live
  /\ born' = IF op[t].kind = "add" THEN [born EXCEPT ![op[t].pid] = @ + 1]
             ELSE born
  /\ Done(t)
  /\ Same /\ UNCHANGED <<md, trash, archived, seq, gone>>

\* mutant: renders the rows it read, before the change.
WriteMdAsRead(t) ==
  /\ At(t, "md")
  /\ md' = op[t].read.live
  /\ Done(t)
  /\ Same /\ UNCHANGED <<live, trash, archived, seq, unparsed, born, gone>>

WriteMd(t) ==
  /\ At(t, "md")
  /\ md' = op[t].live
  /\ Done(t)
  /\ Same /\ UNCHANGED <<live, trash, archived, seq, unparsed, born, gone>>

(* Numbers whose last copy a Trash rewrite removes. *)
Forgotten(old, new) == (IdsOf(old) \ IdsOf(new)) \ LiveIds

(* A maintenance pass can still be rolled back: it forgets at its end. *)
WriteTrash(t) ==
  /\ At(t, "trash")
  /\ Rewrite(t, "trash")
  /\ trash' = op[t].trash
  /\ gone' = IF op[t].kind = "maintain" THEN gone
             ELSE gone \cup Forgotten(trash, op[t].trash)
  /\ Done(t)
  /\ Same /\ UNCHANGED <<live, md, archived, seq, born>>

ArchiveLive(t) ==
  /\ At(t, "archive")
  /\ archived' = archived \cup {[id |-> i, rev |-> live[i]] : i \in LiveIds}
  /\ live' = Nothing
  /\ unparsed' = IF "file" \notin unparsed["live"] THEN unparsed
                 ELSE [unparsed EXCEPT !["live"] = (@ \ {"file"}) \cup {"archive"}]
  /\ Done(t)
  /\ Same /\ UNCHANGED <<md, trash, seq, born, gone>>

(* maintain's replaced originals become .corrupt backups last of all. *)
KeepOriginal(t) ==
  /\ \E f \in {"live", "trash"} :
       /\ At(t, IF f = "live" THEN "keepLive" ELSE "keepTrash")
       /\ unparsed' = IF "staged" \notin unparsed[f] THEN unparsed
                      ELSE [unparsed EXCEPT ![f] = @ \cup {"backup"}]
  /\ Done(t)
  /\ Same /\ UNCHANGED <<live, md, trash, archived, seq, born, gone>>

-----------------------------------------------------------------------------
Larger(a, b) == IF a > b THEN a ELSE b
Shown(i) == IF live[i] # Absent THEN live[i]
            ELSE IF \E e \in trash : e.id = i
                 THEN (CHOOSE e \in trash : e.id = i).rev ELSE -1

Passes == {t \in Threads : op[t].kind = "maintain"}
Removed(t) == IF t \in Passes THEN Forgotten(op[t].read.trash, trash) ELSE {}
Unstaged(to) == [f \in {"live", "trash"} |->
  IF "staged" \in unparsed[f] THEN (unparsed[f] \ {"staged"}) \cup to
  ELSE unparsed[f]]

(* The lock is released and the client answered: it may have seen all the  *)
(* store holds.  A maintenance pass deletes its staging directory.         *)
Reply(t) ==
  /\ At(t, "reply")
  /\ op' = [op EXCEPT ![t] = Idle]
  /\ lock' = NoThread
  /\ acked' = [i \in Ids |-> Larger(acked[i], Shown(i))]
  /\ gone' = gone \cup Removed(t)
  /\ unparsed' = IF t \in Passes THEN Unstaged({}) ELSE unparsed
  /\ UNCHANGED <<live, md, trash, archived, seq, up, clock, faults, born>>

(* A write fails: the exception releases the lock, what was already        *)
(* replaced stays.  replace_files alone puts its originals back.           *)
Fail(t) ==
  /\ op[t].kind # "none" /\ op[t].step # "reply"
  /\ faults < MaxFaults /\ faults' = faults + 1
  /\ op' = [op EXCEPT ![t] = Idle]
  /\ lock' = NoThread
  /\ IF t \in Passes
     THEN /\ live' = op[t].read.live /\ md' = op[t].read.md
          /\ trash' = op[t].read.trash
          /\ unparsed' = op[t].read.unparsed
     ELSE UNCHANGED <<live, md, trash, unparsed>>
  /\ UNCHANGED <<archived, seq, up, clock, born, acked, gone>>

(* The process dies: the lock and every thread with it.  The staging       *)
(* directory of a maintenance pass is left where it was.                   *)
Crash ==
  /\ up /\ faults < MaxFaults /\ faults' = faults + 1
  /\ up' = FALSE
  /\ op' = [t \in Threads |-> Idle]
  /\ lock' = NoThread
  /\ gone' = gone \cup UNION {Removed(t) : t \in Threads}
  /\ unparsed' = Unstaged({"left"})
  /\ UNCHANGED <<live, md, trash, archived, seq, clock, born, acked>>

(* The server is stopped between requests. *)
Shutdown == /\ up /\ \A t \in Threads : op[t] = Idle
            /\ up' = FALSE
            /\ UNCHANGED <<live, md, trash, archived, seq, unparsed, lock, op,
                           clock, faults, born, acked, gone>>

Tick == /\ clock < MaxClock /\ clock' = clock + 1
        /\ UNCHANGED <<live, md, trash, archived, seq, unparsed, lock, op, up,
                       faults, born, acked, gone>>

-----------------------------------------------------------------------------
Start(t) == \/ AddPin(t) \/ ChangePin(t) \/ RefusedRequest(t) \/ DropPin(t)
            \/ RestorePin(t) \/ RestoreLivePin(t) \/ ClearPins(t)
            \/ PurgePin(t) \/ Maintain(t)
Write(t) == \/ WriteSeq(t) \/ KeepCorrupt(t) \/ WriteLive(t) \/ WriteMd(t)
            \/ WriteTrash(t) \/ ArchiveLive(t) \/ KeepOriginal(t) \/ Reply(t)

Next == \/ \E t \in Threads : Start(t) \/ Write(t) \/ Fail(t)
        \/ Restart \/ Crash \/ Shutdown \/ Tick

Spec == Init /\ [][Next]_vars

(* A thread inside an operation runs on, the server is started again, and  *)
(* the sixty-second maintenance keeps being tried: one of its passes gets  *)
(* the lock.  Nothing is assumed of requests, of the clock or of faults.   *)
(* Only the holder of the lock is inside one, so no thread is named.   *)
Fairness == /\ WF_vars(\E t \in Threads : Write(t))
            /\ WF_vars(Restart)
            /\ SF_vars(\E t \in Threads : Maintain(t))
FairSpec == Spec /\ Fairness
-----------------------------------------------------------------------------
(* The state the shelf's readers rely on.  While a maintenance pass runs,  *)
(* the files it replaces can still be rolled back, so its originals count. *)
LiveView  == IF Passes = {} THEN live
             ELSE op[CHOOSE t \in Passes : TRUE].read.live
TrashView == IF Passes = {} THEN trash
             ELSE op[CHOOSE t \in Passes : TRUE].read.trash

Place(i) == IF LiveView[i] # Absent THEN "live"
            ELSE IF i \in IdsOf(TrashView) THEN "trash"
            ELSE IF i \in IdsOf(archived) THEN "archived"
            ELSE IF i \in gone THEN "gone" ELSE "none"

Revision(i) ==
  CASE Place(i) = "live" -> LiveView[i]
    [] Place(i) = "trash" -> (CHOOSE e \in TrashView : e.id = i).rev
    [] Place(i) = "archived" -> (CHOOSE e \in archived : e.id = i).rev
    [] OTHER -> 0

(* Every number is given to at most one pin, across drops, purges, clears, *)
(* expiry, crashes and the migration of a directory without pins.seq       *)
(* (store.py next_id: "An id is never reused").                            *)
IdsNeverReused == \A i \in Ids : born[i] <= 1

(* Why: pins.seq covers every number a pin ever had before an operation    *)
(* can run, and a number in the hands of an unfinished add is above them.  *)
Numbering ==
  /\ seq = NoSeq => /\ ~up
                    /\ \A i \in Ids : born[i] > 0 =>
                         i \in LiveIds \cup IdsOf(trash) \cup IdsOf(archived)
  /\ seq # NoSeq => \A i \in Ids : born[i] > 0 => i <= seq
  /\ \A t \in Threads : op[t].kind # "none" => lock = t /\ up
  /\ \A t \in Threads : op[t].kind = "add" =>
       /\ op[t].pid \in Ids
       /\ op[t].step = "seq" => op[t].pid > seq
       /\ op[t].step = "live" => seq = op[t].pid /\ born[op[t].pid] = 0
       /\ op[t].step \in {"seq", "live", "md", "reply"}
  /\ \A t \in Threads : op[t].kind \notin {"none", "add"} => op[t].step # "seq"

(* A revision a client may have been answered with is never rolled back or *)
(* lost: the copy the server now goes by (live, else Trash, else archive)  *)
(* is at least that new, unless the pin was purged or expired.             *)
NoAckedChangeLost ==
  \A i \in Ids : acked[i] # -1 /\ i \notin gone =>
                  Place(i) # "none" /\ Revision(i) >= acked[i]

(* Cleared and destroyed pins do not come back: no copy of an archived,    *)
(* purged or expired pin is left where a restore or a read would find it,  *)
(* whatever interrupted the operations that moved it (clear_pins removes   *)
(* the shadows an interrupted drop or restore left in the Trash).          *)
ClearedStaysCleared ==
  \A i \in IdsOf(archived) \cup gone : i \notin LiveIds \cup IdsOf(trash)

(* The Trash never holds two copies of a pin, so restore's "newest copy"   *)
(* is the copy of the last drop and carries the last revision.             *)
TrashHoldsOneCopy == \A d, e \in trash : d.id = e.id => d = e

(* Lines of pins.jsonl or of the Trash that nobody can parse survive every *)
(* rewrite somewhere on disk - backup, archive, or the hard links of an    *)
(* interrupted maintenance pass.                                           *)
UnreadableKept ==
  [][\A f \in {"live", "trash"} : unparsed[f] # {} => unparsed'[f] # {}]_vars

(* pins.md, which agents read without the lock, is only ever replaced by   *)
(* a rendering of what pins.jsonl holds at that moment (write_prepared:    *)
(* JSONL, then Markdown); only a maintenance pass writes it first.         *)
MdFollowsLive == [][md' # md /\ Passes = {} => md' = live']_vars

(* What the three files say of one another, besides having their types.    *)
CopiesAreTrue == TypeOK /\ ClearedStaysCleared /\ TrashHoldsOneCopy

(* What a write may not do to the file beside the one it is about.         *)
FilesKeepTheirs == MdFollowsLive /\ UnreadableKept

(* After crashes and I/O errors stop, pins.md agrees with pins.jsonl again *)
(* and again: every divergence is repaired by a write or by maintenance.   *)
MdCatchesUp == []<>(up /\ md = live)

(* The files implement the abstract shelf through every interruption.      *)
Shelf == INSTANCE PinShelf WITH place <- [i \in Ids |-> Place(i)],
                                revision <- [i \in Ids |-> Revision(i)]
ImplementsShelf == Shelf!Spec
=============================================================================
