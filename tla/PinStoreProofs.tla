--------------------------- MODULE PinStoreProofs ---------------------------
(***************************************************************************)
(* Theorems about PinStore, for every number of threads, pins, revisions,  *)
(* ticks and faults.  First the types and the numbers.  Then what the      *)
(* files say of one another, and that through every write, crash, error    *)
(* and restart they are the one shelf of PinShelf: all of that rests on    *)
(* one inductive invariant, in which an operation's plan says what each    *)
(* file holds at each of its steps, and what it may do to each pin.        *)
(***************************************************************************)
EXTENDS PinStore, TLAPS

-----------------------------------------------------------------------------
(* Re-synchronising pins below the bound yields a table of pins. *)
LEMMA SyncedType ==
  ASSUME TypeOK, NEW S \in SUBSET Movable
  PROVE  Synced(S) \in Table
<1>1. ASSUME NEW i \in Ids
      PROVE  (IF i \in S THEN live[i] + 1 ELSE live[i]) \in -1..MaxRev
  <2>1. live[i] \in -1..MaxRev
    BY DEF TypeOK, Table
  <2>2. i \in S => live[i] < MaxRev
    BY DEF Movable
  <2> QED BY <2>1, <2>2, BoundsAssumption
<1> QED BY <1>1 DEF Synced, Table

(* Begin leaves a well-typed record of the operation it starts. *)
LEMMA BeginType ==
  ASSUME TypeOK, NEW t \in Threads, NEW kind \in Kinds, NEW step \in Steps,
         NEW pid \in 0..MaxId, NEW newLive \in Table,
         NEW newTrash \in SUBSET Row,
         Begin(t, kind, step, pid, newLive, newTrash)
  PROVE  /\ op' \in [Threads -> Work \cup {Idle}]
         /\ lock' \in Threads \cup {NoThread}
<1> DEFINE w == [kind |-> kind, step |-> step, pid |-> pid,
                 live |-> newLive, trash |-> newTrash,
                 read |-> [live |-> live, md |-> md, trash |-> trash,
                           unparsed |-> unparsed]]
<1>1. w.read \in [live : Table, md : Table, trash : SUBSET Row,
                  unparsed : [{"live", "trash"} -> SUBSET Kept]]
  BY DEF TypeOK
<1>2. w \in Work
  BY <1>1 DEF Work
<1>3. op' = [op EXCEPT ![t] = w] /\ lock' = t
  BY DEF Begin
<1> QED BY <1>2, <1>3 DEF TypeOK

(* What a Trash rewrite starts from is a set of rows. *)
LEMMA TrashType ==
  ASSUME TypeOK, NEW i
  PROVE  /\ Unexpired(trash) \in SUBSET Row
         /\ Without(trash, i) \in SUBSET Row
         /\ WithoutLiveShadows(trash) \in SUBSET Row
         /\ Unexpired(Without(trash, i)) \in SUBSET Row
         /\ Without(Unexpired(trash), i) \in SUBSET Row
         /\ Unexpired(WithoutLiveShadows(trash)) \in SUBSET Row
BY DEF TypeOK, Unexpired, Without, WithoutLiveShadows

(* Every operation starts with a well-typed record and the lock. *)
LEMMA StartType ==
  ASSUME TypeOK, NEW t \in Threads, Start(t)
  PROVE  TypeOK'
<1> USE BoundsAssumption
<1>0. 0 \in 0..MaxId /\ NoPin \in 0..MaxId
  BY DEF NoPin
<1>1. ASSUME op' \in [Threads -> Work \cup {Idle}],
             lock' \in Threads \cup {NoThread}, Untouched, UNCHANGED files
      PROVE  TypeOK'
  BY <1>1 DEF TypeOK, Untouched, files
<1>2. CASE AddPin(t)
  <2>1. PICK S \in SUBSET Movable, i \in Ids, last \in SeqReadings :
          Begin(t, "add", "seq", i, [Synced(S) EXCEPT ![i] = 0], trash)
    BY <1>2 DEF AddPin
  <2>2. [Synced(S) EXCEPT ![i] = 0] \in Table
    BY SyncedType DEF Table
  <2>3. i \in 0..MaxId /\ trash \in SUBSET Row
    BY DEF Ids, TypeOK
  <2> QED BY <1>1, <1>2, <2>1, <2>2, <2>3, BeginType DEF AddPin, Kinds, Steps
<1>3. CASE ChangePin(t)
  <2>1. PICK S \in SUBSET Movable, i \in LiveIds :
          /\ Synced(S)[i] < MaxRev
          /\ Begin(t, "change", "live", i,
                   [Synced(S) EXCEPT ![i] = @ + 1], trash)
    BY <1>3 DEF ChangePin
  <2>2. i \in Ids /\ Synced(S) \in Table
    BY SyncedType DEF LiveIds
  <2>3. Synced(S)[i] + 1 \in -1..MaxRev
    BY <2>1, <2>2 DEF Table
  <2>4. [Synced(S) EXCEPT ![i] = @ + 1] \in Table
    BY <2>2, <2>3 DEF Table
  <2>5. i \in 0..MaxId /\ trash \in SUBSET Row
    BY <2>2 DEF Ids, TypeOK
  <2> QED BY <1>1, <1>3, <2>1, <2>4, <2>5, BeginType DEF ChangePin, Kinds, Steps
<1>4. CASE RefusedRequest(t)
  <2>1. PICK S \in SUBSET Movable :
          Begin(t, "change", "live", NoPin, Synced(S), trash)
    BY <1>4 DEF RefusedRequest
  <2>2. Synced(S) \in Table /\ trash \in SUBSET Row
    BY SyncedType DEF TypeOK
  <2> QED BY <1>0, <1>1, <1>4, <2>1, <2>2, BeginType
          DEF RefusedRequest, Kinds, Steps
<1>5. CASE DropPin(t)
  <2>1. PICK S \in SUBSET Movable, i \in LiveIds :
          Begin(t, "drop", "trash", i, [Synced(S) EXCEPT ![i] = Absent],
                Without(Unexpired(trash), i)
                  \cup {[id |-> i, rev |-> Synced(S)[i], at |-> clock]})
    BY <1>5 DEF DropPin
  <2>2. i \in Ids /\ Synced(S) \in Table
    BY SyncedType DEF LiveIds
  <2>3. Synced(S)[i] \in 0..MaxRev
    <3>1. live[i] \in -1..MaxRev /\ live[i] # -1
      BY <2>2 DEF TypeOK, Table, LiveIds, Absent
    <3>2. Synced(S)[i] \in -1..MaxRev
      BY <2>2 DEF Table
    <3>3. Synced(S)[i] = IF i \in S THEN live[i] + 1 ELSE live[i]
      BY <2>2 DEF Synced
    <3> QED BY <3>1, <3>2, <3>3
  <2>4. [id |-> i, rev |-> Synced(S)[i], at |-> clock] \in Row
    BY <2>2, <2>3 DEF Row, TypeOK
  <2>5. [Synced(S) EXCEPT ![i] = Absent] \in Table
    BY <2>2 DEF Table, Absent
  <2>6. i \in 0..MaxId
    BY <2>2 DEF Ids
  <2> QED BY <1>1, <1>5, <2>1, <2>4, <2>5, <2>6, TrashType, BeginType
          DEF DropPin, Kinds, Steps
<1>6. CASE RestorePin(t)
  <2>1. PICK S \in SUBSET Movable, e \in Unexpired(trash) :
          /\ e.rev < MaxRev
          /\ Begin(t, "restore", "live", e.id,
                   [Synced(S) EXCEPT ![e.id] = e.rev + 1],
                   Unexpired(Without(trash, e.id)))
    BY <1>6 DEF RestorePin
  <2>2. e \in Row
    BY TrashType
  <2>3. e.id \in Ids /\ e.rev + 1 \in -1..MaxRev
    BY <2>1, <2>2 DEF Row
  <2>4. [Synced(S) EXCEPT ![e.id] = e.rev + 1] \in Table
    BY <2>3, SyncedType DEF Table
  <2>5. e.id \in 0..MaxId
    BY <2>3 DEF Ids
  <2> QED BY <1>1, <1>6, <2>1, <2>4, <2>5, TrashType, BeginType
          DEF RestorePin, Kinds, Steps
<1>7. CASE RestoreLivePin(t)
  <2>1. PICK S \in SUBSET Movable, e \in Unexpired(trash) :
          Begin(t, "cleanup", IF S = {} THEN "trash" ELSE "live", e.id,
                Synced(S), Without(trash, e.id))
    BY <1>7 DEF RestoreLivePin
  <2>2. e.id \in 0..MaxId
    BY TrashType DEF Row, Ids
  <2>3. (IF S = {} THEN "trash" ELSE "live") \in Steps
    BY DEF Steps
  <2> QED BY <1>1, <1>7, <2>1, <2>2, <2>3, SyncedType, TrashType, BeginType
          DEF RestoreLivePin, Kinds
<1>8. CASE ClearPins(t)
  <2>1. Nothing \in Table
    BY DEF Nothing, Table, Absent
  <2> QED BY <1>0, <1>1, <1>8, <2>1, TrashType, BeginType
          DEF ClearPins, Kinds, Steps
<1>9. CASE PurgePin(t)
  <2>1. PICK e \in Unexpired(trash) :
          Begin(t, "purge", "trash", e.id, live,
                Unexpired(Without(trash, e.id)))
    BY <1>9 DEF PurgePin
  <2>2. e.id \in 0..MaxId
    BY TrashType DEF Row, Ids
  <2>3. op' \in [Threads -> Work \cup {Idle}] /\ lock' \in Threads \cup {NoThread}
    <3>1. live \in Table
      BY DEF TypeOK
    <3> QED BY <2>1, <2>2, <3>1, TrashType, BeginType DEF Kinds, Steps
  <2> QED BY <1>1, <1>9, <2>3 DEF PurgePin
<1>10. CASE Maintain(t)
  <2>1. PICK S \in SUBSET Movable :
          Begin(t, "maintain", "md", NoPin, Synced(S),
                Unexpired(WithoutLiveShadows(trash)))
    BY <1>10 DEF Maintain
  <2>2. op' \in [Threads -> Work \cup {Idle}] /\ lock' \in Threads \cup {NoThread}
    BY <1>0, <2>1, SyncedType, TrashType, BeginType DEF Kinds, Steps
  <2>3. PICK T \in SUBSET Movable :
          unparsed' = [f \in {"live", "trash"} |->
            IF f \in {g \in {"live", "trash"} :
                       /\ "file" \in unparsed[g]
                       /\ g = "live" => T # {}
                       /\ g = "trash" =>
                            Unexpired(WithoutLiveShadows(trash)) # trash}
            THEN unparsed[f] \cup {"staged"} ELSE unparsed[f]]
    BY <1>10 DEF Maintain
  <2>4. ASSUME NEW f \in {"live", "trash"}
        PROVE  /\ unparsed[f] \in SUBSET Kept
               /\ unparsed[f] \cup {"staged"} \in SUBSET Kept
    BY DEF TypeOK, Kept
  <2>5. unparsed' \in [{"live", "trash"} -> SUBSET Kept]
    BY <2>3, <2>4
  <2> QED BY <1>10, <2>2, <2>5 DEF Maintain, TypeOK, Untouched
<1> QED BY <1>2, <1>3, <1>4, <1>5, <1>6, <1>7, <1>8, <1>9, <1>10 DEF Start

(* A thread in the middle of an operation holds a well-typed record of it, *)
(* and stays well-typed when its step advances.                            *)
LEMMA WorkType ==
  ASSUME TypeOK, NEW t \in Threads, op[t].kind # "none"
  PROVE  op[t] \in Work
BY DEF TypeOK, Idle

LEMMA DoneType ==
  ASSUME TypeOK, NEW t \in Threads, op[t].kind # "none", Done(t)
  PROVE  op' \in [Threads -> Work \cup {Idle}]
<1>1. op[t] \in Work
  BY WorkType
<1>2. After(op[t].kind, op[t].step) \in Steps
  BY DEF After, Steps
<1>3. [op[t] EXCEPT !.step = After(op[t].kind, op[t].step)] \in Work
  BY <1>1, <1>2 DEF Work
<1> QED BY <1>1, <1>3 DEF Done, TypeOK

(* The revisions shown to clients are revisions. *)
LEMMA ShownType ==
  ASSUME TypeOK, NEW i \in Ids
  PROVE  Shown(i) \in -1..MaxRev
<1> USE BoundsAssumption
<1>1. CASE live[i] # Absent
  BY <1>1 DEF Shown, TypeOK, Table
<1>2. CASE live[i] = Absent /\ \E e \in trash : e.id = i
  <2>1. (CHOOSE e \in trash : e.id = i) \in trash
    BY <1>2
  <2>2. (CHOOSE e \in trash : e.id = i).rev \in 0..MaxRev
    BY <2>1 DEF TypeOK, Row
  <2> QED BY <1>2, <2>2 DEF Shown
<1>3. CASE live[i] = Absent /\ ~\E e \in trash : e.id = i
  BY <1>3 DEF Shown
<1> QED BY <1>1, <1>2, <1>3

(* A rewrite only ever takes a location away from a file's lost lines. *)
LEMMA RewriteType ==
  ASSUME TypeOK, NEW t \in Threads, NEW f \in {"live", "trash"}, Rewrite(t, f)
  PROVE  unparsed' \in [{"live", "trash"} -> SUBSET Kept]
BY DEF TypeOK, Rewrite

LEMMA UnstagedType ==
  ASSUME TypeOK, NEW to \in SUBSET Kept
  PROVE  Unstaged(to) \in [{"live", "trash"} -> SUBSET Kept]
<1>1. ASSUME NEW f \in {"live", "trash"}
      PROVE  /\ unparsed[f] \in SUBSET Kept
             /\ (unparsed[f] \ {"staged"}) \cup to \in SUBSET Kept
  BY DEF TypeOK
<1> QED BY <1>1 DEF Unstaged

(* Every durable write keeps the types. *)
LEMMA WriteType ==
  ASSUME TypeOK, NEW t \in Threads, Write(t)
  PROVE  TypeOK'
<1> USE BoundsAssumption
<1>1. CASE WriteSeq(t)
  <2>1. op[t] \in Work /\ op' \in [Threads -> Work \cup {Idle}]
    BY <1>1, WorkType, DoneType DEF WriteSeq, At
  <2>2. seq' \in -1..MaxId
    BY <1>1, <2>1 DEF WriteSeq, Work
  <2> QED BY <1>1, <2>1, <2>2 DEF WriteSeq, Same, TypeOK
<1>2. CASE KeepCorrupt(t)
  <2>1. PICK f \in {"live", "trash"} :
          unparsed' = [unparsed EXCEPT ![f] = @ \cup {"backup"}]
    BY <1>2 DEF KeepCorrupt
  <2>2. unparsed' \in [{"live", "trash"} -> SUBSET Kept]
    BY <2>1 DEF TypeOK, Kept
  <2> QED BY <1>2, <2>2 DEF KeepCorrupt, Same, TypeOK
<1>3. CASE WriteLive(t)
  <2>1. op[t] \in Work /\ op' \in [Threads -> Work \cup {Idle}]
    BY <1>3, WorkType, DoneType DEF WriteLive, At
  <2>2. live' \in Table
    BY <1>3, <2>1 DEF WriteLive, Work
  <2>3. born' \in [Ids -> Nat]
    <3>1. born \in [Ids -> Nat]
      BY DEF TypeOK
    <3>2. CASE op[t].kind = "add" /\ op[t].pid \in Ids
      <4>1. born' = [born EXCEPT ![op[t].pid] = @ + 1]
        BY <1>3, <3>2 DEF WriteLive
      <4>2. born[op[t].pid] + 1 \in Nat
        BY <3>1, <3>2
      <4> QED BY <3>1, <3>2, <4>1, <4>2
    <3>3. CASE ~(op[t].kind = "add" /\ op[t].pid \in Ids)
      BY <1>3, <3>1, <3>3 DEF WriteLive
    <3> QED BY <3>2, <3>3
  <2>4. unparsed' \in [{"live", "trash"} -> SUBSET Kept]
    BY <1>3, RewriteType DEF WriteLive
  <2> QED BY <1>3, <2>1, <2>2, <2>3, <2>4 DEF WriteLive, Same, TypeOK
<1>4. CASE WriteMd(t)
  <2>1. op[t] \in Work /\ op' \in [Threads -> Work \cup {Idle}]
    BY <1>4, WorkType, DoneType DEF WriteMd, At
  <2>2. md' \in Table
    BY <1>4, <2>1 DEF WriteMd, Work
  <2> QED BY <1>4, <2>1, <2>2 DEF WriteMd, Same, TypeOK
<1>5. CASE WriteTrash(t)
  <2>1. op[t] \in Work /\ op' \in [Threads -> Work \cup {Idle}]
    BY <1>5, WorkType, DoneType DEF WriteTrash, At
  <2>2. trash' \subseteq Row
    BY <1>5, <2>1 DEF WriteTrash, Work
  <2>3. gone' \subseteq Ids
    BY <1>5 DEF WriteTrash, Forgotten, IdsOf, TypeOK, Row
  <2>4. unparsed' \in [{"live", "trash"} -> SUBSET Kept]
    BY <1>5, RewriteType DEF WriteTrash
  <2> QED BY <1>5, <2>1, <2>2, <2>3, <2>4 DEF WriteTrash, Same, TypeOK
<1>6. CASE ArchiveLive(t)
  <2>1. op' \in [Threads -> Work \cup {Idle}]
    BY <1>6, DoneType DEF ArchiveLive, At
  <2>2. ASSUME NEW i \in LiveIds
        PROVE  [id |-> i, rev |-> live[i]] \in Held
    <3>1. i \in Ids /\ live[i] \in -1..MaxRev /\ live[i] # -1
      BY DEF LiveIds, TypeOK, Table, Absent
    <3>2. live[i] \in 0..MaxRev
      BY <3>1
    <3> QED BY <3>1, <3>2 DEF Held
  <2>3. archived' \subseteq Held
    BY <1>6, <2>2 DEF ArchiveLive, TypeOK
  <2>4. live' \in Table
    BY <1>6 DEF ArchiveLive, Nothing, Table, Absent
  <2>5. unparsed' \in [{"live", "trash"} -> SUBSET Kept]
    BY <1>6 DEF ArchiveLive, TypeOK, Kept
  <2> QED BY <1>6, <2>1, <2>3, <2>4, <2>5 DEF ArchiveLive, Same, TypeOK
<1>7. CASE KeepOriginal(t)
  <2>1. PICK f \in {"live", "trash"} :
          /\ op[t].kind # "none"
          /\ unparsed' = IF "staged" \notin unparsed[f] THEN unparsed
                         ELSE [unparsed EXCEPT ![f] = @ \cup {"backup"}]
    BY <1>7 DEF KeepOriginal, At
  <2>2. unparsed' \in [{"live", "trash"} -> SUBSET Kept]
    BY <2>1 DEF TypeOK, Kept
  <2>3. op' \in [Threads -> Work \cup {Idle}]
    BY <1>7, <2>1, DoneType DEF KeepOriginal
  <2> QED BY <1>7, <2>2, <2>3 DEF KeepOriginal, Same, TypeOK
<1>8. CASE Reply(t)
  <2>1. acked' \in [Ids -> -1..MaxRev]
    BY <1>8, ShownType DEF Reply, Larger, TypeOK
  <2>2. gone' \subseteq Ids
    BY <1>8, WorkType DEF Reply, Removed, Passes, Forgotten, IdsOf, TypeOK, Row, Work
  <2>3. unparsed' \in [{"live", "trash"} -> SUBSET Kept]
    BY <1>8, UnstagedType DEF Reply, TypeOK
  <2>4. op' \in [Threads -> Work \cup {Idle}] /\ lock' \in Threads \cup {NoThread}
    BY <1>8 DEF Reply, TypeOK
  <2> QED BY <1>8, <2>1, <2>2, <2>3, <2>4 DEF Reply, TypeOK
<1> QED BY <1>1, <1>2, <1>3, <1>4, <1>5, <1>6, <1>7, <1>8 DEF Write

(* The faults, the restart and the clock keep the types. *)
LEMMA EnvironmentType ==
  ASSUME TypeOK,
         \/ \E t \in Threads : Fail(t)
         \/ Restart \/ Crash \/ Shutdown \/ Tick
  PROVE  TypeOK'
<1> USE BoundsAssumption
<1>1. ASSUME NEW t \in Threads, Fail(t)
      PROVE  TypeOK'
  <2>1. op[t] \in Work
    BY <1>1, WorkType DEF Fail
  <2>2. /\ op' \in [Threads -> Work \cup {Idle}]
        /\ lock' \in Threads \cup {NoThread}
        /\ faults' \in 0..MaxFaults
    BY <1>1 DEF Fail, TypeOK
  <2>3. CASE t \in Passes
    BY <1>1, <2>1, <2>2, <2>3 DEF Fail, TypeOK, Work
  <2>4. CASE t \notin Passes
    BY <1>1, <2>2, <2>4 DEF Fail, TypeOK
  <2> QED BY <2>3, <2>4
<1>2. CASE Restart
  <2>1. seq' \in -1..MaxId
    BY <1>2 DEF Restart, InitSeq, TypeOK
  <2> QED BY <1>2, <2>1 DEF Restart, TypeOK
<1>3. CASE Crash
  <2>1. ASSUME NEW t \in Threads
        PROVE  Removed(t) \subseteq Ids
    BY WorkType DEF Removed, Passes, Forgotten, IdsOf, Row, Work
  <2>2. gone' \subseteq Ids
    BY <1>3, <2>1 DEF Crash, TypeOK
  <2>3. unparsed' \in [{"live", "trash"} -> SUBSET Kept]
    BY <1>3, UnstagedType DEF Crash, Kept
  <2>4. op' \in [Threads -> Work \cup {Idle}]
    BY <1>3 DEF Crash
  <2>5. /\ lock' = NoThread /\ up' = FALSE /\ faults' \in 0..MaxFaults
        /\ UNCHANGED <<live, md, trash, archived, seq, clock, born, acked>>
    BY <1>3 DEF Crash, TypeOK
  <2> QED BY <2>2, <2>3, <2>4, <2>5 DEF TypeOK
<1>4. CASE Shutdown
  BY <1>4 DEF Shutdown, TypeOK
<1>5. CASE Tick
  BY <1>5 DEF Tick, TypeOK
<1> QED BY <1>1, <1>2, <1>3, <1>4, <1>5

(* A migrated state directory is well typed. *)
LEMMA InitType == Init => TypeOK
<1> USE BoundsAssumption
<1> SUFFICES ASSUME Init PROVE TypeOK
  OBVIOUS
<1>1. PICK at \in [LegacyIds -> {"live", "trash", "archived"}] :
        /\ live = [i \in Ids |-> IF i \in {j \in LegacyIds : at[j] = "live"}
                                 THEN 0 ELSE Absent]
        /\ md = live
        /\ trash = {[id |-> i, rev |-> 0, at |-> 0] :
                      i \in {j \in LegacyIds : at[j] = "trash"}}
        /\ archived = {[id |-> i, rev |-> 0] :
                         i \in {j \in LegacyIds : at[j] = "archived"}}
        /\ seq = NoSeq
        /\ unparsed = [f \in {"live", "trash"} |->
                         IF f \in Unreadable THEN {"file"} ELSE {}]
        /\ lock = NoThread /\ op = [t \in Threads |-> Idle]
        /\ up = FALSE /\ clock = 0 /\ faults = 0
        /\ born = [i \in Ids |-> IF i \in LegacyIds THEN 1 ELSE 0]
        /\ acked = [i \in Ids |-> IF i \in LegacyIds THEN 0 ELSE -1]
        /\ gone = {}
  BY DEF Init
<1>2. 0 \in 0..MaxRev /\ 0 \in 0..MaxClock /\ -1 \in -1..MaxRev /\ 0 \in -1..MaxRev
  OBVIOUS
<1>3. live \in Table /\ md \in Table
  BY <1>1, <1>2 DEF Table, Absent
<1>4. trash \subseteq Row /\ archived \subseteq Held
  BY <1>1, <1>2, StartAssumption DEF Row, Held
<1>5. seq \in -1..MaxId /\ faults \in 0..MaxFaults
  BY <1>1 DEF NoSeq
<1>6. unparsed \in [{"live", "trash"} -> SUBSET Kept]
  BY <1>1 DEF Kept
<1>7. born \in [Ids -> Nat] /\ acked \in [Ids -> -1..MaxRev]
  BY <1>1, <1>2
<1> QED BY <1>1, <1>2, <1>3, <1>4, <1>5, <1>6, <1>7 DEF TypeOK

LEMMA NextType == TypeOK /\ [Next]_vars => TypeOK'
<1> SUFFICES ASSUME TypeOK, [Next]_vars PROVE TypeOK'
  OBVIOUS
<1>1. CASE UNCHANGED vars
  BY <1>1 DEF vars, TypeOK
<1>2. CASE Next
  BY <1>2, StartType, WriteType, EnvironmentType DEF Next
<1> QED BY <1>1, <1>2

(* The files, the lock, the operations in progress and the histories keep  *)
(* the shapes TypeOK gives them, for every number of threads and pins.     *)
THEOREM TypeCorrect == Spec => []TypeOK
BY InitType, NextType, PTL DEF Spec

-----------------------------------------------------------------------------
(* Only an idle thread starts an operation, and what it starts is at a     *)
(* step of its plan: nothing but an add is ever about to write pins.seq.   *)
LEMMA StartNumbering ==
  ASSUME TypeOK, Numbering, ~SeqReadMayFail, NEW t \in Threads, Start(t)
  PROVE  Numbering'
<1>1. /\ up /\ lock = NoThread
      /\ UNCHANGED <<seq, up, born, live, trash, archived>>
  BY DEF Start, AddPin, ChangePin, RefusedRequest, DropPin, RestorePin,
         RestoreLivePin, ClearPins, PurgePin, Maintain, Request, Untouched, files
<1>2. \A u \in Threads : op[u].kind = "none"
  BY <1>1, ThreadsAssumption DEF Numbering
<1>3. seq # NoSeq
  BY <1>1 DEF Numbering
<1>4. ASSUME NEW w,
             op' = [op EXCEPT ![t] = w], lock' = t,
             w.kind # "none",
             w.kind = "add" => /\ w.pid \in Ids /\ w.step = "seq"
                               /\ w.pid > seq,
             w.kind # "add" => w.step # "seq"
      PROVE  Numbering'
  <2>1. op'[t] = w /\ \A u \in Threads \ {t} : op'[u].kind = "none"
    BY <1>2, <1>4 DEF TypeOK
  <2> QED BY <1>1, <1>3, <1>4, <2>1 DEF Numbering
<1>5. CASE AddPin(t)
  <2>1. PICK S \in SUBSET Movable, i \in Ids, last \in SeqReadings :
          /\ IsNextId(i, last)
          /\ Begin(t, "add", "seq", i, [Synced(S) EXCEPT ![i] = 0], trash)
    BY <1>5 DEF AddPin
  <2>2. last = seq
    BY DEF SeqReadings
  <2>3. i > seq
    BY <2>1, <2>2 DEF IsNextId, TypeOK, Ids
  <2> DEFINE w == [kind |-> "add", step |-> "seq", pid |-> i,
                   live |-> [Synced(S) EXCEPT ![i] = 0], trash |-> trash,
                   read |-> [live |-> live, md |-> md, trash |-> trash,
                             unparsed |-> unparsed]]
  <2>4. op' = [op EXCEPT ![t] = w] /\ lock' = t
    BY <2>1 DEF Begin
  <2>5. w.kind = "add" /\ w.pid = i /\ w.step = "seq"
    OBVIOUS
  <2> HIDE DEF w
  <2> QED BY <1>4, <2>3, <2>4, <2>5
<1>6. CASE ~AddPin(t)
  <2>0. PICK kind \in Kinds \ {"add"}, step \in Steps \ {"seq"} :
          \E pid, newLive, newTrash : Begin(t, kind, step, pid, newLive, newTrash)
    BY <1>6 DEF Start, ChangePin, RefusedRequest, DropPin, RestorePin,
                RestoreLivePin, ClearPins, PurgePin, Maintain, Kinds, Steps
  <2>1. PICK pid, newLive, newTrash : Begin(t, kind, step, pid, newLive, newTrash)
    BY <2>0
  <2> DEFINE w == [kind |-> kind, step |-> step, pid |-> pid,
                   live |-> newLive, trash |-> newTrash,
                   read |-> [live |-> live, md |-> md, trash |-> trash,
                             unparsed |-> unparsed]]
  <2>2. op' = [op EXCEPT ![t] = w] /\ lock' = t
    BY <2>1 DEF Begin
  <2>3. w.kind \notin {"none", "add"} /\ w.step # "seq"
    BY DEF Kinds
  <2> HIDE DEF w
  <2> QED BY <1>4, <2>2, <2>3
<1> QED BY <1>5, <1>6

(* A step of the operation in progress: an add records its number before   *)
(* the pin exists, and gives it to one pin.                                *)
LEMMA WriteNumbering ==
  ASSUME TypeOK, Numbering, NEW t \in Threads, Write(t)
  PROVE  Numbering'
<1>1. op[t].kind # "none"
  BY DEF Write, WriteSeq, KeepCorrupt, WriteLive, WriteMd, WriteTrash,
         ArchiveLive, KeepOriginal, Reply, At
<1>2. up /\ lock = t /\ seq # NoSeq
  BY <1>1 DEF Numbering
<1>3. \A u \in Threads \ {t} : op[u].kind = "none"
  BY <1>2 DEF Numbering
<1>4. \A i \in Ids : born[i] > 0 => i <= seq
  BY <1>2 DEF Numbering
<1>5. up' = up
  BY DEF Write, WriteSeq, KeepCorrupt, WriteLive, WriteMd, WriteTrash,
         ArchiveLive, KeepOriginal, Reply, Same
<1>6. ASSUME Done(t), lock' = lock
      PROVE  /\ op'[t].kind = op[t].kind /\ op'[t].pid = op[t].pid
             /\ op'[t].step = After(op[t].kind, op[t].step)
             /\ \A u \in Threads \ {t} : op'[u].kind = "none"
             /\ lock' = t
  <2>1. op[t] \in Work
    BY <1>1, WorkType
  <2> QED BY <1>2, <1>3, <1>6, <2>1 DEF Done, TypeOK, Work
<1>7. CASE WriteSeq(t)
  <2>1. op[t].kind = "add" /\ op[t].step = "seq" /\ seq' = op[t].pid
    BY <1>1, <1>7 DEF WriteSeq, At, Numbering
  <2>2. op[t].pid \in Ids /\ op[t].pid > seq
    BY <2>1 DEF Numbering
  <2>3. born[op[t].pid] = 0
    BY <1>4, <2>2 DEF TypeOK, Ids
  <2>4. \A i \in Ids : born[i] > 0 => i <= seq'
    BY <1>4, <2>1, <2>2 DEF TypeOK, Ids
  <2>5. After("add", "seq") = "live"
    BY DEF After
  <2>6. Done(t) /\ lock' = lock /\ born' = born
    BY <1>7 DEF WriteSeq, Same
  <2>7. seq' # NoSeq
    BY <2>1, <2>2, BoundsAssumption DEF Ids, NoSeq
  <2> QED BY <1>2, <1>5, <1>6, <2>1, <2>2, <2>3, <2>4, <2>5, <2>6, <2>7
          DEF Numbering
<1>8. CASE WriteLive(t)
  <2>1. /\ Done(t) /\ lock' = lock /\ seq' = seq
        /\ op[t].step = "live"
    BY <1>8 DEF WriteLive, Same, At
  <2>2. op'[t].step \in {"trash", "md"}
    BY <1>6, <2>1 DEF After
  <2>3. CASE op[t].kind = "add"
    <3>1. op[t].pid \in Ids /\ seq = op[t].pid
      BY <2>1, <2>3 DEF Numbering
    <3>2. born' = [born EXCEPT ![op[t].pid] = @ + 1]
      BY <1>8, <2>3 DEF WriteLive
    <3>3. \A i \in Ids : born'[i] > 0 => i <= seq'
      BY <1>4, <2>1, <3>1, <3>2 DEF TypeOK, Ids
    <3>4. op'[t].step = "md"
      BY <1>6, <2>1, <2>3 DEF After
    <3> QED BY <1>2, <1>5, <1>6, <2>1, <2>3, <3>1, <3>3, <3>4 DEF Numbering
  <2>4. CASE op[t].kind # "add"
    <3>1. born' = born
      BY <1>8, <2>4 DEF WriteLive
    <3> QED BY <1>1, <1>2, <1>4, <1>5, <1>6, <2>1, <2>2, <2>4, <3>1 DEF Numbering
  <2> QED BY <2>3, <2>4
<1>9. CASE WriteMd(t) \/ WriteTrash(t) \/ ArchiveLive(t) \/ KeepOriginal(t)
  <2>1. /\ Done(t) /\ lock' = lock /\ seq' = seq /\ born' = born
        /\ op[t].step \in {"md", "trash", "archive", "keepLive", "keepTrash"}
    BY <1>9 DEF WriteMd, WriteTrash, ArchiveLive, KeepOriginal, At, Same
  <2>2. op'[t].step # "seq"
    BY <1>6, <2>1 DEF After
  <2>3. op[t].kind = "add" => op[t].pid \in Ids /\ op[t].step = "md"
    BY <2>1 DEF Numbering
  <2>4. op[t].kind = "add" => op'[t].step = "reply"
    BY <1>6, <2>1, <2>3 DEF After
  <2> QED BY <1>1, <1>2, <1>4, <1>5, <1>6, <2>1, <2>2, <2>3, <2>4 DEF Numbering
<1>10. CASE KeepCorrupt(t)
  <2>1. UNCHANGED <<seq, up, born, op, lock>>
    BY <1>10 DEF KeepCorrupt, Same
  <2> QED BY <1>2, <2>1 DEF Numbering
<1>11. CASE Reply(t)
  <2>1. \A u \in Threads : op'[u].kind = "none"
    BY <1>3, <1>11 DEF Reply, Idle, TypeOK
  <2>2. seq' = seq /\ born' = born
    BY <1>11 DEF Reply
  <2> QED BY <1>2, <1>4, <2>1, <2>2 DEF Numbering
<1> QED BY <1>7, <1>8, <1>9, <1>10, <1>11 DEF Write

(* Faults burn numbers at most; a restart without pins.seq starts above    *)
(* every number the directory still shows.                                 *)
LEMMA EnvironmentNumbering ==
  ASSUME TypeOK, Numbering,
         \/ \E t \in Threads : Fail(t)
         \/ Restart \/ Crash \/ Shutdown \/ Tick
  PROVE  Numbering'
<1>1. ASSUME NEW t \in Threads, Fail(t)
      PROVE  Numbering'
  <2>1. up /\ lock = t /\ seq # NoSeq
    BY <1>1 DEF Fail, Numbering
  <2>2. \A u \in Threads : op'[u].kind = "none"
    BY <1>1, <2>1 DEF Fail, Numbering, Idle, TypeOK
  <2> QED BY <1>1, <2>1, <2>2 DEF Fail, Numbering
<1>2. CASE Restart
  <2>1. \A t \in Threads : op[t].kind = "none"
    BY <1>2 DEF Restart, Numbering
  <2>2. CASE seq = NoSeq
    <3>1. PICK m \in 0..MaxId : IsTopId(m) /\ seq' = m
      BY <1>2, <2>2 DEF Restart, InitSeq
    <3>2. \A i \in Ids : born[i] > 0 => i <= m
      BY <2>2, <3>1 DEF IsTopId, Numbering
    <3>3. seq' # NoSeq
      BY <3>1, BoundsAssumption DEF NoSeq
    <3> QED BY <1>2, <2>1, <3>1, <3>2, <3>3 DEF Restart, Numbering
  <2>3. CASE seq # NoSeq
    BY <1>2, <2>1, <2>3 DEF Restart, InitSeq, Numbering
  <2> QED BY <2>2, <2>3
<1>3. CASE Crash
  <2>1. up /\ seq # NoSeq
    BY <1>3 DEF Crash, Numbering
  <2>2. \A u \in Threads : op'[u].kind = "none"
    BY <1>3 DEF Crash, Idle
  <2> QED BY <1>3, <2>1, <2>2 DEF Crash, Numbering
<1>4. CASE Shutdown
  <2>1. up /\ seq # NoSeq
    BY <1>4 DEF Shutdown, Numbering
  <2>2. \A u \in Threads : op'[u].kind = "none"
    BY <1>4 DEF Shutdown, Idle
  <2> QED BY <1>4, <2>1, <2>2 DEF Shutdown, Numbering
<1>5. CASE Tick
  BY <1>5 DEF Tick, Numbering, LiveIds, IdsOf
<1> QED BY <1>1, <1>2, <1>3, <1>4, <1>5

LEMMA InitNumbering == Init => Numbering
<1> SUFFICES ASSUME Init PROVE Numbering
  OBVIOUS
<1>1. PICK at \in [LegacyIds -> {"live", "trash", "archived"}] :
        /\ live = [i \in Ids |-> IF i \in {j \in LegacyIds : at[j] = "live"}
                                 THEN 0 ELSE Absent]
        /\ trash = {[id |-> i, rev |-> 0, at |-> 0] :
                      i \in {j \in LegacyIds : at[j] = "trash"}}
        /\ archived = {[id |-> i, rev |-> 0] :
                         i \in {j \in LegacyIds : at[j] = "archived"}}
        /\ seq = NoSeq /\ ~up
        /\ op = [t \in Threads |-> Idle]
        /\ born = [i \in Ids |-> IF i \in LegacyIds THEN 1 ELSE 0]
  BY DEF Init
<1>2. ASSUME NEW i \in Ids, born[i] > 0
      PROVE  i \in LiveIds \cup IdsOf(trash) \cup IdsOf(archived)
  <2>1. i \in LegacyIds
    BY <1>1, <1>2
  <2>2. CASE at[i] = "live"
    BY <1>1, <2>1, <2>2 DEF LiveIds, Absent
  <2>3. CASE at[i] = "trash"
    <3>1. [id |-> i, rev |-> 0, at |-> 0] \in trash
      BY <1>1, <2>1, <2>3
    <3> QED BY <3>1 DEF IdsOf
  <2>4. CASE at[i] = "archived"
    <3>1. [id |-> i, rev |-> 0] \in archived
      BY <1>1, <2>1, <2>4
    <3> QED BY <3>1 DEF IdsOf
  <2> QED BY <1>1, <2>1, <2>2, <2>3, <2>4
<1>3. \A t \in Threads : op[t].kind = "none"
  BY <1>1 DEF Idle
<1> QED BY <1>1, <1>2, <1>3 DEF Numbering

(* Numbering is inductive when pins.seq is readable. *)
LEMMA NextNumbering ==
  ~SeqReadMayFail /\ TypeOK /\ Numbering /\ [Next]_vars => Numbering'
<1> SUFFICES ASSUME ~SeqReadMayFail, TypeOK, Numbering, [Next]_vars
             PROVE  Numbering'
  OBVIOUS
<1>1. CASE UNCHANGED vars
  BY <1>1 DEF vars, Numbering, LiveIds, IdsOf
<1>2. CASE Next
  BY <1>2, StartNumbering, WriteNumbering, EnvironmentNumbering DEF Next
<1> QED BY <1>1, <1>2

(* The inductive strengthening holds throughout. *)
THEOREM NumberingHolds ==
  ASSUME ~SeqReadMayFail
  PROVE  Spec => []Numbering
BY InitNumbering, NextNumbering, TypeCorrect, PTL DEF Spec

(* No number goes from at most one pin to two: only the last write of an   *)
(* add gives a number out, and Numbering says it was free.                 *)
LEMMA OnePinPerNumber ==
  TypeOK /\ Numbering /\ IdsNeverReused /\ [Next]_vars => IdsNeverReused'
<1> SUFFICES ASSUME TypeOK, Numbering, IdsNeverReused, [Next]_vars
             PROVE  IdsNeverReused'
  OBVIOUS
<1>1. CASE born' = born
  BY <1>1 DEF IdsNeverReused
<1>2. CASE born' # born
  <2>1. PICK t \in Threads : WriteLive(t)
    BY <1>2 DEF Next, vars, Start, Write, AddPin, ChangePin, RefusedRequest,
      DropPin, RestorePin, RestoreLivePin, ClearPins, PurgePin, Maintain,
      Untouched, WriteSeq, KeepCorrupt, WriteMd, WriteTrash, ArchiveLive,
      KeepOriginal, Reply, Fail, Restart, Crash, Shutdown, Tick
  <2>2. op[t].kind = "add" /\ op[t].step = "live"
        /\ born' = [born EXCEPT ![op[t].pid] = @ + 1]
    BY <1>2, <2>1 DEF WriteLive, At
  <2>3. op[t].pid \in Ids /\ born[op[t].pid] = 0
    BY <2>2 DEF Numbering
  <2> QED BY <2>2, <2>3 DEF IdsNeverReused, TypeOK
<1> QED BY <1>1, <1>2

(* store.py's promise "An id is never reused", for any number of threads,  *)
(* pins, crashes and I/O errors, as long as next_id can read pins.seq.     *)
THEOREM NumbersAreNeverReused ==
  ASSUME ~SeqReadMayFail
  PROVE  Spec => []IdsNeverReused
<1>1. Init => IdsNeverReused
  BY DEF Init, IdsNeverReused
<1> QED BY <1>1, OnePinPerNumber, NumberingHolds, TypeCorrect, PTL DEF Spec

-----------------------------------------------------------------------------
(* The steps an operation of each kind goes through. *)
OnCourse(w) ==
  \/ w.kind = "add" /\ w.step \in {"seq", "live", "md", "reply"}
  \/ w.kind = "change" /\ w.step \in {"live", "md", "reply"}
  \/ w.kind = "drop" /\ w.step \in {"trash", "live", "md", "reply"}
  \/ w.kind \in {"restore", "cleanup"} /\ w.step \in {"live", "md", "trash", "reply"}
  \/ w.kind = "clear" /\ w.step \in {"trash", "archive", "md", "reply"}
  \/ w.kind = "purge" /\ w.step \in {"trash", "reply"}
  \/ w.kind = "maintain" /\ w.step \in {"md", "live", "trash", "keepLive", "keepTrash", "reply"}

LiveWritten(w) == \/ w.kind # "maintain" /\ w.step \in {"md", "reply"}
                  \/ w.kind \in {"restore", "cleanup"} /\ w.step = "trash"
                  \/ w.kind = "maintain" /\ w.step \notin {"md", "live"}
TrashWritten(w) == \/ w.step \in {"keepLive", "keepTrash", "reply"}
                   \/ w.kind \in {"drop", "clear"} /\ w.step # "trash"

(* The files hold what the operation read, or what it writes, by its step. *)
Reached(w) == /\ OnCourse(w)
              /\ live = IF LiveWritten(w) THEN w.live ELSE w.read.live
              /\ trash = IF TrashWritten(w) THEN w.trash ELSE w.read.trash

LiveIn(table) == {i \in Ids : table[i] # Absent}
Rise(old, new, S) ==
  \A j \in Ids \ S : new[j] = old[j] \/ (old[j] # Absent /\ new[j] > old[j])
OneCopy(rows) == \A d, e \in rows : d.id = e.id => d = e

(* What an operation of each kind makes of the rows it read. *)
AddsIt(w) == /\ w.pid \in Ids /\ w.read.live[w.pid] = Absent /\ w.live[w.pid] = 0
             /\ Rise(w.read.live, w.live, {w.pid}) /\ w.trash = w.read.trash
DropsIt(w) == /\ w.pid \in Ids /\ w.read.live[w.pid] # Absent
              /\ w.live[w.pid] = Absent /\ Rise(w.read.live, w.live, {w.pid})
              /\ \E copy \in w.trash :
                   /\ copy.id = w.pid /\ copy.rev >= w.read.live[w.pid]
                   /\ \A e \in w.trash \ {copy} : e \in w.read.trash /\ e.id # w.pid
RestoresIt(w) == /\ w.pid \in Ids /\ w.read.live[w.pid] = Absent
                 /\ Rise(w.read.live, w.live, {w.pid})
                 /\ \E e \in w.read.trash : e.id = w.pid /\ w.live[w.pid] = e.rev + 1
                 /\ w.trash \subseteq w.read.trash
Clears(w) == /\ w.live = Nothing /\ w.trash \subseteq w.read.trash
             /\ IdsOf(w.trash) \cap LiveIn(w.read.live) = {}
Tidies(w) == Rise(w.read.live, w.live, {}) /\ w.trash \subseteq w.read.trash

Effect(w) == /\ w.kind = "add" => AddsIt(w)
             /\ w.kind = "change" => Tidies(w) /\ w.trash = w.read.trash
             /\ w.kind = "drop" => DropsIt(w)
             /\ w.kind = "restore" => RestoresIt(w)
             /\ w.kind = "clear" => Clears(w)
             /\ w.kind = "purge" => Tidies(w) /\ w.live = w.read.live
             /\ w.kind \in {"cleanup", "maintain"} => Tidies(w)

(* The parts of the invariant.  Known: a number seen anywhere was given    *)
(* out.  CanRollBack: what a pass would put back is still right.  Linked:  *)
(* a pass holds a link to unreadable lines until they have a backup.       *)
UnderWay == \A t \in Threads : op[t].kind # "none" =>
              Reached(op[t]) /\ Effect(op[t]) /\ OneCopy(op[t].read.trash)
Known == \A i \in Ids :
           i \in LiveIds \cup IdsOf(trash) \cup IdsOf(archived) \cup gone \/ acked[i] # -1
             => born[i] > 0
CanRollBack == \A t \in Passes :
  \A i \in LiveIn(op[t].read.live) \cup IdsOf(op[t].read.trash) :
    born[i] > 0 /\ i \notin IdsOf(archived) \cup gone
LinkedBy(w) == \A f \in {"live", "trash"} :
  /\ unparsed[f] # {} => w.read.unparsed[f] # {}
  /\ "file" \in unparsed[f] /\ w[f] # w.read[f] => "staged" \in unparsed[f]
  /\ f = "live" /\ w.step \in {"keepTrash", "reply"} /\ "staged" \in unparsed[f]
       => "backup" \in unparsed[f]
  /\ f = "trash" /\ w.step = "reply" /\ "staged" \in unparsed[f]
       => "backup" \in unparsed[f]
Linked == \A t \in Passes : LinkedBy(op[t])

Rows == ClearedStaysCleared /\ TrashHoldsOneCopy /\ OneCopy(archived)
StoreInv == TypeOK /\ Numbering /\ UnderWay /\ Rows /\ Known /\ CanRollBack /\ Linked

-----------------------------------------------------------------------------
(* One thread at most is inside an operation. *)
LEMMA Holder ==
  ASSUME TypeOK, Numbering, NEW t \in Threads, op[t].kind # "none"
  PROVE  /\ lock = t /\ up /\ op[t] \in Work
         /\ \A u \in Threads \ {t} : op[u].kind = "none"
         /\ op[t].kind = "maintain" => Passes = {t}
         /\ op[t].kind # "maintain" => Passes = {}
<1>1. lock = t /\ up /\ \A u \in Threads \ {t} : op[u].kind = "none"
  BY DEF Numbering
<1>2. op[t] \in Work
  BY WorkType
<1>3. QED BY <1>1, <1>2 DEF Passes

(* Advancing an operation changes its step and nothing else of it. *)
LEMMA DoneKeeps ==
  ASSUME TypeOK, NEW t \in Threads, op[t].kind # "none", Done(t)
  PROVE  /\ op'[t].kind = op[t].kind /\ op'[t].pid = op[t].pid
         /\ op'[t].live = op[t].live /\ op'[t].trash = op[t].trash
         /\ op'[t].read = op[t].read
         /\ op'[t].step = After(op[t].kind, op[t].step)
         /\ \A u \in Threads \ {t} : op'[u] = op[u]
         /\ Passes' = Passes
<1>1. op[t] \in Work
  BY WorkType
<1>2. /\ op'[t].kind = op[t].kind /\ op'[t].pid = op[t].pid
      /\ op'[t].live = op[t].live /\ op'[t].trash = op[t].trash
      /\ op'[t].read = op[t].read
      /\ op'[t].step = After(op[t].kind, op[t].step)
      /\ \A u \in Threads \ {t} : op'[u] = op[u]
  BY <1>1 DEF Done, TypeOK, Work
<1>3. Passes' = Passes
  BY <1>2 DEF Passes
<1>4. QED BY <1>2, <1>3

-----------------------------------------------------------------------------
(* What Begin leaves in the thread's record. *)
LEMMA Begun ==
  ASSUME TypeOK, NEW t \in Threads, NEW kind, NEW step, NEW pid, NEW newLive,
         NEW newTrash, Begin(t, kind, step, pid, newLive, newTrash)
  PROVE  /\ op'[t].kind = kind /\ op'[t].step = step /\ op'[t].pid = pid
         /\ op'[t].live = newLive /\ op'[t].trash = newTrash
         /\ op'[t].read.live = live /\ op'[t].read.trash = trash
         /\ op'[t].read.md = md /\ op'[t].read.unparsed = unparsed
         /\ \A u \in Threads \ {t} : op'[u] = op[u]
BY DEF Begin, TypeOK

(* A re-sync raises revisions of live pins and touches no other. *)
LEMMA SyncedRises ==
  ASSUME TypeOK, NEW S \in SUBSET Movable
  PROVE  Rise(live, Synced(S), {})
<1>1. ASSUME NEW j \in Ids
      PROVE  \/ Synced(S)[j] = live[j]
             \/ live[j] # Absent /\ Synced(S)[j] > live[j]
  <2>1. Synced(S)[j] = IF j \in S THEN live[j] + 1 ELSE live[j]
    BY DEF Synced
  <2>2. live[j] \in -1..MaxRev /\ MaxRev \in Nat
    BY BoundsAssumption DEF TypeOK, Table
  <2>3. j \in S => live[j] # Absent
    BY DEF Movable, LiveIds
  <2>4. live[j] \in Int
    BY <2>2
  <2>5. CASE j \in S
    BY <2>1, <2>3, <2>4, <2>5
  <2>6. CASE j \notin S
    BY <2>1, <2>6
  <2>7. QED BY <2>5, <2>6
<1>2. QED BY <1>1 DEF Rise

(* Every operation begins with the files as it read them and an effect of  *)
(* its kind.                                                               *)
LEMMA StartsUnderWay ==
  ASSUME StoreInv, NEW t \in Threads, Start(t)
  PROVE  UnderWay'
<1> USE DEF StoreInv
<1>1. /\ lock = NoThread /\ UNCHANGED <<live, trash>>
  BY DEF Start, AddPin, ChangePin, RefusedRequest, DropPin, RestorePin,
         RestoreLivePin, ClearPins, PurgePin, Maintain, Request, Untouched, files
<1>2. \A u \in Threads : op[u].kind = "none"
  BY <1>1, ThreadsAssumption DEF Numbering
<1>3. ASSUME NEW kind \in Kinds, NEW step \in Steps, NEW pid, NEW newLive, NEW newTrash,
             Begin(t, kind, step, pid, newLive, newTrash),
             OnCourse(op'[t]), Effect(op'[t]),
             ~LiveWritten(op'[t]) \/ newLive = live, ~TrashWritten(op'[t])
      PROVE  UnderWay'
  <2>1. /\ op'[t].kind = kind /\ op'[t].step = step
        /\ op'[t].read.live = live /\ op'[t].read.trash = trash /\ op'[t].live = newLive
        /\ \A u \in Threads \ {t} : op'[u] = op[u]
    BY <1>3, Begun
  <2>2. Reached(op[t])'
    BY <1>1, <1>3, <2>1 DEF Reached, OnCourse, LiveWritten, TrashWritten
  <2>3. OneCopy(op'[t].read.trash)
    BY <2>1 DEF Rows, TrashHoldsOneCopy, OneCopy
  <2>4. Effect(op[t])'
    BY <1>3 DEF Effect, AddsIt, DropsIt, RestoresIt, Clears, Tidies, Rise, LiveIn, IdsOf
  <2>5. OneCopy(op[t].read.trash)'
    BY <2>3 DEF OneCopy
  <2>6. QED BY <1>2, <2>1, <2>2, <2>4, <2>5 DEF UnderWay
<1>4. CASE AddPin(t)
  <2>1. PICK S \in SUBSET Movable, i \in Ids, last \in SeqReadings :
          /\ IsNextId(i, last)
          /\ Begin(t, "add", "seq", i, [Synced(S) EXCEPT ![i] = 0], trash)
    BY <1>4 DEF AddPin
  <2>2. live[i] = Absent
    BY <2>1 DEF IsNextId, LiveIds, Ids
  <2>3. Rise(live, [Synced(S) EXCEPT ![i] = 0], {i}) /\ [Synced(S) EXCEPT ![i] = 0][i] = 0
    BY SyncedRises, SyncedType DEF Rise, Table
  <2>4. AddsIt(op'[t])
    <3>1. /\ op'[t].pid = i /\ op'[t].live = [Synced(S) EXCEPT ![i] = 0]
          /\ op'[t].trash = trash /\ op'[t].read.live = live /\ op'[t].read.trash = trash
      BY <2>1, Begun
    <3>2. QED BY <2>2, <2>3, <3>1 DEF AddsIt
  <2>5. op'[t].kind = "add" /\ op'[t].step = "seq"
    BY <2>1, Begun
  <2>6. QED BY <1>3, <2>1, <2>4, <2>5
            DEF Kinds, Steps, Effect, OnCourse, LiveWritten, TrashWritten
<1>5. CASE ChangePin(t)
  <2>1. PICK S \in SUBSET Movable, i \in LiveIds :
          Begin(t, "change", "live", i, [Synced(S) EXCEPT ![i] = @ + 1], trash)
    BY <1>5 DEF ChangePin
  <2>2. Rise(live, [Synced(S) EXCEPT ![i] = @ + 1], {})
    <3>1. i \in Ids /\ live[i] # Absent /\ live[i] \in Int
      BY DEF LiveIds, TypeOK, Table
    <3>2. Synced(S) \in Table
      BY SyncedType
    <3>3. QED BY <3>1, <3>2, SyncedRises DEF Rise, Table
  <2>3. Tidies(op'[t]) /\ op'[t].trash = op'[t].read.trash
    BY <2>1, <2>2, Begun DEF Tidies
  <2>4. op'[t].kind = "change" /\ op'[t].step = "live"
    BY <2>1, Begun
  <2>5. QED BY <1>3, <2>1, <2>3, <2>4
            DEF Kinds, Steps, Effect, OnCourse, LiveWritten, TrashWritten
<1>6. CASE RefusedRequest(t)
  <2>1. PICK S \in SUBSET Movable :
          Begin(t, "change", "live", NoPin, Synced(S), trash)
    BY <1>6 DEF RefusedRequest
  <2>2. Tidies(op'[t]) /\ op'[t].trash = op'[t].read.trash
    BY <2>1, SyncedRises, Begun DEF Tidies
  <2>3. op'[t].kind = "change" /\ op'[t].step = "live"
    BY <2>1, Begun
  <2>4. QED BY <1>3, <2>1, <2>2, <2>3
            DEF Kinds, Steps, Effect, OnCourse, LiveWritten, TrashWritten
<1>7. CASE DropPin(t)
  <2>1. PICK S \in SUBSET Movable, i \in LiveIds :
          Begin(t, "drop", "trash", i, [Synced(S) EXCEPT ![i] = Absent],
                Without(Unexpired(trash), i)
                  \cup {[id |-> i, rev |-> Synced(S)[i], at |-> clock]})
    BY <1>7 DEF DropPin
  <2> DEFINE copy == [id |-> i, rev |-> Synced(S)[i], at |-> clock]
  <2>2. i \in Ids /\ live[i] # Absent /\ live[i] \in Int /\ Synced(S) \in Table
    BY SyncedType DEF LiveIds, TypeOK, Table
  <2>3. Rise(live, [Synced(S) EXCEPT ![i] = Absent], {i})
        /\ [Synced(S) EXCEPT ![i] = Absent][i] = Absent
    BY <2>2, SyncedRises DEF Rise, Table
  <2>4. copy.id = i /\ copy.rev >= live[i]
    BY <2>2, SyncedRises DEF Rise, Table
  <2>5. \A e \in Without(Unexpired(trash), i) : e \in trash /\ e.id # i
    BY DEF Without, Unexpired
  <2>6. DropsIt(op'[t])
    <3>1. /\ op'[t].pid = i /\ op'[t].live = [Synced(S) EXCEPT ![i] = Absent]
          /\ op'[t].trash = Without(Unexpired(trash), i) \cup {copy}
          /\ op'[t].read.live = live /\ op'[t].read.trash = trash
      BY <2>1, Begun
    <3>2. /\ copy \in op'[t].trash
          /\ \A e \in op'[t].trash \ {copy} : e \in trash /\ e.id # i
      BY <2>5, <3>1
    <3> HIDE DEF copy
    <3>3. QED BY <2>2, <2>3, <2>4, <3>1, <3>2 DEF DropsIt
  <2>7. op'[t].kind = "drop" /\ op'[t].step = "trash"
    BY <2>1, Begun
  <2>8. QED BY <1>3, <2>1, <2>6, <2>7
            DEF Kinds, Steps, Effect, OnCourse, LiveWritten, TrashWritten
<1>8. CASE RestorePin(t)
  <2>1. PICK S \in SUBSET Movable, e \in Unexpired(trash) :
          /\ e.id \notin LiveIds
          /\ Begin(t, "restore", "live", e.id,
                   [Synced(S) EXCEPT ![e.id] = e.rev + 1],
                   Unexpired(Without(trash, e.id)))
    BY <1>8 DEF RestorePin
  <2>2. e \in trash /\ e.id \in Ids /\ live[e.id] = Absent
    BY <2>1 DEF Unexpired, TypeOK, Row, LiveIds
  <2>3. Rise(live, [Synced(S) EXCEPT ![e.id] = e.rev + 1], {e.id})
        /\ [Synced(S) EXCEPT ![e.id] = e.rev + 1][e.id] = e.rev + 1
    BY <2>2, SyncedRises, SyncedType DEF Rise, Table
  <2>4. Unexpired(Without(trash, e.id)) \subseteq trash
    BY DEF Unexpired, Without
  <2>5. RestoresIt(op'[t])
    <3>1. /\ op'[t].pid = e.id /\ op'[t].live = [Synced(S) EXCEPT ![e.id] = e.rev + 1]
          /\ op'[t].trash = Unexpired(Without(trash, e.id))
          /\ op'[t].read.live = live /\ op'[t].read.trash = trash
      BY <2>1, Begun
    <3>2. QED BY <2>2, <2>3, <2>4, <3>1 DEF RestoresIt
  <2>6. op'[t].kind = "restore" /\ op'[t].step = "live"
    BY <2>1, Begun
  <2>7. QED BY <1>3, <2>1, <2>5, <2>6
            DEF Kinds, Steps, Effect, OnCourse, LiveWritten, TrashWritten
<1>9. CASE RestoreLivePin(t)
  <2>1. PICK S \in SUBSET Movable, e \in Unexpired(trash) :
          Begin(t, "cleanup", IF S = {} THEN "trash" ELSE "live", e.id,
                Synced(S), Without(trash, e.id))
    BY <1>9 DEF RestoreLivePin
  <2>2. Tidies(op'[t])
    BY <2>1, SyncedRises, Begun DEF Tidies, Without
  <2>3. S = {} => Synced(S) = live
    BY DEF Synced, TypeOK, Table
  <2>4. op'[t].kind = "cleanup" /\ op'[t].step = IF S = {} THEN "trash" ELSE "live"
    BY <2>1, Begun
  <2>5. QED BY <1>3, <2>1, <2>2, <2>3, <2>4
            DEF Kinds, Steps, Effect, OnCourse, LiveWritten, TrashWritten
<1>10. CASE ClearPins(t)
  <2>1. Begin(t, "clear", "trash", NoPin, Nothing, WithoutLiveShadows(trash))
    BY <1>10 DEF ClearPins
  <2>2. Clears(op'[t])
    BY <2>1, Begun DEF Clears, WithoutLiveShadows, LiveIn, LiveIds, IdsOf
  <2>3. op'[t].kind = "clear" /\ op'[t].step = "trash"
    BY <2>1, Begun
  <2>4. QED BY <1>3, <2>1, <2>2, <2>3
            DEF Kinds, Steps, Effect, OnCourse, LiveWritten, TrashWritten
<1>11. CASE PurgePin(t)
  <2>1. PICK e \in Unexpired(trash) :
          Begin(t, "purge", "trash", e.id, live, Unexpired(Without(trash, e.id)))
    BY <1>11 DEF PurgePin
  <2>2. Tidies(op'[t]) /\ op'[t].live = op'[t].read.live
    <3>1. /\ op'[t].live = live /\ op'[t].trash = Unexpired(Without(trash, e.id))
          /\ op'[t].read.live = live /\ op'[t].read.trash = trash
      BY <2>1, Begun
    <3>2. Unexpired(Without(trash, e.id)) \subseteq trash
      BY DEF Unexpired, Without
    <3>3. QED BY <3>1, <3>2 DEF Tidies, Rise
  <2>3. op'[t].kind = "purge" /\ op'[t].step = "trash"
    BY <2>1, Begun
  <2>4. QED BY <1>3, <2>1, <2>2, <2>3
            DEF Kinds, Steps, Effect, OnCourse, LiveWritten, TrashWritten
<1>12. CASE Maintain(t)
  <2>1. PICK S \in SUBSET Movable :
          Begin(t, "maintain", "md", NoPin, Synced(S),
                Unexpired(WithoutLiveShadows(trash)))
    BY <1>12 DEF Maintain
  <2>2. Tidies(op'[t])
    BY <2>1, SyncedRises, Begun DEF Tidies, Unexpired, WithoutLiveShadows
  <2>3. op'[t].kind = "maintain" /\ op'[t].step = "md"
    BY <2>1, Begun
  <2>4. QED BY <1>3, <2>1, <2>2, <2>3
            DEF Kinds, Steps, Effect, OnCourse, LiveWritten, TrashWritten
<1> QED BY <1>4, <1>5, <1>6, <1>7, <1>8, <1>9, <1>10, <1>11, <1>12 DEF Start

(* A step of an operation leaves the files as its plan says. *)
LEMMA WritesUnderWay ==
  ASSUME StoreInv, NEW t \in Threads, Write(t)
  PROVE  UnderWay'
<1> USE DEF StoreInv
<1>1. op[t].kind # "none"
  BY DEF Write, WriteSeq, KeepCorrupt, WriteLive, WriteMd, WriteTrash,
         ArchiveLive, KeepOriginal, Reply, At
<1>2. /\ \A u \in Threads \ {t} : op[u].kind = "none"
      /\ op[t].kind \in Kinds
  BY <1>1, Holder DEF Work
<1>3. Reached(op[t]) /\ Effect(op[t]) /\ OneCopy(op[t].read.trash)
  BY <1>1 DEF UnderWay
<1>4. ASSUME Done(t), Reached(op[t])'
      PROVE  UnderWay'
  <2>1. /\ op'[t].kind = op[t].kind /\ op'[t].pid = op[t].pid
        /\ op'[t].live = op[t].live /\ op'[t].trash = op[t].trash
        /\ op'[t].read = op[t].read
        /\ \A u \in Threads \ {t} : op'[u].kind = "none"
    BY <1>1, <1>2, <1>4, DoneKeeps
  <2>2. Effect(op[t])'
    BY <1>3, <2>1 DEF Effect, AddsIt, DropsIt, RestoresIt, Clears, Tidies, Rise,
                      LiveIn, IdsOf, Nothing
  <2>3. OneCopy(op[t].read.trash)'
    BY <1>3, <2>1 DEF OneCopy
  <2>4. QED BY <1>4, <2>1, <2>2, <2>3 DEF UnderWay
<1>5. ASSUME Done(t)
      PROVE  /\ op'[t].kind = op[t].kind
             /\ op'[t].live = op[t].live /\ op'[t].trash = op[t].trash
             /\ op'[t].read = op[t].read
             /\ op'[t].step = After(op[t].kind, op[t].step)
  BY <1>1, <1>5, DoneKeeps
<1>6. CASE WriteSeq(t)
  <2>1. Done(t) /\ op[t].step = "seq" /\ live' = live /\ trash' = trash
    BY <1>6 DEF WriteSeq, At
  <2>2. op[t].kind = "add" /\ op'[t].step = "live"
    BY <1>3, <1>5, <2>1 DEF Reached, OnCourse, After
  <2>3. QED BY <1>3, <1>4, <1>5, <2>1, <2>2
            DEF Reached, OnCourse, LiveWritten, TrashWritten
<1>7. CASE KeepCorrupt(t)
  <2>1. op' = op /\ live' = live /\ trash' = trash
    BY <1>7 DEF KeepCorrupt
  <2>2. QED BY <2>1 DEF UnderWay, Reached, OnCourse, LiveWritten, TrashWritten,
       Effect, AddsIt, DropsIt, RestoresIt, Clears, Tidies, Rise, LiveIn, IdsOf,
       Nothing, OneCopy
<1>8. CASE WriteLive(t)
  <2>1. Done(t) /\ op[t].step = "live" /\ live' = op[t].live /\ trash' = trash
    BY <1>8 DEF WriteLive, At
  <2>2. op'[t].step = IF op[t].kind = "maintain" THEN "trash" ELSE "md"
    BY <1>5, <2>1 DEF After
  <2>3. QED BY <1>3, <1>4, <1>5, <2>1, <2>2
            DEF Reached, OnCourse, LiveWritten, TrashWritten, Effect, AddsIt, Tidies
<1>9. CASE WriteMd(t)
  <2>1. Done(t) /\ op[t].step = "md" /\ live' = live /\ trash' = trash
    BY <1>9 DEF WriteMd, At
  <2>2. op'[t].step = IF op[t].kind = "maintain" THEN "live"
                      ELSE IF op[t].kind \in {"restore", "cleanup"} THEN "trash"
                      ELSE "reply"
    BY <1>5, <2>1 DEF After
  <2>3. QED BY <1>3, <1>4, <1>5, <2>1, <2>2
            DEF Reached, OnCourse, LiveWritten, TrashWritten, Effect, AddsIt, Tidies
<1>10. CASE WriteTrash(t)
  <2>1. Done(t) /\ op[t].step = "trash" /\ live' = live /\ trash' = op[t].trash
    BY <1>10 DEF WriteTrash, At
  <2>2. op'[t].step = IF op[t].kind = "drop" THEN "live"
                      ELSE IF op[t].kind = "clear" THEN "archive"
                      ELSE IF op[t].kind = "maintain" THEN "keepLive" ELSE "reply"
    BY <1>5, <2>1 DEF After
  <2>3. QED BY <1>3, <1>4, <1>5, <2>1, <2>2
            DEF Reached, OnCourse, LiveWritten, TrashWritten, Effect, Tidies
<1>11. CASE ArchiveLive(t)
  <2>1. Done(t) /\ op[t].step = "archive" /\ live' = Nothing /\ trash' = trash
    BY <1>11 DEF ArchiveLive, At
  <2>2. op[t].kind = "clear" /\ op'[t].step = "md"
    BY <1>3, <1>5, <2>1 DEF Reached, OnCourse, After
  <2>3. QED BY <1>3, <1>4, <1>5, <2>1, <2>2
            DEF Reached, OnCourse, LiveWritten, TrashWritten, Effect, Clears
<1>12. CASE KeepOriginal(t)
  <2>1. /\ Done(t) /\ op[t].step \in {"keepLive", "keepTrash"}
        /\ live' = live /\ trash' = trash
    BY <1>12 DEF KeepOriginal, At
  <2>2. /\ op[t].kind = "maintain"
        /\ op'[t].step = IF op[t].step = "keepLive" THEN "keepTrash" ELSE "reply"
    BY <1>3, <1>5, <2>1 DEF Reached, OnCourse, After
  <2>3. QED BY <1>3, <1>4, <1>5, <2>1, <2>2
            DEF Reached, OnCourse, LiveWritten, TrashWritten
<1>13. CASE Reply(t)
  BY <1>2, <1>13 DEF Reply, UnderWay, Idle, TypeOK
<1> QED BY <1>6, <1>7, <1>8, <1>9, <1>10, <1>11, <1>12, <1>13 DEF Write

(* A fault or a restart leaves nobody inside an operation. *)
LEMMA EnvironmentUnderWay ==
  ASSUME StoreInv,
         \/ \E t \in Threads : Fail(t)
         \/ Restart \/ Crash \/ Shutdown \/ Tick
  PROVE  UnderWay'
<1> USE DEF StoreInv
<1>1. ASSUME NEW t \in Threads, Fail(t)
      PROVE  UnderWay'
  <2>1. \A u \in Threads : op'[u].kind = "none"
    BY <1>1, Holder DEF Fail, Idle, TypeOK
  <2>2. QED BY <2>1 DEF UnderWay
<1>2. CASE Crash
  BY <1>2 DEF Crash, Idle, UnderWay
<1>3. CASE Restart \/ Shutdown \/ Tick
  <2>1. op' = op /\ live' = live /\ trash' = trash
    BY <1>3 DEF Restart, Shutdown, Tick
  <2>2. QED BY <2>1 DEF UnderWay, Reached, OnCourse, LiveWritten, TrashWritten,
       Effect, AddsIt, DropsIt, RestoresIt, Clears, Tidies, Rise, LiveIn, IdsOf,
       Nothing, OneCopy
<1> QED BY <1>1, <1>2, <1>3

-----------------------------------------------------------------------------
(* The rows of the three files and the histories, over one step. *)
RowsInv == Rows /\ Known /\ CanRollBack

(* Nothing but a starting pass changes what these speak of. *)
LEMMA StartKeepsRows ==
  ASSUME StoreInv, NEW t \in Threads, Start(t)
  PROVE  RowsInv'
<1> USE DEF StoreInv
<1>1. /\ lock = NoThread
      /\ UNCHANGED <<live, trash, archived, born, acked, gone>>
  BY DEF Start, AddPin, ChangePin, RefusedRequest, DropPin, RestorePin,
         RestoreLivePin, ClearPins, PurgePin, Maintain, Request, Untouched, files
<1>2. \A u \in Threads : op[u].kind = "none"
  BY <1>1, ThreadsAssumption DEF Numbering
<1>3. PICK kind, step, pid, newLive, newTrash :
        Begin(t, kind, step, pid, newLive, newTrash)
  BY DEF Start, AddPin, ChangePin, RefusedRequest, DropPin, RestorePin,
         RestoreLivePin, ClearPins, PurgePin, Maintain
<1>4. /\ op'[t].read.live = live /\ op'[t].read.trash = trash
      /\ \A u \in Threads \ {t} : op'[u].kind = "none"
  BY <1>2, <1>3, Begun
<1>5. Rows' /\ Known'
  BY <1>1 DEF Rows, Known, ClearedStaysCleared, TrashHoldsOneCopy, OneCopy, LiveIds, IdsOf
<1>6. \A i \in LiveIds \cup IdsOf(trash) : born[i] > 0 /\ i \notin IdsOf(archived) \cup gone
  BY DEF Rows, Known, ClearedStaysCleared, IdsOf, TypeOK, Row, LiveIds
<1>7. CanRollBack'
  BY <1>1, <1>4, <1>6 DEF CanRollBack, Passes, LiveIn, LiveIds, IdsOf
<1>8. QED BY <1>5, <1>7 DEF RowsInv

LEMMA WriteLiveKeepsRows ==
  ASSUME StoreInv, NEW t \in Threads, WriteLive(t)
  PROVE  RowsInv'
<1> USE DEF StoreInv
<1>1. /\ op[t].kind # "none" /\ op[t].step = "live" /\ Done(t)
      /\ live' = op[t].live /\ UNCHANGED <<trash, archived, acked, gone>>
      /\ born' = IF op[t].kind = "add" THEN [born EXCEPT ![op[t].pid] = @ + 1] ELSE born
  BY DEF WriteLive, At, Same
<1>2. Reached(op[t]) /\ Effect(op[t])
  BY <1>1 DEF UnderWay
<1>3. /\ op[t].kind \in {"add", "change", "drop", "restore", "cleanup", "maintain"}
      /\ live = op[t].read.live
      /\ op[t].kind = "restore" => trash = op[t].read.trash
  BY <1>1, <1>2 DEF Reached, OnCourse, LiveWritten, TrashWritten
<1>4. \A i \in Ids : born[i] \in Nat /\ born'[i] \in Nat /\ born'[i] >= born[i]
  BY <1>1 DEF TypeOK
<1>5. ASSUME NEW i \in Ids, live'[i] # Absent
      PROVE  \/ live[i] # Absent
             \/ op[t].kind = "add" /\ i = op[t].pid
             \/ op[t].kind = "restore" /\ i = op[t].pid /\ i \in IdsOf(trash)
  <2>1. CASE op[t].kind = "restore"
    <3>1. Rise(live, live', {op[t].pid}) /\ op[t].pid \in IdsOf(trash)
      BY <1>1, <1>2, <1>3, <2>1 DEF Effect, RestoresIt, IdsOf
    <3>2. QED BY <1>5, <2>1, <3>1 DEF Rise
  <2>2. CASE op[t].kind = "add"
    <3>1. Rise(live, live', {op[t].pid})
      BY <1>1, <1>2, <1>3, <2>2 DEF Effect, AddsIt
    <3>2. QED BY <1>5, <2>2, <3>1 DEF Rise
  <2>3. CASE op[t].kind = "drop"
    <3>1. Rise(live, live', {op[t].pid}) /\ live'[op[t].pid] = Absent
      BY <1>1, <1>2, <1>3, <2>3 DEF Effect, DropsIt
    <3>2. QED BY <1>5, <3>1 DEF Rise
  <2>4. CASE op[t].kind \in {"change", "cleanup", "maintain"}
    <3>1. Rise(live, live', {})
      BY <1>1, <1>2, <1>3, <2>4 DEF Effect, Tidies
    <3>2. QED BY <1>5, <3>1 DEF Rise
  <2>5. QED BY <1>3, <2>1, <2>2, <2>3, <2>4
<1>6. op[t].kind = "add" => op[t].pid \in Ids /\ born[op[t].pid] = 0 /\ born'[op[t].pid] = 1
  BY <1>1 DEF Numbering, TypeOK
<1>7. ASSUME NEW i \in Ids, live'[i] # Absent
      PROVE  i \notin IdsOf(archived) \cup gone /\ born'[i] > 0
  <2>1. CASE live[i] # Absent \/ i \in IdsOf(trash)
    BY <1>4, <2>1 DEF Rows, ClearedStaysCleared, Known, LiveIds
  <2>2. CASE op[t].kind = "add" /\ i = op[t].pid
    BY <1>6, <2>2 DEF Known
  <2>3. QED BY <1>5, <1>7, <2>1, <2>2
<1>8. Rows'
  <2>1. \A i \in IdsOf(archived) \cup gone : i \notin LiveIds'
    BY <1>7 DEF LiveIds
  <2>2. QED BY <1>1, <2>1 DEF Rows, ClearedStaysCleared, TrashHoldsOneCopy, OneCopy, IdsOf
<1>9. Known'
  <2>1. ASSUME NEW i \in Ids,
               i \in IdsOf(trash) \cup IdsOf(archived) \cup gone \/ acked[i] # -1
        PROVE  born'[i] > 0
    BY <1>4, <2>1 DEF Known
  <2>2. QED BY <1>1, <1>7, <2>1 DEF Known, LiveIds, IdsOf
<1>10. CanRollBack'
  <2>1. Passes' = Passes /\ op'[t].read = op[t].read
    BY <1>1, DoneKeeps
  <2>2. op[t].kind = "maintain" => Passes = {t}
    BY <1>1, Holder
  <2>3. op[t].kind # "maintain" => Passes = {}
    BY <1>1, Holder
  <2>4. op[t].kind = "maintain" => born' = born
    BY <1>1
  <2>5. QED BY <1>1, <2>1, <2>2, <2>3, <2>4 DEF CanRollBack, LiveIn, IdsOf
<1> QED BY <1>8, <1>9, <1>10 DEF RowsInv

LEMMA WriteTrashKeepsRows ==
  ASSUME StoreInv, NEW t \in Threads, WriteTrash(t)
  PROVE  RowsInv'
<1> USE DEF StoreInv
<1>1. /\ op[t].kind # "none" /\ op[t].step = "trash" /\ Done(t)
      /\ trash' = op[t].trash /\ UNCHANGED <<live, archived, born, acked>>
      /\ gone' = IF op[t].kind = "maintain" THEN gone
                 ELSE gone \cup Forgotten(trash, op[t].trash)
  BY DEF WriteTrash, At, Same
<1>2. Reached(op[t]) /\ Effect(op[t]) /\ op[t] \in Work
  BY <1>1, WorkType DEF UnderWay
<1>3. /\ op[t].kind \in {"drop", "restore", "cleanup", "clear", "purge", "maintain"}
      /\ trash = op[t].read.trash
      /\ op[t].kind = "drop" => live = op[t].read.live
  BY <1>1, <1>2 DEF Reached, OnCourse, LiveWritten, TrashWritten
<1>4. \/ trash' \subseteq trash
      \/ /\ op[t].pid \in LiveIds
         /\ \E copy \in trash' : /\ copy.id = op[t].pid
                                 /\ \A e \in trash' \ {copy} : e \in trash /\ e.id # op[t].pid
  <2>1. CASE op[t].kind = "drop"
    BY <1>1, <1>2, <1>3, <2>1 DEF Effect, DropsIt, LiveIds
  <2>2. CASE op[t].kind # "drop"
    BY <1>1, <1>2, <1>3, <2>2 DEF Effect, RestoresIt, Clears, Tidies
  <2>3. QED BY <2>1, <2>2
<1>5. TrashHoldsOneCopy'
  BY <1>4 DEF Rows, TrashHoldsOneCopy
<1>6. IdsOf(trash') \subseteq IdsOf(trash) \cup LiveIds
  BY <1>4 DEF IdsOf
<1>7. gone \subseteq gone' /\ gone' \subseteq gone \cup (IdsOf(trash) \ (IdsOf(trash') \cup LiveIds))
  BY <1>1 DEF Forgotten
<1>8. Rows'
  <2>1. ClearedStaysCleared'
    BY <1>1, <1>6, <1>7 DEF Rows, ClearedStaysCleared, LiveIds, IdsOf
  <2>2. QED BY <1>1, <1>5, <2>1 DEF Rows, OneCopy
<1>9. Known'
  <2>1. ASSUME NEW i \in Ids,
               i \in LiveIds' \cup IdsOf(trash') \cup IdsOf(archived') \cup gone' \/ acked'[i] # -1
        PROVE  i \in LiveIds \cup IdsOf(trash) \cup IdsOf(archived) \cup gone \/ acked[i] # -1
    BY <1>1, <1>6, <1>7, <2>1 DEF LiveIds
  <2>2. QED BY <1>1, <2>1 DEF Known, IdsOf
<1>10. CanRollBack'
  <2>1. Passes' = Passes /\ op'[t].read = op[t].read
    BY <1>1, DoneKeeps
  <2>2. op[t].kind = "maintain" => Passes = {t}
    BY <1>1, Holder
  <2>3. op[t].kind # "maintain" => Passes = {}
    BY <1>1, Holder
  <2>4. op[t].kind = "maintain" => gone' = gone
    BY <1>1
  <2>5. QED BY <1>1, <2>1, <2>2, <2>3, <2>4 DEF CanRollBack, LiveIn, IdsOf
<1> QED BY <1>8, <1>9, <1>10 DEF RowsInv

LEMMA ArchiveKeepsRows ==
  ASSUME StoreInv, NEW t \in Threads, ArchiveLive(t)
  PROVE  RowsInv'
<1> USE DEF StoreInv
<1>1. /\ op[t].kind # "none" /\ op[t].step = "archive" /\ Done(t)
      /\ live' = Nothing /\ UNCHANGED <<trash, born, acked, gone>>
      /\ archived' = archived \cup {[id |-> i, rev |-> live[i]] : i \in LiveIds}
  BY DEF ArchiveLive, At, Same
<1>2. Reached(op[t]) /\ Effect(op[t])
  BY <1>1 DEF UnderWay
<1>3. op[t].kind = "clear" /\ live = op[t].read.live /\ trash = op[t].trash
  BY <1>1, <1>2 DEF Reached, OnCourse, LiveWritten, TrashWritten
<1>4. IdsOf(trash) \cap LiveIds = {}
  BY <1>2, <1>3 DEF Effect, Clears, LiveIn, LiveIds
<1>5. LiveIds' = {}
  BY <1>1 DEF LiveIds, Nothing
<1>6. IdsOf(archived') = IdsOf(archived) \cup LiveIds
  <2> DEFINE moved == {[id |-> i, rev |-> live[i]] : i \in LiveIds}
  <2>1. \A e \in moved : e.id \in LiveIds
    OBVIOUS
  <2>2. ASSUME NEW i \in LiveIds
        PROVE  \E e \in moved : e.id = i
    <3>1. [id |-> i, rev |-> live[i]] \in moved
      OBVIOUS
    <3>2. QED BY <3>1
  <2>3. archived' = archived \cup moved
    BY <1>1
  <2> HIDE DEF moved
  <2>4. QED BY <2>1, <2>2, <2>3 DEF IdsOf
<1>7. OneCopy(archived')
  <2>1. ASSUME NEW d \in archived', NEW e \in archived', d.id = e.id
        PROVE  d = e
    <3>1. CASE d \in archived /\ e \in archived
      BY <2>1, <3>1 DEF Rows, OneCopy
    <3>2. CASE d \notin archived /\ e \notin archived
      BY <1>1, <2>1, <3>2
    <3>3. \A f \in archived : f.id \notin LiveIds
      BY DEF Rows, ClearedStaysCleared, IdsOf
    <3>4. \A f \in archived' \ archived : f.id \in LiveIds
      BY <1>1
    <3>5. QED BY <2>1, <3>1, <3>2, <3>3, <3>4
  <2>2. QED BY <2>1 DEF OneCopy
<1>8. Rows'
  <2>1. OneCopy(archived)' /\ TrashHoldsOneCopy'
    BY <1>1, <1>7 DEF Rows, OneCopy, TrashHoldsOneCopy
  <2>2. ClearedStaysCleared'
    <3>1. \A i \in IdsOf(archived') \cup gone : i \notin IdsOf(trash)
      BY <1>4, <1>6 DEF Rows, ClearedStaysCleared
    <3>2. QED BY <1>1, <1>5, <3>1 DEF ClearedStaysCleared, IdsOf
  <2>3. QED BY <2>1, <2>2 DEF Rows
<1>9. Known'
  <2>1. \A i \in Ids : i \in IdsOf(trash) \cup IdsOf(archived') \cup gone \/ acked[i] # -1
                         => born[i] > 0
    BY <1>6 DEF Known
  <2>2. QED BY <1>1, <1>5, <2>1 DEF Known, IdsOf
<1>10. CanRollBack'
  <2>1. Passes' = Passes
    BY <1>1, DoneKeeps
  <2>2. Passes = {}
    BY <1>1, <1>3, Holder
  <2>3. QED BY <2>1, <2>2 DEF CanRollBack
<1> QED BY <1>8, <1>9, <1>10 DEF RowsInv

(* What the end of a pass removed was in the Trash it read. *)
LEMMA RemovedRows ==
  ASSUME StoreInv, NEW t \in Threads
  PROVE  /\ \A i \in Removed(t) : i \in Ids /\ born[i] > 0
         /\ Removed(t) \cap (LiveIds \cup IdsOf(trash)) = {}
<1>1. CASE t \in Passes
  <2>1. op[t] \in Work /\ Removed(t) = Forgotten(op[t].read.trash, trash)
    BY <1>1, WorkType DEF Removed, Passes, StoreInv
  <2>2. IdsOf(op[t].read.trash) \subseteq Ids
    BY <2>1 DEF Work, Row, IdsOf
  <2>3. QED BY <1>1, <2>1, <2>2 DEF Forgotten, CanRollBack, StoreInv
<1>2. CASE t \notin Passes
  BY <1>2 DEF Removed
<1>3. QED BY <1>1, <1>2

LEMMA ReplyKeepsRows ==
  ASSUME StoreInv, NEW t \in Threads, Reply(t)
  PROVE  RowsInv'
<1> USE DEF StoreInv
<1>1. /\ op[t].kind # "none" /\ op' = [op EXCEPT ![t] = Idle]
      /\ UNCHANGED <<live, trash, archived, born>>
      /\ gone' = gone \cup Removed(t)
      /\ acked' = [i \in Ids |-> Larger(acked[i], Shown(i))]
  BY DEF Reply, At
<1>2. Passes' = {}
  BY <1>1, Holder DEF Passes, Idle, TypeOK
<1>3. Rows'
  BY <1>1, RemovedRows DEF Rows, ClearedStaysCleared, TrashHoldsOneCopy, OneCopy, LiveIds, IdsOf
<1>4. Known'
  <2>1. ASSUME NEW i \in Ids, acked'[i] # -1
        PROVE  acked[i] # -1 \/ i \in LiveIds \cup IdsOf(trash)
    <3>1. acked[i] # -1 \/ Shown(i) # -1
      BY <1>1, <2>1 DEF Larger
    <3>2. QED BY <3>1 DEF Shown, LiveIds, IdsOf
  <2>2. ASSUME NEW i \in Ids,
               i \in LiveIds' \cup IdsOf(trash') \cup IdsOf(archived') \cup gone'
        PROVE  born[i] > 0
    BY <1>1, <2>2, RemovedRows DEF Known, LiveIds
  <2>3. QED BY <1>1, <2>1, <2>2 DEF Known, IdsOf
<1>5. QED BY <1>2, <1>3, <1>4 DEF RowsInv, CanRollBack

(* Every step of an operation keeps the rows. *)
LEMMA WriteKeepsRows ==
  ASSUME StoreInv, NEW t \in Threads, Write(t)
  PROVE  RowsInv'
<1>1. CASE WriteSeq(t) \/ WriteMd(t) \/ KeepOriginal(t) \/ KeepCorrupt(t)
  <2>1. UNCHANGED <<live, trash, archived, gone, born, acked>>
    BY <1>1 DEF WriteSeq, WriteMd, KeepOriginal, KeepCorrupt, Same
  <2>2. Passes' = Passes /\ \A u \in Threads : op'[u].read = op[u].read
    <3>1. CASE KeepCorrupt(t)
      BY <3>1 DEF KeepCorrupt, Passes
    <3>2. CASE WriteSeq(t) \/ WriteMd(t) \/ KeepOriginal(t)
      BY <3>2, DoneKeeps DEF WriteSeq, WriteMd, KeepOriginal, At, StoreInv
    <3>3. QED BY <1>1, <3>1, <3>2
  <2>3. Rows' /\ Known'
    BY <2>1 DEF StoreInv, Rows, ClearedStaysCleared, TrashHoldsOneCopy, OneCopy,
                Known, LiveIds, IdsOf
  <2>4. CanRollBack'
    <3>1. Passes \subseteq Threads
      BY DEF Passes
    <3>2. QED BY <2>1, <2>2, <3>1 DEF StoreInv, CanRollBack, LiveIn, IdsOf
  <2>5. QED BY <2>3, <2>4 DEF RowsInv
<1>2. QED BY <1>1, WriteLiveKeepsRows, WriteTrashKeepsRows, ArchiveKeepsRows,
             ReplyKeepsRows DEF Write

(* So do the faults: a pass that fails puts back rows that are still right.*)
LEMMA EnvironmentKeepsRows ==
  ASSUME StoreInv,
         \/ \E t \in Threads : Fail(t)
         \/ Restart \/ Crash \/ Shutdown \/ Tick
  PROVE  RowsInv'
<1> USE DEF StoreInv
<1>1. ASSUME NEW t \in Threads, Fail(t)
      PROVE  RowsInv'
  <2>1. /\ op[t].kind # "none" /\ op' = [op EXCEPT ![t] = Idle]
        /\ UNCHANGED <<archived, born, acked, gone>>
    BY <1>1 DEF Fail
  <2>2. CanRollBack'
    BY <2>1, Holder DEF Passes, Idle, TypeOK, CanRollBack
  <2>3. CASE t \in Passes
    <3>1. live' = op[t].read.live /\ trash' = op[t].read.trash
      BY <1>1, <2>3 DEF Fail
    <3>2. OneCopy(trash')
      BY <2>1, <3>1 DEF UnderWay
    <3>3. \A i \in LiveIn(live') \cup IdsOf(trash') :
            born[i] > 0 /\ i \notin IdsOf(archived) \cup gone
      BY <2>3, <3>1 DEF CanRollBack
    <3>4. LiveIds' = LiveIn(live')
      BY DEF LiveIds, LiveIn
    <3>5. Rows'
      BY <2>1, <3>2, <3>3, <3>4 DEF Rows, ClearedStaysCleared, TrashHoldsOneCopy, OneCopy, IdsOf
    <3>6. Known'
      <4>1. \A i \in Ids : i \in IdsOf(archived) \cup gone \/ acked[i] # -1 => born[i] > 0
        BY DEF Known
      <4>2. QED BY <2>1, <3>3, <3>4, <4>1 DEF Known, IdsOf
    <3>7. QED BY <2>2, <3>5, <3>6 DEF RowsInv
  <2>4. CASE t \notin Passes
    <3>1. live' = live /\ trash' = trash
      BY <1>1, <2>4 DEF Fail
    <3>2. QED BY <2>1, <2>2, <3>1 DEF RowsInv, Rows, ClearedStaysCleared,
              TrashHoldsOneCopy, OneCopy, Known, LiveIds, IdsOf
  <2>5. QED BY <2>3, <2>4
<1>2. CASE Crash
  <2>1. /\ UNCHANGED <<live, trash, archived, born, acked>>
        /\ gone' = gone \cup UNION {Removed(t) : t \in Threads}
        /\ Passes' = {}
    BY <1>2 DEF Crash, Passes, Idle
  <2>2. \A i \in gone' \ gone : i \in Ids /\ born[i] > 0 /\ i \notin LiveIds \cup IdsOf(trash)
    BY <2>1, RemovedRows
  <2>3. Rows'
    <3>1. \A i \in IdsOf(archived) \cup gone' : i \notin LiveIds \cup IdsOf(trash)
      BY <2>2 DEF Rows, ClearedStaysCleared
    <3>2. QED BY <2>1, <3>1 DEF Rows, ClearedStaysCleared, TrashHoldsOneCopy, OneCopy, LiveIds, IdsOf
  <2>4. Known'
    <3>1. \A i \in Ids : i \in LiveIds \cup IdsOf(trash) \cup IdsOf(archived) \cup gone' \/ acked[i] # -1
                           => born[i] > 0
      BY <2>2 DEF Known
    <3>2. QED BY <2>1, <3>1 DEF Known, LiveIds, IdsOf
  <2>5. QED BY <2>1, <2>3, <2>4 DEF RowsInv, CanRollBack
<1>3. CASE Restart \/ Shutdown \/ Tick
  <2>1. UNCHANGED <<live, trash, archived, born, acked, gone, op>>
    BY <1>3 DEF Restart, Shutdown, Tick
  <2>2. QED BY <2>1 DEF RowsInv, Rows, ClearedStaysCleared, Passes,
            TrashHoldsOneCopy, OneCopy, Known, CanRollBack, LiveIds, LiveIn, IdsOf
<1> QED BY <1>1, <1>2, <1>3

-----------------------------------------------------------------------------
(* The lines nobody can parse, over one step: a pass keeps its links, and  *)
(* no file's lines are gone from everywhere.                               *)
LinesStay == \A f \in {"live", "trash"} : unparsed[f] # {} => unparsed'[f] # {}

LEMMA StartKeepsLines ==
  ASSUME StoreInv, NEW t \in Threads, Start(t)
  PROVE  Linked' /\ LinesStay
<1> USE DEF StoreInv
<1>0. /\ lock = NoThread /\ \A u \in Threads : op[u].kind = "none"
  BY ThreadsAssumption DEF Start, AddPin, ChangePin, RefusedRequest, DropPin, RestorePin,
         RestoreLivePin, ClearPins, PurgePin, Maintain, Request, Numbering
<1>1. CASE Maintain(t)
  <2>1. PICK S \in SUBSET Movable :
          LET keep == Unexpired(WithoutLiveShadows(trash))
              linked == {f \in {"live", "trash"} :
                           /\ "file" \in unparsed[f]
                           /\ f = "live" => S # {}
                           /\ f = "trash" => keep # trash}
          IN  /\ Begin(t, "maintain", "md", NoPin, Synced(S), keep)
              /\ unparsed' = [f \in {"live", "trash"} |->
                   IF f \in linked THEN unparsed[f] \cup {"staged"} ELSE unparsed[f]]
    BY <1>1 DEF Maintain
  <2> DEFINE keep == Unexpired(WithoutLiveShadows(trash))
  <2>2. /\ op'[t].kind = "maintain" /\ op'[t].step = "md"
        /\ op'[t].live = Synced(S) /\ op'[t].trash = keep
        /\ op'[t].read.live = live /\ op'[t].read.trash = trash
        /\ op'[t].read.unparsed = unparsed
        /\ \A u \in Threads \ {t} : op'[u] = op[u]
    BY <2>1, Begun
  <2>3. S = {} => Synced(S) = live
    BY DEF Synced, TypeOK, Table
  <2>4. ASSUME NEW f \in {"live", "trash"}
        PROVE  /\ unparsed'[f] # {} => unparsed[f] # {}
               /\ unparsed[f] # {} => unparsed'[f] # {}
    BY <2>1
  <2>5. /\ "file" \in unparsed'["live"] /\ Synced(S) # live => "staged" \in unparsed'["live"]
        /\ "file" \in unparsed'["trash"] /\ keep # trash => "staged" \in unparsed'["trash"]
    BY <2>1, <2>3
  <2> HIDE DEF keep
  <2>6. LinkedBy(op[t])'
    BY <2>2, <2>4, <2>5 DEF LinkedBy
  <2>7. Passes' = {t}
    BY <1>0, <2>2 DEF Passes
  <2>8. QED BY <2>4, <2>6, <2>7 DEF Linked, LinesStay
<1>2. CASE ~Maintain(t)
  <2>1. unparsed' = unparsed
    BY <1>2 DEF Start, AddPin, ChangePin, RefusedRequest, DropPin, RestorePin,
                RestoreLivePin, ClearPins, PurgePin, files
  <2>2. PICK kind \in Kinds \ {"maintain"} :
          \E step, pid, newLive, newTrash : Begin(t, kind, step, pid, newLive, newTrash)
    BY <1>2 DEF Start, AddPin, ChangePin, RefusedRequest, DropPin,
                RestorePin, RestoreLivePin, ClearPins, PurgePin, Kinds
  <2>3. op'[t].kind = kind /\ \A u \in Threads \ {t} : op'[u] = op[u]
    BY <2>2, Begun
  <2>4. Passes' = {}
    BY <1>0, <2>3 DEF Passes
  <2>5. QED BY <2>1, <2>4 DEF Linked, LinesStay
<1>3. QED BY <1>1, <1>2

LEMMA WriteKeepsLines ==
  ASSUME StoreInv, NEW t \in Threads, Write(t)
  PROVE  Linked' /\ LinesStay
<1> USE DEF StoreInv
<1>1. op[t].kind # "none"
  BY DEF Write, WriteSeq, KeepCorrupt, WriteLive, WriteMd, WriteTrash,
         ArchiveLive, KeepOriginal, Reply, At
<1>2. Reached(op[t]) /\ op[t] \in Work
  BY <1>1, WorkType DEF UnderWay
<1>3. /\ op[t].kind = "maintain" => Passes = {t} /\ LinkedBy(op[t])
      /\ op[t].kind # "maintain" => Passes = {}
  BY <1>1, Holder DEF Linked
<1>4. unparsed \in [{"live", "trash"} -> SUBSET Kept]
  BY DEF TypeOK
<1>5. ASSUME Done(t)
      PROVE  /\ Passes' = Passes /\ op'[t].live = op[t].live /\ op'[t].trash = op[t].trash
             /\ op'[t].read = op[t].read /\ op'[t].kind = op[t].kind
             /\ op'[t].step = After(op[t].kind, op[t].step)
  BY <1>1, <1>5, DoneKeeps
<1>6. CASE WriteSeq(t) \/ WriteMd(t)
  <2>1. Done(t) /\ unparsed' = unparsed /\ op[t].step \in {"seq", "md"}
    BY <1>6 DEF WriteSeq, WriteMd, At
  <2>2. op[t].kind = "maintain" => op'[t].step = "live"
    BY <1>2, <1>5, <2>1 DEF Reached, OnCourse, After
  <2>3. op[t].kind = "maintain" => LinkedBy(op[t])'
    BY <1>3, <1>5, <2>1, <2>2 DEF LinkedBy
  <2>4. QED BY <1>3, <1>5, <2>1, <2>3 DEF Linked, LinesStay
<1>7. CASE KeepCorrupt(t)
  <2>1. op[t].kind # "maintain" /\ op' = op
    BY <1>7 DEF KeepCorrupt
  <2>2. LinesStay
    BY <1>4, <1>7 DEF KeepCorrupt, LinesStay
  <2>3. Passes' = {}
    BY <1>3, <2>1 DEF Passes
  <2>4. QED BY <2>2, <2>3 DEF Linked
<1>8. ASSUME NEW f \in {"live", "trash"}, Rewrite(t, f), Done(t),
             op[t].step = f
      PROVE  Linked' /\ LinesStay
  <2>1. LinesStay
    <3>1. CASE op[t].kind = "maintain"
      BY <1>3, <1>4, <1>8, <3>1 DEF Rewrite, Drops, LinkedBy, LinesStay
    <3>2. CASE op[t].kind # "maintain"
      BY <1>4, <1>8, <3>2 DEF Rewrite, LinesStay
    <3>3. QED BY <3>1, <3>2
  <2>2. op[t].kind = "maintain" => op'[t].step = IF f = "live" THEN "trash" ELSE "keepLive"
    BY <1>5, <1>8 DEF After
  <2>3. \A g \in {"live", "trash"} :
          /\ unparsed'[g] \subseteq unparsed[g]
          /\ "staged" \in unparsed[g] => "staged" \in unparsed'[g]
    BY <1>4, <1>8 DEF Rewrite
  <2>4. op[t].kind = "maintain" => LinkedBy(op[t])'
    BY <1>3, <1>5, <1>8, <2>2, <2>3 DEF LinkedBy
  <2>5. QED BY <1>3, <1>5, <1>8, <2>1, <2>4 DEF Linked
<1>9. CASE WriteLive(t)
  BY <1>8, <1>9 DEF WriteLive, At
<1>10. CASE WriteTrash(t)
  BY <1>8, <1>10 DEF WriteTrash, At
<1>11. CASE ArchiveLive(t)
  <2>1. op[t].kind = "clear" /\ Done(t)
    BY <1>2, <1>11 DEF ArchiveLive, At, Reached, OnCourse
  <2>2. LinesStay
    BY <1>4, <1>11 DEF ArchiveLive, LinesStay
  <2>3. QED BY <1>3, <1>5, <2>1, <2>2 DEF Linked
<1>12. CASE KeepOriginal(t)
  <2>1. PICK f \in {"live", "trash"} :
          /\ op[t].step = IF f = "live" THEN "keepLive" ELSE "keepTrash"
          /\ unparsed' = IF "staged" \notin unparsed[f] THEN unparsed
                         ELSE [unparsed EXCEPT ![f] = @ \cup {"backup"}]
    BY <1>12 DEF KeepOriginal, At
  <2>2. Done(t) /\ op[t].kind = "maintain"
    BY <1>2, <1>12, <2>1 DEF KeepOriginal, Reached, OnCourse
  <2>3. op'[t].step = IF f = "live" THEN "keepTrash" ELSE "reply"
    BY <1>5, <2>1, <2>2 DEF After
  <2>4. LinesStay
    BY <1>4, <2>1 DEF LinesStay
  <2>5. /\ "staged" \in unparsed[f] => "backup" \in unparsed'[f]
        /\ \A g \in {"live", "trash"} :
             /\ unparsed[g] \subseteq unparsed'[g] /\ unparsed'[g] \subseteq unparsed[g] \cup {"backup"}
             /\ unparsed[g] = {} => unparsed'[g] = {}
    BY <1>4, <2>1
  <2>6. LinkedBy(op[t])'
    BY <1>3, <1>5, <2>1, <2>2, <2>3, <2>5 DEF LinkedBy
  <2>7. QED BY <1>3, <1>5, <2>2, <2>4, <2>6 DEF Linked
<1>13. CASE Reply(t)
  <2>1. Passes' = {}
    BY <1>1, <1>13, Holder DEF Reply, Passes, Idle, TypeOK
  <2>2. LinesStay
    <3>1. CASE t \in Passes
      <4>1. \A f \in {"live", "trash"} : unparsed'[f] =
              IF "staged" \in unparsed[f] THEN unparsed[f] \ {"staged"} ELSE unparsed[f]
        BY <1>13, <3>1 DEF Reply, Unstaged
      <4>2. op[t].kind = "maintain" /\ op[t].step = "reply"
        BY <1>13, <3>1 DEF Reply, At, Passes
      <4>3. \A f \in {"live", "trash"} : "staged" \in unparsed[f] => "backup" \in unparsed[f]
        BY <1>3, <4>2 DEF LinkedBy
      <4>4. QED BY <4>1, <4>3 DEF LinesStay
    <3>2. CASE t \notin Passes
      BY <1>13, <3>2 DEF Reply, LinesStay
    <3>3. QED BY <3>1, <3>2
  <2>3. QED BY <2>1, <2>2 DEF Linked
<1> QED BY <1>6, <1>7, <1>9, <1>10, <1>11, <1>12, <1>13 DEF Write

LEMMA EnvironmentKeepsLines ==
  ASSUME StoreInv,
         \/ \E t \in Threads : Fail(t)
         \/ Restart \/ Crash \/ Shutdown \/ Tick
  PROVE  Linked' /\ LinesStay
<1> USE DEF StoreInv
<1>1. ASSUME NEW t \in Threads, Fail(t)
      PROVE  Linked' /\ LinesStay
  <2>1. op[t].kind # "none" /\ op' = [op EXCEPT ![t] = Idle]
    BY <1>1 DEF Fail
  <2>2. Passes' = {}
    BY <2>1, Holder DEF Passes, Idle, TypeOK
  <2>3. LinesStay
    <3>1. CASE t \in Passes
      BY <1>1, <3>1 DEF Fail, Linked, LinkedBy, LinesStay
    <3>2. CASE t \notin Passes
      BY <1>1, <3>2 DEF Fail, LinesStay
    <3>3. QED BY <3>1, <3>2
  <2>4. QED BY <2>2, <2>3 DEF Linked
<1>2. CASE Crash
  <2>1. Passes' = {} /\ unparsed' = Unstaged({"left"})
    BY <1>2 DEF Crash, Passes, Idle
  <2>2. QED BY <2>1 DEF Linked, LinesStay, Unstaged
<1>3. CASE Restart \/ Shutdown \/ Tick
  <2>1. op' = op /\ unparsed' = unparsed
    BY <1>3 DEF Restart, Shutdown, Tick
  <2>2. QED BY <2>1 DEF Linked, LinkedBy, LinesStay, Passes
<1> QED BY <1>1, <1>2, <1>3

-----------------------------------------------------------------------------
LEMMA InitStoreInv == Init => StoreInv
<1> SUFFICES ASSUME Init PROVE StoreInv
  OBVIOUS
<1>1. PICK at \in [LegacyIds -> {"live", "trash", "archived"}] :
        /\ live = [i \in Ids |-> IF i \in {j \in LegacyIds : at[j] = "live"}
                                 THEN 0 ELSE Absent]
        /\ trash = {[id |-> i, rev |-> 0, at |-> 0] :
                      i \in {j \in LegacyIds : at[j] = "trash"}}
        /\ archived = {[id |-> i, rev |-> 0] :
                         i \in {j \in LegacyIds : at[j] = "archived"}}
        /\ op = [t \in Threads |-> Idle]
        /\ born = [i \in Ids |-> IF i \in LegacyIds THEN 1 ELSE 0]
        /\ acked = [i \in Ids |-> IF i \in LegacyIds THEN 0 ELSE -1]
        /\ gone = {}
  BY DEF Init
<1>2. \A t \in Threads : op[t].kind = "none"
  BY <1>1 DEF Idle
<1>3. UnderWay /\ CanRollBack /\ Linked
  BY <1>2 DEF UnderWay, CanRollBack, Linked, Passes
<1>4. /\ \A i \in LiveIds : i \in LegacyIds /\ at[i] = "live"
      /\ \A e \in trash : e.id \in LegacyIds /\ at[e.id] = "trash"
                          /\ e = [id |-> e.id, rev |-> 0, at |-> 0]
      /\ \A e \in archived : e.id \in LegacyIds /\ at[e.id] = "archived"
                             /\ e = [id |-> e.id, rev |-> 0]
  <2>1. \A i \in LiveIds : i \in LegacyIds /\ at[i] = "live"
    BY <1>1 DEF LiveIds
  <2>2. ASSUME NEW e \in trash
        PROVE  e.id \in LegacyIds /\ at[e.id] = "trash" /\ e = [id |-> e.id, rev |-> 0, at |-> 0]
    <3>1. PICK i \in {j \in LegacyIds : at[j] = "trash"} : e = [id |-> i, rev |-> 0, at |-> 0]
      BY <1>1, <2>2
    <3>2. QED BY <3>1
  <2>3. ASSUME NEW e \in archived
        PROVE  e.id \in LegacyIds /\ at[e.id] = "archived" /\ e = [id |-> e.id, rev |-> 0]
    <3>1. PICK i \in {j \in LegacyIds : at[j] = "archived"} : e = [id |-> i, rev |-> 0]
      BY <1>1, <2>3
    <3>2. QED BY <3>1
  <2>4. QED BY <2>1, <2>2, <2>3
<1>5. Rows
  <2>1. TrashHoldsOneCopy /\ OneCopy(archived)
    BY <1>4 DEF TrashHoldsOneCopy, OneCopy
  <2>2. ASSUME NEW i \in IdsOf(archived)
        PROVE  i \notin LiveIds \cup IdsOf(trash)
    BY <1>4 DEF IdsOf
  <2>3. QED BY <1>1, <2>1, <2>2 DEF Rows, ClearedStaysCleared
<1>6. Known
  <2>1. \A i \in LiveIds \cup IdsOf(trash) \cup IdsOf(archived) : i \in LegacyIds
    BY <1>4 DEF IdsOf
  <2>2. QED BY <1>1, <2>1 DEF Known
<1>7. QED BY <1>3, <1>5, <1>6, InitType, InitNumbering DEF StoreInv

LEMMA NextStoreInv ==
  ~SeqReadMayFail /\ StoreInv /\ [Next]_vars => StoreInv'
<1> SUFFICES ASSUME ~SeqReadMayFail, StoreInv, [Next]_vars
             PROVE  StoreInv'
  OBVIOUS
<1>1. TypeOK' /\ Numbering'
  BY NextType, NextNumbering DEF StoreInv
<1>2. CASE Next
  <2>1. UnderWay'
    BY <1>2, StartsUnderWay, WritesUnderWay, EnvironmentUnderWay DEF Next
  <2>2. RowsInv'
    BY <1>2, StartKeepsRows, WriteKeepsRows, EnvironmentKeepsRows DEF Next
  <2>3. Linked'
    BY <1>2, StartKeepsLines, WriteKeepsLines, EnvironmentKeepsLines DEF Next
  <2>4. QED BY <1>1, <2>1, <2>2, <2>3 DEF StoreInv, RowsInv
<1>3. CASE UNCHANGED vars
  <2>1. UNCHANGED <<live, trash, archived, unparsed, op, born, acked, gone>>
    BY <1>3 DEF vars
  <2>2. UnderWay'
    BY <2>1 DEF StoreInv, UnderWay, Reached, OnCourse, LiveWritten, TrashWritten,
       Effect, AddsIt, DropsIt, RestoresIt, Clears, Tidies, Rise, LiveIn, IdsOf,
       Nothing, OneCopy
  <2>3. Rows' /\ Known'
    BY <2>1 DEF StoreInv, Rows, ClearedStaysCleared, TrashHoldsOneCopy, OneCopy,
                Known, LiveIds, IdsOf
  <2>4. CanRollBack' /\ Linked'
    BY <2>1 DEF StoreInv, CanRollBack, Linked, LinkedBy, Passes, LiveIn, IdsOf
  <2>5. QED BY <1>1, <2>2, <2>3, <2>4 DEF StoreInv
<1>4. QED BY <1>2, <1>3

(* The invariant is inductive as long as pins.seq can be read. *)
THEOREM StoreInvHolds ==
  ASSUME ~SeqReadMayFail
  PROVE  Spec => []StoreInv
BY InitStoreInv, NextStoreInv, PTL DEF Spec

(* Cleared and destroyed pins stay away and the Trash holds one copy of a  *)
(* pin, whatever interrupts a drop, restore, clear or pass (trash/service, *)
(* clear_pins), for any threads, pins and faults.                          *)
THEOREM CopiesStayTrue ==
  ASSUME ~SeqReadMayFail
  PROVE  Spec => []CopiesAreTrue
<1>1. StoreInv => CopiesAreTrue
  BY DEF StoreInv, Rows, CopiesAreTrue
<1>2. QED BY <1>1, StoreInvHolds, PTL

(* A replaced pins.md is a rendering of what pins.jsonl holds then: when   *)
(* an operation comes to write it, the live file is written.               *)
LEMMA MdStep ==
  StoreInv /\ [Next]_vars => (md' # md /\ Passes = {} => md' = live')
<1> SUFFICES ASSUME StoreInv, [Next]_vars, md' # md, Passes = {}
             PROVE  md' = live'
  OBVIOUS
<1>1. CASE \E t \in Threads : WriteMd(t)
  <2>1. PICK t \in Threads : WriteMd(t)
    BY <1>1
  <2>2. /\ op[t].kind # "none" /\ op[t].step = "md"
        /\ md' = op[t].live /\ live' = live
    BY <2>1 DEF WriteMd, At
  <2>3. op[t].kind # "maintain"
    BY DEF Passes
  <2>4. Reached(op[t])
    BY <2>2 DEF StoreInv, UnderWay
  <2>5. QED BY <2>2, <2>3, <2>4 DEF Reached, LiveWritten
<1>2. CASE \E t \in Threads : Fail(t)
  BY <1>2 DEF Fail
<1>3. QED
  BY <1>1, <1>2 DEF Next, vars, Start, Write, AddPin, ChangePin, RefusedRequest,
    DropPin, RestorePin, RestoreLivePin, ClearPins, PurgePin, Maintain, files,
    Untouched, WriteSeq, KeepCorrupt, WriteLive, WriteTrash, ArchiveLive,
    KeepOriginal, Reply, Restart, Crash, Shutdown, Tick

LEMMA LinesStep ==
  StoreInv /\ [Next]_vars => LinesStay
<1> SUFFICES ASSUME StoreInv, [Next]_vars
             PROVE  LinesStay
  OBVIOUS
<1>1. CASE Next
  BY <1>1, StartKeepsLines, WriteKeepsLines, EnvironmentKeepsLines DEF Next
<1>2. CASE UNCHANGED vars
  BY <1>2 DEF vars, LinesStay
<1>3. QED BY <1>1, <1>2

(* No operation, pass, roll-back or crash loses a line nobody can parse,   *)
(* and pins.md never shows rows that are not pins.jsonl's (write_prepared, *)
(* _keep_corrupt, replace_files).                                          *)
THEOREM FilesAreKept ==
  ASSUME ~SeqReadMayFail
  PROVE  Spec => FilesKeepTheirs
<1>1. StoreInv /\ [Next]_vars => [md' # md /\ Passes = {} => md' = live']_vars
  BY MdStep
<1>2. StoreInv /\ [Next]_vars
        => [\A f \in {"live", "trash"} : unparsed[f] # {} => unparsed'[f] # {}]_vars
  BY LinesStep DEF LinesStay
<1>3. QED BY <1>1, <1>2, StoreInvHolds, PTL
          DEF Spec, FilesKeepTheirs, MdFollowsLive, UnreadableKept

-----------------------------------------------------------------------------
(* The refinement.  What the shelf shows of a pin, by the tables its       *)
(* readers go by.                                                          *)
Seen == \A i \in Ids :
  /\ LiveView[i] # Absent => Place(i) = "live" /\ Revision(i) = LiveView[i]
  /\ \A e \in TrashView : LiveView[i] = Absent /\ e.id = i
       => Place(i) = "trash" /\ Revision(i) = e.rev
  /\ \A e \in archived : LiveView[i] = Absent /\ i \notin IdsOf(TrashView) /\ e.id = i
       => Place(i) = "archived" /\ Revision(i) = e.rev
  /\ LiveView[i] = Absent /\ i \notin IdsOf(TrashView) \cup IdsOf(archived)
       => Place(i) = (IF i \in gone THEN "gone" ELSE "none") /\ Revision(i) = 0

Views == /\ LiveView \in Table /\ TrashView \subseteq Row /\ archived \subseteq Held
         /\ OneCopy(TrashView) /\ OneCopy(archived)
         /\ \A i \in LiveIn(LiveView) \cup IdsOf(TrashView) :
              i \in Ids /\ i \notin IdsOf(archived) \cup gone
         /\ Seen

(* Outside a pass the readers go by the files, inside by what it read. *)
LEMMA ViewOf ==
  /\ Passes = {} => LiveView = live /\ TrashView = trash
  /\ \A p : Passes = {p} => LiveView = op[p].read.live /\ TrashView = op[p].read.trash
BY DEF LiveView, TrashView

LEMMA StoreViews == StoreInv => Views
<1> SUFFICES ASSUME StoreInv PROVE Views
  OBVIOUS
<1> USE DEF StoreInv
<1>1. /\ LiveView \in Table /\ TrashView \subseteq Row /\ archived \subseteq Held
      /\ OneCopy(TrashView) /\ OneCopy(archived)
      /\ \A i \in LiveIn(LiveView) \cup IdsOf(TrashView) :
           i \in Ids /\ i \notin IdsOf(archived) \cup gone
  <2>1. OneCopy(archived) /\ archived \subseteq Held
    BY DEF Rows, TypeOK
  <2>2. CASE Passes = {}
    <3>1. LiveView = live /\ TrashView = trash
      BY <2>2, ViewOf
    <3>2. \A i \in LiveIn(live) \cup IdsOf(trash) :
            i \in Ids /\ i \notin IdsOf(archived) \cup gone
      BY DEF LiveIn, LiveIds, IdsOf, Rows, ClearedStaysCleared, TypeOK, Row
    <3>3. QED BY <2>1, <3>1, <3>2 DEF TypeOK, Rows, OneCopy, TrashHoldsOneCopy
  <2>3. ASSUME NEW t \in Passes
        PROVE  /\ LiveView \in Table /\ TrashView \subseteq Row /\ OneCopy(TrashView)
               /\ \A i \in LiveIn(LiveView) \cup IdsOf(TrashView) :
                    i \in Ids /\ i \notin IdsOf(archived) \cup gone
    <3>1. t \in Threads /\ op[t].kind = "maintain" /\ op[t] \in Work
      BY WorkType DEF Passes
    <3>2. LiveView = op[t].read.live /\ TrashView = op[t].read.trash
      BY <3>1, Holder, ViewOf
    <3>3. op[t].read.live \in Table /\ op[t].read.trash \subseteq Row
      BY <3>1 DEF Work
    <3>4. OneCopy(op[t].read.trash)
      BY <3>1 DEF UnderWay
    <3>5. \A i \in LiveIn(LiveView) \cup IdsOf(TrashView) :
            i \in Ids /\ i \notin IdsOf(archived) \cup gone
      BY <3>2, <3>3 DEF CanRollBack, LiveIn, IdsOf, Row
    <3>6. QED BY <3>2, <3>3, <3>4, <3>5
  <2>4. QED BY <2>1, <2>2, <2>3
<1>2. ASSUME NEW i \in Ids, LiveView[i] # Absent
      PROVE  Place(i) = "live" /\ Revision(i) = LiveView[i]
  BY <1>2 DEF Place, Revision
<1>3. ASSUME NEW i \in Ids, NEW e \in TrashView, LiveView[i] = Absent, e.id = i
      PROVE  Place(i) = "trash" /\ Revision(i) = e.rev
  <2>1. Place(i) = "trash"
    BY <1>3 DEF Place, IdsOf
  <2>2. (CHOOSE d \in TrashView : d.id = i) = e
    BY <1>1, <1>3 DEF OneCopy
  <2>3. Revision(i) = (CHOOSE d \in TrashView : d.id = i).rev
    BY <2>1 DEF Revision
  <2>4. QED BY <2>1, <2>2, <2>3
<1>4. ASSUME NEW i \in Ids, NEW e \in archived, LiveView[i] = Absent,
             i \notin IdsOf(TrashView), e.id = i
      PROVE  Place(i) = "archived" /\ Revision(i) = e.rev
  <2>1. Place(i) = "archived"
    BY <1>4 DEF Place, IdsOf
  <2>2. (CHOOSE d \in archived : d.id = i) = e
    BY <1>1, <1>4 DEF OneCopy
  <2>3. Revision(i) = (CHOOSE d \in archived : d.id = i).rev
    BY <2>1 DEF Revision
  <2>4. QED BY <2>1, <2>2, <2>3
<1>5. ASSUME NEW i \in Ids, LiveView[i] = Absent,
             i \notin IdsOf(TrashView) \cup IdsOf(archived)
      PROVE  Place(i) = (IF i \in gone THEN "gone" ELSE "none") /\ Revision(i) = 0
  <2>1. Place(i) = IF i \in gone THEN "gone" ELSE "none"
    BY <1>5 DEF Place
  <2>2. QED BY <2>1 DEF Revision
<1>6. Seen
  BY <1>2, <1>3, <1>4, <1>5 DEF Seen
<1>7. QED BY <1>1, <1>6 DEF Views

LEMMA NextViews ==
  ~SeqReadMayFail /\ StoreInv /\ [Next]_vars => Views /\ Views'
<1>1. StoreInv' => Views'
  BY StoreViews, PTL
<1>2. QED BY <1>1, StoreViews, NextStoreInv

LEMMA NextViewOf ==
  /\ Passes' = {} => LiveView' = live' /\ TrashView' = trash'
  /\ \A p : Passes' = {p} => LiveView' = op'[p].read.live /\ TrashView' = op'[p].read.trash
BY DEF LiveView, TrashView

(* A pin nothing happens to. *)
LEMMA Stays ==
  ASSUME Views, Views', NEW j \in Ids,
         LiveView'[j] = LiveView[j] \/ (LiveView[j] # Absent /\ LiveView'[j] > LiveView[j]),
         LiveView[j] = Absent => \A e : e.id = j => (e \in TrashView' <=> e \in TrashView),
         \A e : e.id = j => (e \in archived' <=> e \in archived),
         j \in gone' <=> j \in gone
  PROVE  /\ Place(j)' = Place(j)
         /\ \/ Revision(j)' = Revision(j)
            \/ Place(j) = "live" /\ Revision(j)' > Revision(j)
<1>1. Seen /\ Seen' /\ LiveView[j] \in Int /\ LiveView'[j] \in Int /\ LiveView[j] >= -1
  BY BoundsAssumption DEF Views, Table
<1>2. CASE LiveView[j] # Absent
  <2>1. LiveView'[j] # Absent
    BY <1>1, <1>2 DEF Absent
  <2>2. QED BY <1>1, <1>2, <2>1 DEF Seen
<1>3. CASE LiveView[j] = Absent
  <2>1. LiveView'[j] = Absent
    BY <1>3
  <2>2. j \in IdsOf(TrashView') <=> j \in IdsOf(TrashView)
    BY <1>3 DEF IdsOf
  <2>3. j \in IdsOf(archived') <=> j \in IdsOf(archived)
    BY DEF IdsOf
  <2>4. CASE j \in IdsOf(TrashView)
    <3>1. PICK e \in TrashView : e.id = j
      BY <2>4 DEF IdsOf
    <3>2. e \in TrashView'
      BY <1>3, <3>1
    <3>3. QED BY <1>1, <1>3, <2>1, <3>1, <3>2 DEF Seen
  <2>5. CASE j \notin IdsOf(TrashView) /\ j \in IdsOf(archived)
    <3>1. PICK e \in archived : e.id = j
      BY <2>5 DEF IdsOf
    <3>2. e \in archived'
      BY <3>1
    <3>3. j \notin IdsOf(TrashView)'
      BY <2>2, <2>5 DEF IdsOf
    <3>4. QED BY <1>1, <1>3, <2>1, <2>5, <3>1, <3>2, <3>3 DEF Seen
  <2>6. CASE j \notin IdsOf(TrashView) \cup IdsOf(archived)
    <3>1. j \notin IdsOf(TrashView)' \cup IdsOf(archived)'
      BY <2>2, <2>3, <2>6 DEF IdsOf
    <3>2. QED BY <1>1, <1>3, <2>1, <2>6, <3>1 DEF Seen
  <2>7. QED BY <2>4, <2>5, <2>6
<1>4. QED BY <1>2, <1>3

(* The shelf's pins outside S keep their places. *)
LEMMA OthersStay ==
  ASSUME NEW S,
         \A j \in Ids \ S : /\ Place(j)' = Place(j)
                            /\ \/ Revision(j)' = Revision(j)
                               \/ Place(j) = "live" /\ Revision(j)' > Revision(j)
  PROVE  Shelf!OthersKept(S)
BY DEF Shelf!OthersKept

(* Revisions rise, and the Trash loses pins that are nowhere else.  Most   *)
(* writes are this: a re-sync, an expiry, a purge, the end of a pass.      *)
LEMMA Settles ==
  ASSUME Views, Views', NEW S,
         Rise(LiveView, LiveView', {}),
         \A e \in TrashView' : LiveView[e.id] # Absent \/ e \in TrashView,
         S = (IdsOf(TrashView) \ IdsOf(TrashView')) \ LiveIn(LiveView),
         archived' = archived, gone' = gone \cup S
  PROVE  Shelf!Next
<1>1. ASSUME NEW j \in Ids \ S
      PROVE  /\ Place(j)' = Place(j)
             /\ \/ Revision(j)' = Revision(j)
                \/ Place(j) = "live" /\ Revision(j)' > Revision(j)
  <2>1. LiveView[j] = Absent => \A e : e.id = j => (e \in TrashView' <=> e \in TrashView)
    <3> SUFFICES ASSUME LiveView[j] = Absent, NEW e, e.id = j
                 PROVE  e \in TrashView' <=> e \in TrashView
      OBVIOUS
    <3>1. e \in TrashView' => e \in TrashView
      OBVIOUS
    <3>2. ASSUME e \in TrashView
          PROVE  e \in TrashView'
      <4>1. j \in IdsOf(TrashView')
        BY <3>2 DEF IdsOf, LiveIn
      <4>2. PICK d \in TrashView' : d.id = j
        BY <4>1 DEF IdsOf
      <4>3. d \in TrashView
        BY <4>2
      <4>4. d = e
        BY <3>2, <4>2, <4>3 DEF Views, OneCopy
      <4>5. QED BY <4>2, <4>4
    <3>3. QED BY <3>1, <3>2
  <2>2. LiveView'[j] = LiveView[j] \/ (LiveView[j] # Absent /\ LiveView'[j] > LiveView[j])
    BY DEF Rise
  <2>3. QED BY <2>1, <2>2, Stays
<1>2. ASSUME NEW i \in S
      PROVE  i \in Ids /\ Place(i) = "trash" /\ Place(i)' = "gone" /\ Revision(i)' = 0
  <2>1. PICK e \in TrashView : e.id = i
    BY DEF IdsOf
  <2>2. i \in Ids /\ LiveView[i] = Absent /\ i \notin IdsOf(archived)
    BY <2>1 DEF Views, LiveIn, IdsOf, Row
  <2>3. Place(i) = "trash"
    BY <2>1, <2>2 DEF Views, Seen
  <2>4. LiveView'[i] = Absent
    BY <2>2 DEF Rise
  <2>5. i \notin IdsOf(TrashView)' \cup IdsOf(archived)' /\ i \in gone'
    BY <2>2 DEF IdsOf
  <2>6. Place(i)' = "gone" /\ Revision(i)' = 0
    BY <2>2, <2>4, <2>5 DEF Views, Seen
  <2>7. QED BY <2>2, <2>3, <2>6
<1>3. Shelf!OthersKept(S)
  BY <1>1, OthersStay
<1>4. Shelf!Destroy(S)
  BY <1>2, <1>3 DEF Shelf!Destroy
<1>5. S \subseteq Ids
  BY <1>2
<1>6. QED BY <1>4, <1>5 DEF Shelf!Next

LEMMA NothingMoves ==
  ASSUME Views, Views', UNCHANGED <<LiveView, TrashView, archived, gone>>
  PROVE  Shelf!Next
<1>1. Rise(LiveView, LiveView', {})
  BY DEF Rise
<1>2. QED BY <1>1, Settles

(* Beginning an operation shows nothing new: a pass reads what is there.   *)
LEMMA StartOnShelf ==
  ASSUME StoreInv, Views, Views', NEW t \in Threads, Start(t)
  PROVE  Shelf!Next
<1> USE DEF StoreInv
<1>1. /\ lock = NoThread
      /\ UNCHANGED <<live, trash, archived, gone>>
  BY DEF Start, AddPin, ChangePin, RefusedRequest, DropPin, RestorePin,
         RestoreLivePin, ClearPins, PurgePin, Maintain, Request, Untouched, files
<1>2. \A u \in Threads : op[u].kind = "none"
  BY <1>1, ThreadsAssumption DEF Numbering
<1>3. PICK kind, step, pid, newLive, newTrash :
        Begin(t, kind, step, pid, newLive, newTrash)
  BY DEF Start, AddPin, ChangePin, RefusedRequest, DropPin, RestorePin,
         RestoreLivePin, ClearPins, PurgePin, Maintain
<1>4. /\ op'[t].read.live = live /\ op'[t].read.trash = trash
      /\ \A u \in Threads \ {t} : op'[u].kind = "none"
  BY <1>2, <1>3, Begun
<1>5. LiveView = live /\ TrashView = trash
  BY <1>2, ViewOf DEF Passes
<1>6. Passes' = {} \/ Passes' = {t}
  BY <1>4 DEF Passes
<1>7. LiveView' = live /\ TrashView' = trash
  BY <1>1, <1>4, <1>6, NextViewOf
<1>8. QED BY <1>1, <1>5, <1>7, NothingMoves

(* Inside a pass the readers' view stands still until its end. *)
LEMMA PassWrites ==
  ASSUME StoreInv, Views, Views', NEW t \in Passes, Done(t),
         archived' = archived, gone' = gone
  PROVE  Shelf!Next
<1>1. t \in Threads /\ op[t].kind = "maintain" /\ Passes = {t}
  BY Holder DEF StoreInv, Passes
<1>2. Passes' = {t} /\ op'[t].read = op[t].read
  BY <1>1, DoneKeeps DEF StoreInv
<1>3. LiveView' = LiveView /\ TrashView' = TrashView
  BY <1>1, <1>2, ViewOf, NextViewOf
<1>4. QED BY <1>3, NothingMoves

LEMMA WriteLiveOnShelf ==
  ASSUME StoreInv, Views, Views', NEW t \in Threads, WriteLive(t)
  PROVE  Shelf!Next
<1> USE DEF StoreInv
<1>1. /\ op[t].kind # "none" /\ op[t].step = "live" /\ Done(t)
      /\ live' = op[t].live /\ UNCHANGED <<trash, archived, gone>>
  BY DEF WriteLive, At, Same
<1>2. Reached(op[t]) /\ Effect(op[t])
  BY <1>1 DEF UnderWay
<1>3. CASE op[t].kind = "maintain"
  BY <1>1, <1>3, PassWrites DEF Passes
<1>4. ASSUME op[t].kind # "maintain"
      PROVE  /\ LiveView = live /\ TrashView = trash
             /\ LiveView' = live' /\ TrashView' = trash
             /\ live = op[t].read.live
             /\ op[t].kind \in {"add", "change", "drop", "restore", "cleanup"}
  <2>1. Passes = {} /\ Passes' = {}
    BY <1>1, <1>4, Holder, DoneKeeps
  <2>2. /\ live = op[t].read.live
        /\ op[t].kind \in {"add", "change", "drop", "restore", "cleanup"}
    BY <1>1, <1>2, <1>4 DEF Reached, OnCourse, LiveWritten
  <2>3. QED BY <1>1, <2>1, <2>2, ViewOf, NextViewOf
(* The pins other than the operation's own. *)
<1>5. ASSUME op[t].kind # "maintain", NEW i \in Ids, Rise(live, live', {i})
      PROVE  Shelf!OthersKept({i})
  <2>1. ASSUME NEW j \in Ids \ {i}
        PROVE  /\ Place(j)' = Place(j)
               /\ \/ Revision(j)' = Revision(j)
                  \/ Place(j) = "live" /\ Revision(j)' > Revision(j)
    <3>1. LiveView'[j] = LiveView[j] \/ (LiveView[j] # Absent /\ LiveView'[j] > LiveView[j])
      BY <1>4, <1>5 DEF Rise
    <3>2. QED BY <1>1, <1>4, <1>5, <3>1, Stays
  <2>2. QED BY <2>1, OthersStay
<1>6. CASE op[t].kind \in {"change", "cleanup"}
  <2>1. Rise(LiveView, LiveView', {})
    BY <1>1, <1>2, <1>4, <1>6 DEF Effect, Tidies
  <2>2. QED BY <1>1, <1>4, <1>6, <2>1, Settles
<1>7. CASE op[t].kind = "add"
  <2>0. PICK i \in Ids : i = op[t].pid
    BY <1>2, <1>7 DEF Effect, AddsIt
  <2>1. i \in Ids /\ live'[i] = 0 /\ Rise(live, live', {i})
    BY <1>1, <1>2, <1>4, <1>7, <2>0 DEF Effect, AddsIt
  <2>2. ASSUME NEW j \in Ids, j >= i
        PROVE  Place(j) = "none"
    <3>1. born[j] = 0
      <4>1. /\ seq = i /\ born[i] = 0 /\ i # NoSeq
            /\ \A k \in Ids : born[k] > 0 => k <= seq
        BY <1>1, <1>7, <2>0 DEF Numbering, NoSeq, Ids
      <4>2. born[j] \in Nat /\ i \in Int /\ j \in Int
        BY <2>1 DEF TypeOK, Ids
      <4>3. QED BY <2>2, <4>1, <4>2
    <3>2. j \notin LiveIds \cup IdsOf(trash) \cup IdsOf(archived) \cup gone
      BY <3>1 DEF Known
    <3>3. LiveView[j] = Absent
      BY <1>4, <1>7, <3>2 DEF LiveIds
    <3>4. QED BY <1>4, <1>7, <3>2, <3>3 DEF Views, Seen
  <2>3. Place(i)' = "live" /\ Revision(i)' = 0
    <3>1. LiveView'[i] = 0 /\ LiveView'[i] # Absent
      BY <1>4, <1>7, <2>1 DEF Absent
    <3>2. QED BY <2>1, <3>1 DEF Views, Seen
  <2>4. Shelf!OthersKept({i})
    BY <1>5, <1>7, <2>1
  <2>5. Shelf!Add(i)
    BY <2>1, <2>2, <2>3, <2>4 DEF Shelf!Add
  <2>6. QED BY <2>1, <2>5 DEF Shelf!Next
<1>8. CASE op[t].kind = "drop"
  <2>0. PICK i \in Ids : i = op[t].pid
    BY <1>2, <1>8 DEF Effect, DropsIt
  <2>1. PICK copy \in op[t].trash : copy.id = i /\ copy.rev >= live[i]
    BY <1>2, <1>4, <1>8, <2>0 DEF Effect, DropsIt
  <2>2. /\ i \in Ids /\ live[i] # Absent /\ live'[i] = Absent /\ Rise(live, live', {i})
        /\ trash = op[t].trash
    BY <1>1, <1>2, <1>4, <1>8, <2>0 DEF Effect, DropsIt, Reached, TrashWritten
  <2>3. Place(i) = "live" /\ Revision(i) = live[i]
    BY <1>4, <1>8, <2>2 DEF Views, Seen
  <2>4. Place(i)' = "trash" /\ Revision(i)' = copy.rev
    BY <1>4, <1>8, <2>1, <2>2 DEF Views, Seen
  <2>5. Shelf!OthersKept({i})
    BY <1>5, <1>8, <2>2
  <2>6. Shelf!Drop(i)
    BY <2>1, <2>2, <2>3, <2>4, <2>5 DEF Shelf!Drop
  <2>7. QED BY <2>2, <2>6 DEF Shelf!Next
<1>9. CASE op[t].kind = "restore"
  <2>0. PICK i \in Ids : i = op[t].pid
    BY <1>2, <1>9 DEF Effect, RestoresIt
  <2>1. trash = op[t].read.trash
    BY <1>1, <1>2, <1>9 DEF Reached, TrashWritten
  <2>2. PICK e \in trash : e.id = i /\ live'[i] = e.rev + 1
    BY <1>1, <1>2, <1>9, <2>0, <2>1 DEF Effect, RestoresIt
  <2>3. i \in Ids /\ live[i] = Absent /\ Rise(live, live', {i})
    BY <1>1, <1>2, <1>4, <1>9, <2>0 DEF Effect, RestoresIt
  <2>4. e.rev \in Nat
    BY BoundsAssumption DEF TypeOK, Row
  <2>5. Place(i) = "trash" /\ Revision(i) = e.rev
    BY <1>4, <1>9, <2>2, <2>3 DEF Views, Seen
  <2>6. Place(i)' = "live" /\ Revision(i)' = e.rev + 1
    <3>1. LiveView'[i] = e.rev + 1 /\ LiveView'[i] # Absent
      BY <1>4, <1>9, <2>2, <2>4 DEF Absent
    <3>2. QED BY <2>3, <3>1 DEF Views, Seen
  <2>7. Shelf!OthersKept({i})
    BY <1>5, <1>9, <2>3
  <2>8. Revision(i)' > Revision(i)
    BY <2>4, <2>5, <2>6
  <2>9. Shelf!Restore(i)
    BY <2>3, <2>5, <2>6, <2>7, <2>8 DEF Shelf!Restore
  <2>10. QED BY <2>3, <2>9 DEF Shelf!Next
<1> QED BY <1>3, <1>4, <1>6, <1>7, <1>8, <1>9

(* A Trash file is rewritten from its own rows, but for a drop's copy of a *)
(* pin that is still live.                                                 *)
LEMMA WriteTrashOnShelf ==
  ASSUME StoreInv, Views, Views', NEW t \in Threads, WriteTrash(t)
  PROVE  Shelf!Next
<1> USE DEF StoreInv
<1>1. /\ op[t].kind # "none" /\ op[t].step = "trash" /\ Done(t)
      /\ trash' = op[t].trash /\ UNCHANGED <<live, archived>>
      /\ gone' = IF op[t].kind = "maintain" THEN gone
                 ELSE gone \cup Forgotten(trash, op[t].trash)
  BY DEF WriteTrash, At, Same
<1>2. Reached(op[t]) /\ Effect(op[t])
  BY <1>1 DEF UnderWay
<1>3. CASE op[t].kind = "maintain"
  BY <1>1, <1>3, PassWrites DEF Passes
<1>4. CASE op[t].kind # "maintain"
  <2>1. Passes = {} /\ Passes' = {}
    BY <1>1, <1>4, Holder, DoneKeeps
  <2>2. /\ LiveView = live /\ TrashView = trash
        /\ LiveView' = live /\ TrashView' = trash'
    BY <1>1, <2>1, ViewOf, NextViewOf
  <2>3. /\ trash = op[t].read.trash
        /\ op[t].kind = "drop" => live = op[t].read.live
    BY <1>1, <1>2, <1>4 DEF Reached, OnCourse, LiveWritten, TrashWritten
  <2>4. \A e \in trash' : live[e.id] # Absent \/ e \in trash
    <3>1. CASE op[t].kind = "drop"
      BY <1>1, <1>2, <2>3, <3>1 DEF Effect, DropsIt
    <3>2. CASE op[t].kind # "drop"
      BY <1>1, <1>2, <2>3, <3>2 DEF Effect, RestoresIt, Clears, Tidies, Reached, OnCourse
    <3>3. QED BY <3>1, <3>2
  <2> DEFINE S == Forgotten(trash, trash')
  <2>5. S = (IdsOf(TrashView) \ IdsOf(TrashView')) \ LiveIn(LiveView)
    BY <2>2 DEF Forgotten, LiveIn, LiveIds
  <2>6. gone' = gone \cup S
    BY <1>1, <1>4
  <2>7. Rise(LiveView, LiveView', {})
    BY <2>2 DEF Rise
  <2> HIDE DEF S
  <2>8. QED BY <1>1, <2>2, <2>4, <2>5, <2>6, <2>7, Settles
<1> QED BY <1>3, <1>4

(* clear: the live rows become archive rows in one rename. *)
LEMMA ArchiveOnShelf ==
  ASSUME StoreInv, Views, Views', NEW t \in Threads, ArchiveLive(t)
  PROVE  Shelf!Next
<1> USE DEF StoreInv
<1>1. /\ op[t].kind # "none" /\ op[t].step = "archive" /\ Done(t)
      /\ live' = Nothing /\ UNCHANGED <<trash, gone>>
      /\ archived' = archived \cup {[id |-> i, rev |-> live[i]] : i \in LiveIds}
  BY DEF ArchiveLive, At, Same
<1>2. Reached(op[t]) /\ Effect(op[t])
  BY <1>1 DEF UnderWay
<1>3. op[t].kind = "clear" /\ live = op[t].read.live /\ trash = op[t].trash
  BY <1>1, <1>2 DEF Reached, OnCourse, LiveWritten, TrashWritten
<1>4. IdsOf(trash) \cap LiveIds = {}
  BY <1>2, <1>3 DEF Effect, Clears, LiveIn, LiveIds
<1>5. Passes = {} /\ Passes' = {}
  BY <1>1, <1>3, Holder, DoneKeeps
<1>6. /\ LiveView = live /\ TrashView = trash
      /\ LiveView' = Nothing /\ TrashView' = trash
  BY <1>1, <1>5, ViewOf, NextViewOf
<1> DEFINE moved == {i \in Ids : Place(i) = "live"}
<1>7. moved = LiveIds
  <2>1. \A i \in Ids : live[i] # Absent => Place(i) = "live"
    BY <1>6 DEF Views, Seen
  <2>2. ASSUME NEW i \in Ids, live[i] = Absent
        PROVE  Place(i) # "live"
    BY <1>6, <2>2 DEF Place
  <2>3. QED BY <2>1, <2>2 DEF LiveIds
<1>8. ASSUME NEW i \in LiveIds
      PROVE  Place(i)' = "archived" /\ Revision(i)' = Revision(i)
  <2>1. i \in Ids /\ Revision(i) = live[i]
    BY <1>6 DEF LiveIds, Views, Seen
  <2>2. PICK e \in archived' : e.id = i /\ e.rev = live[i]
    <3> DEFINE row == [id |-> i, rev |-> live[i]]
    <3>1. row \in archived' /\ row.id = i /\ row.rev = live[i]
      BY <1>1
    <3> HIDE DEF row
    <3>2. QED BY <3>1
  <2>3. LiveView'[i] = Absent /\ i \notin IdsOf(TrashView)'
    BY <1>4, <1>6, <2>1 DEF Nothing, IdsOf
  <2>4. QED BY <2>1, <2>2, <2>3 DEF Views, Seen
<1>9. ASSUME NEW j \in Ids \ LiveIds
      PROVE  /\ Place(j)' = Place(j)
             /\ \/ Revision(j)' = Revision(j)
                \/ Place(j) = "live" /\ Revision(j)' > Revision(j)
  <2>1. LiveView'[j] = LiveView[j]
    BY <1>6 DEF Nothing, LiveIds
  <2>2. \A e : e.id = j => (e \in archived' <=> e \in archived)
    BY <1>1
  <2>3. QED BY <1>1, <1>6, <2>1, <2>2, Stays
<1>10. Shelf!OthersKept(moved)
  BY <1>7, <1>9, OthersStay
<1>11. Shelf!Archive
  BY <1>7, <1>8, <1>10 DEF Shelf!Archive
<1>12. QED BY <1>11 DEF Shelf!Next

(* A pass that ends, well or in a crash, shows at once what it replaced.   *)
LEMMA PassEnds ==
  ASSUME StoreInv, Views, Views', NEW t \in Passes, Passes' = {},
         UNCHANGED <<live, trash, archived>>, gone' = gone \cup Removed(t)
  PROVE  Shelf!Next
<1> USE DEF StoreInv
<1>1. t \in Threads /\ op[t].kind = "maintain" /\ Passes = {t}
  BY Holder DEF Passes
<1>2. Reached(op[t]) /\ Tidies(op[t]) /\ op[t] \in Work
  BY <1>1, WorkType DEF UnderWay, Effect
<1>3. /\ LiveView = op[t].read.live /\ TrashView = op[t].read.trash
      /\ LiveView' = live /\ TrashView' = trash
  BY <1>1, ViewOf, NextViewOf
<1>4. Rise(LiveView, live, {}) /\ trash \subseteq TrashView
  BY <1>2, <1>3 DEF Reached, Tidies, Rise
<1>5. LiveIds = LiveIn(LiveView)
  <2>1. ASSUME NEW j \in Ids
        PROVE  live[j] # Absent <=> LiveView[j] # Absent
    <3>1. live[j] \in -1..MaxRev /\ LiveView[j] \in -1..MaxRev /\ MaxRev \in Nat
      BY BoundsAssumption DEF TypeOK, Table, Views
    <3>2. QED BY <1>4, <3>1 DEF Rise, Absent
  <2>2. QED BY <2>1 DEF LiveIds, LiveIn
<1>6. Removed(t) = (IdsOf(TrashView) \ IdsOf(TrashView')) \ LiveIn(LiveView)
  BY <1>3, <1>5 DEF Removed, Forgotten
<1>7. QED BY <1>3, <1>4, <1>6, Settles

LEMMA WriteOnShelf ==
  ASSUME StoreInv, Views, Views', NEW t \in Threads, Write(t)
  PROVE  Shelf!Next
<1> USE DEF StoreInv
<1>1. ASSUME UNCHANGED <<live, trash, archived, gone>>, Passes' = Passes,
             \A u \in Passes : op'[u].read = op[u].read
      PROVE  Shelf!Next
  <2>1. Passes = {} \/ \E u \in Threads : Passes = {u}
    BY Holder DEF Passes
  <2>2. LiveView' = LiveView /\ TrashView' = TrashView
    BY <1>1, <2>1, ViewOf, NextViewOf
  <2>3. QED BY <1>1, <2>2, NothingMoves
<1>2. CASE WriteSeq(t) \/ WriteMd(t) \/ KeepOriginal(t)
  <2>1. /\ op[t].kind # "none" /\ Done(t)
        /\ UNCHANGED <<live, trash, archived, gone>>
    BY <1>2 DEF WriteSeq, WriteMd, KeepOriginal, At
  <2>2. Passes' = Passes /\ \A u \in Threads : op'[u].read = op[u].read
    BY <2>1, DoneKeeps
  <2>3. QED BY <1>1, <2>1, <2>2 DEF Passes
<1>3. CASE KeepCorrupt(t)
  BY <1>1, <1>3 DEF KeepCorrupt, Passes
<1>4. CASE Reply(t)
  <2>1. /\ op[t].kind # "none" /\ op' = [op EXCEPT ![t] = Idle]
        /\ UNCHANGED <<live, trash, archived>>
        /\ gone' = gone \cup Removed(t)
    BY <1>4 DEF Reply, At
  <2>2. Passes' = {}
    BY <2>1, Holder DEF Passes, Idle, TypeOK
  <2>3. CASE t \in Passes
    BY <2>1, <2>2, <2>3, PassEnds
  <2>4. CASE t \notin Passes
    <3>1. Removed(t) = {} /\ Passes = {}
      BY <2>1, <2>4, Holder DEF Removed, Passes
    <3>2. QED BY <1>1, <2>1, <2>2, <3>1
  <2>5. QED BY <2>3, <2>4
<1> QED BY <1>2, <1>3, <1>4, WriteLiveOnShelf, WriteTrashOnShelf, ArchiveOnShelf
        DEF Write

LEMMA EnvironmentOnShelf ==
  ASSUME StoreInv, Views, Views',
         \/ \E t \in Threads : Fail(t)
         \/ Restart \/ Crash \/ Shutdown \/ Tick
  PROVE  Shelf!Next
<1> USE DEF StoreInv
<1>1. ASSUME NEW t \in Threads, Fail(t)
      PROVE  Shelf!Next
  <2>1. /\ op[t].kind # "none" /\ op' = [op EXCEPT ![t] = Idle]
        /\ UNCHANGED <<archived, gone>>
    BY <1>1 DEF Fail
  <2>2. Passes' = {}
    BY <2>1, Holder DEF Passes, Idle, TypeOK
  <2>3. LiveView' = live' /\ TrashView' = trash'
    BY <2>2, NextViewOf
  <2>4. CASE t \in Passes
    <3>1. LiveView = op[t].read.live /\ TrashView = op[t].read.trash
      BY <2>4, Holder, ViewOf DEF Passes
    <3>2. live' = op[t].read.live /\ trash' = op[t].read.trash
      BY <1>1, <2>4 DEF Fail
    <3>3. QED BY <2>1, <2>3, <3>1, <3>2, NothingMoves
  <2>5. CASE t \notin Passes
    <3>1. live' = live /\ trash' = trash /\ Passes = {}
      BY <1>1, <2>1, <2>5, Holder DEF Fail, Passes
    <3>2. QED BY <2>1, <2>3, <3>1, ViewOf, NothingMoves
  <2>6. QED BY <2>4, <2>5
<1>2. CASE Crash
  <2>1. /\ UNCHANGED <<live, trash, archived>>
        /\ gone' = gone \cup UNION {Removed(t) : t \in Threads}
        /\ Passes' = {}
    BY <1>2 DEF Crash, Passes, Idle
  <2>2. CASE Passes = {}
    <3>1. UNION {Removed(t) : t \in Threads} = {}
      BY <2>2 DEF Removed
    <3>2. QED BY <2>1, <2>2, <3>1, ViewOf, NextViewOf, NothingMoves
  <2>3. ASSUME NEW t \in Passes
        PROVE  Shelf!Next
    <3>1. t \in Threads /\ Passes = {t}
      BY Holder DEF Passes
    <3>2. UNION {Removed(u) : u \in Threads} = Removed(t)
      BY <3>1 DEF Removed
    <3>3. QED BY <2>1, <3>2, PassEnds
  <2>4. QED BY <2>2, <2>3
<1>3. CASE Restart \/ Shutdown \/ Tick
  <2>1. UNCHANGED <<live, trash, archived, gone, op>>
    BY <1>3 DEF Restart, Shutdown, Tick
  <2>2. LiveView' = LiveView /\ TrashView' = TrashView
    BY <2>1 DEF LiveView, TrashView, Passes
  <2>3. QED BY <2>1, <2>2, NothingMoves
<1> QED BY <1>1, <1>2, <1>3

LEMMA ShelfStep ==
  ~SeqReadMayFail /\ StoreInv /\ [Next]_vars => [Shelf!Next]_(Shelf!shelf)
<1> SUFFICES ASSUME ~SeqReadMayFail, StoreInv, [Next]_vars
             PROVE  [Shelf!Next]_(Shelf!shelf)
  OBVIOUS
<1>1. Views /\ Views'
  BY NextViews
<1>2. CASE Next
  BY <1>1, <1>2, StartOnShelf, WriteOnShelf, EnvironmentOnShelf DEF Next
<1>3. CASE UNCHANGED vars
  <2>1. UNCHANGED <<LiveView, TrashView, archived, gone>>
    BY <1>3 DEF vars, LiveView, TrashView, Passes
  <2>2. QED BY <1>1, <2>1, NothingMoves
<1>4. QED BY <1>2, <1>3

LEMMA ShelfInit == Init => Shelf!Init
<1> SUFFICES ASSUME Init PROVE Shelf!Init
  OBVIOUS
<1>1. PICK at \in [LegacyIds -> {"live", "trash", "archived"}] :
        /\ live = [i \in Ids |-> IF i \in {j \in LegacyIds : at[j] = "live"}
                                 THEN 0 ELSE Absent]
        /\ trash = {[id |-> i, rev |-> 0, at |-> 0] :
                      i \in {j \in LegacyIds : at[j] = "trash"}}
        /\ archived = {[id |-> i, rev |-> 0] :
                         i \in {j \in LegacyIds : at[j] = "archived"}}
        /\ op = [t \in Threads |-> Idle]
        /\ gone = {}
  BY DEF Init
<1>2. Views
  BY InitStoreInv, StoreViews
<1>3. LiveView = live /\ TrashView = trash
  BY <1>1, ViewOf DEF Passes, Idle
<1>4. /\ \A i \in Ids : live[i] # Absent => live[i] = 0
      /\ \A e \in trash : e.rev = 0
      /\ \A e \in archived : e.rev = 0
  BY <1>1
<1>5. ASSUME NEW i \in Ids
      PROVE  Place(i) \in Shelf!Places \ {"gone"} /\ Revision(i) = 0
  <2>1. CASE LiveView[i] # Absent
    BY <1>2, <1>3, <1>4, <2>1 DEF Views, Seen, Shelf!Places
  <2>2. CASE LiveView[i] = Absent /\ i \in IdsOf(TrashView)
    BY <1>2, <1>3, <1>4, <2>2 DEF Views, Seen, IdsOf, Shelf!Places
  <2>3. CASE LiveView[i] = Absent /\ i \notin IdsOf(TrashView) /\ i \in IdsOf(archived)
    <3>1. PICK e \in archived : e.id = i
      BY <2>3 DEF IdsOf
    <3>2. QED BY <1>2, <1>4, <2>3, <3>1 DEF Views, Seen, Shelf!Places
  <2>4. CASE LiveView[i] = Absent /\ i \notin IdsOf(TrashView) \cup IdsOf(archived)
    BY <1>1, <1>2, <2>4 DEF Views, Seen, Shelf!Places
  <2>5. QED BY <2>1, <2>2, <2>3, <2>4
<1>6. QED BY <1>5 DEF Shelf!Init

(* The files, written one by one under crashes and errors, are the shelf:  *)
(* a pin is in one place, moves only by an add, drop, restore, clear,      *)
(* purge or expiry that is one step of the shelf, and its revision never   *)
(* falls (pins/store.py, trash/service.py, pins/maintenance.py).           *)
THEOREM FilesAreTheShelf ==
  ASSUME ~SeqReadMayFail
  PROVE  Spec => ImplementsShelf
<1>1. StoreInv /\ [Next]_vars => [Shelf!Next]_(Shelf!shelf)
  BY ShelfStep
<1>2. QED BY <1>1, ShelfInit, StoreInvHolds, PTL DEF Spec, ImplementsShelf, Shelf!Spec

-----------------------------------------------------------------------------
(* What the shelf compares are numbers. *)
LEMMA RevisionsAreInts ==
  ASSUME Views, Views', NEW i \in Ids
  PROVE  Revision(i) \in Int /\ Revision(i)' \in Int
<1>1. \A v \in Table : v[i] \in Int
  BY BoundsAssumption DEF Table
<1>2. \A e \in Row \cup Held : e.rev \in Int
  BY BoundsAssumption DEF Row, Held
<1>3. Revision(i) \in Int
  <2>1. CASE LiveView[i] # Absent
    BY <1>1, <2>1 DEF Views, Seen
  <2>2. CASE LiveView[i] = Absent /\ i \in IdsOf(TrashView)
    BY <1>2, <2>2 DEF Views, Seen, IdsOf
  <2>3. CASE LiveView[i] = Absent /\ i \notin IdsOf(TrashView) /\ i \in IdsOf(archived)
    <3>1. PICK e \in archived : e.id = i
      BY <2>3 DEF IdsOf
    <3>2. QED BY <1>2, <2>3, <3>1 DEF Views, Seen
  <2>4. QED BY <2>1, <2>2, <2>3 DEF Views, Seen
<1>4. Revision(i)' \in Int
  <2>1. CASE LiveView'[i] # Absent
    BY <1>1, <2>1 DEF Views, Seen
  <2>2. CASE LiveView'[i] = Absent /\ i \in IdsOf(TrashView)'
    BY <1>2, <2>2 DEF Views, Seen, IdsOf
  <2>3. CASE LiveView'[i] = Absent /\ i \notin IdsOf(TrashView)' /\ i \in IdsOf(archived)'
    <3>1. PICK e \in archived' : e.id = i
      BY <2>3 DEF IdsOf
    <3>2. QED BY <1>2, <2>3, <3>1 DEF Views, Seen
  <2>4. QED BY <2>1, <2>2, <2>3 DEF Views, Seen
<1>5. QED BY <1>3, <1>4

(* What a client was shown, the shelf alone keeps it: a pin that has a    *)
(* place keeps one, and unless it is gone its revision has not fallen.     *)
LEMMA ShelfNeverFalls ==
  ASSUME Views, Views', [Shelf!Next]_(Shelf!shelf), NEW i \in Ids, Place(i) # "none"
  PROVE  /\ Place(i)' # "none"
         /\ Place(i)' = "gone" \/ Revision(i)' >= Revision(i)
<1>1. Revision(i) \in Int /\ Revision(i)' \in Int
  BY RevisionsAreInts
<1>2. ASSUME NEW S, Shelf!OthersKept(S), i \notin S
      PROVE  Place(i)' = Place(i) /\ Revision(i)' >= Revision(i)
  BY <1>1, <1>2 DEF Shelf!OthersKept
<1>3. CASE Shelf!Change
  BY <1>2, <1>3 DEF Shelf!Change
<1>4. CASE Shelf!Archive
  <2> DEFINE moved == {j \in Ids : Place(j) = "live"}
  <2>1. /\ Shelf!OthersKept(moved)
        /\ \A j \in moved : Place(j)' = "archived" /\ Revision(j)' = Revision(j)
    BY <1>4 DEF Shelf!Archive
  <2>2. CASE i \in moved
    BY <1>1, <2>1, <2>2
  <2>3. CASE i \notin moved
    BY <1>2, <2>1, <2>3
  <2>4. QED BY <2>2, <2>3
<1>5. ASSUME NEW j \in Ids, Shelf!Add(j) \/ Shelf!Drop(j) \/ Shelf!Restore(j)
      PROVE  Place(i)' # "none" /\ Revision(i)' >= Revision(i)
  <2>1. CASE i = j
    <3>1. j \in Int
      BY DEF Ids
    <3>2. ~Shelf!Add(j)
      BY <2>1, <3>1 DEF Shelf!Add
    <3>3. CASE Shelf!Drop(j)
      BY <2>1, <3>3 DEF Shelf!Drop
    <3>4. CASE Shelf!Restore(j)
      BY <1>1, <2>1, <3>4 DEF Shelf!Restore
    <3>5. QED BY <1>5, <3>2, <3>3, <3>4
  <2>2. CASE i # j
    BY <1>2, <1>5, <2>2 DEF Shelf!Add, Shelf!Drop, Shelf!Restore
  <2>3. QED BY <2>1, <2>2
<1>6. ASSUME NEW S, Shelf!Destroy(S)
      PROVE  Place(i)' # "none" /\ (Place(i)' = "gone" \/ Revision(i)' >= Revision(i))
  BY <1>2, <1>6 DEF Shelf!Destroy
<1>7. CASE UNCHANGED Shelf!shelf
  <2>1. Place(i)' = Place(i) /\ Revision(i)' = Revision(i)
    BY <1>7 DEF Shelf!shelf
  <2>2. QED BY <1>1, <2>1
<1>8. QED BY <1>3, <1>4, <1>5, <1>6, <1>7 DEF Shelf!Next

(* An answer shows revisions that are the store's own by then. *)
LEMMA AnswersAreHeld ==
  ASSUME StoreInv, Views', NEW t \in Threads, Reply(t), NEW i \in Ids, Shown(i) # -1
  PROVE  Place(i)' # "none" /\ Revision(i)' = Shown(i)
<1> USE DEF StoreInv
<1>1. /\ op[t].kind # "none" /\ op' = [op EXCEPT ![t] = Idle]
      /\ UNCHANGED <<live, trash>>
  BY DEF Reply, At
<1>2. Passes' = {}
  BY <1>1, Holder DEF Passes, Idle, TypeOK
<1>3. LiveView' = live /\ TrashView' = trash
  BY <1>1, <1>2, NextViewOf
<1>4. CASE live[i] # Absent
  BY <1>3, <1>4 DEF Shown, Views, Seen
<1>5. CASE live[i] = Absent
  <2>1. PICK e \in trash : e.id = i
    BY <1>5 DEF Shown
  <2>2. (CHOOSE d \in trash : d.id = i) = e
    BY <2>1 DEF Rows, TrashHoldsOneCopy
  <2>3. Shown(i) = e.rev
    BY <1>5, <2>1, <2>2 DEF Shown
  <2>4. QED BY <1>3, <1>5, <2>1, <2>3 DEF Views, Seen
<1>6. QED BY <1>4, <1>5

LEMMA AckedStep ==
  ~SeqReadMayFail /\ StoreInv /\ NoAckedChangeLost /\ [Next]_vars => NoAckedChangeLost'
<1> SUFFICES ASSUME ~SeqReadMayFail, StoreInv, NoAckedChangeLost, [Next]_vars,
                    NEW i \in Ids, acked'[i] # -1, i \notin gone'
             PROVE  Place(i)' # "none" /\ Revision(i)' >= acked'[i]
  BY DEF NoAckedChangeLost
<1>1. Views /\ Views' /\ StoreInv' /\ [Shelf!Next]_(Shelf!shelf)
  BY NextViews, ShelfStep, NextStoreInv
<1>2. Place(i)' # "gone"
  BY DEF Place
<1>3. i \notin gone
  BY DEF Next, vars, Start, Write, AddPin, ChangePin, RefusedRequest, DropPin,
    RestorePin, RestoreLivePin, ClearPins, PurgePin, Maintain, Untouched, WriteSeq,
    KeepCorrupt, WriteLive, WriteMd, WriteTrash, ArchiveLive, KeepOriginal, Reply,
    Fail, Restart, Crash, Shutdown, Tick
<1>4. ASSUME acked[i] # -1
      PROVE  Place(i)' # "none" /\ Revision(i)' >= acked[i]
  <2>1. Place(i) # "none" /\ Revision(i) >= acked[i]
    BY <1>3, <1>4 DEF NoAckedChangeLost
  <2>2. Place(i)' # "none" /\ Revision(i)' >= Revision(i)
    BY <1>1, <1>2, <2>1, ShelfNeverFalls
  <2>3. acked[i] \in Int /\ Revision(i) \in Int /\ Revision(i)' \in Int
    BY <1>1, RevisionsAreInts DEF StoreInv, TypeOK
  <2>4. QED BY <2>1, <2>2, <2>3
<1>5. CASE acked' = acked
  BY <1>4, <1>5
<1>6. ASSUME NEW t \in Threads, Reply(t)
      PROVE  Place(i)' # "none" /\ Revision(i)' >= acked'[i]
  <2>1. acked'[i] = Larger(acked[i], Shown(i))
    BY <1>6 DEF Reply
  <2>2. CASE Shown(i) # -1
    <3>1. Place(i)' # "none" /\ Revision(i)' = Shown(i)
      BY <1>1, <1>6, <2>2, AnswersAreHeld
    <3>2. Revision(i)' \in Int /\ acked[i] \in Int /\ acked[i] >= -1
      BY <1>1, RevisionsAreInts, BoundsAssumption DEF StoreInv, TypeOK
    <3>3. QED BY <1>4, <2>1, <3>1, <3>2 DEF Larger
  <2>3. CASE Shown(i) = -1
    <3>1. acked[i] \in Int /\ acked[i] >= -1
      BY BoundsAssumption DEF StoreInv, TypeOK
    <3>2. QED BY <1>4, <2>1, <2>3, <3>1 DEF Larger
  <2>4. QED BY <2>2, <2>3
<1>7. acked' = acked \/ \E t \in Threads : Reply(t)
  BY DEF Next, vars, Start, Write, AddPin, ChangePin, RefusedRequest, DropPin,
    RestorePin, RestoreLivePin, ClearPins, PurgePin, Maintain, Untouched, WriteSeq,
    KeepCorrupt, WriteLive, WriteMd, WriteTrash, ArchiveLive, KeepOriginal, Same,
    Fail, Restart, Crash, Shutdown, Tick
<1>8. QED BY <1>5, <1>6, <1>7

LEMMA AckedInit == Init => NoAckedChangeLost
<1> SUFFICES ASSUME Init, NEW i \in LegacyIds
             PROVE  Place(i) # "none" /\ Revision(i) >= 0
  BY DEF Init, NoAckedChangeLost
<1>1. i \in Ids /\ born[i] = 1
  BY StartAssumption DEF Init
<1>2. Views /\ Shelf!Init
  BY InitStoreInv, StoreViews, ShelfInit
<1>3. Revision(i) = 0
  BY <1>1, <1>2 DEF Shelf!Init
<1>4. i \in LiveIds \cup IdsOf(trash) \cup IdsOf(archived)
  BY <1>1, InitNumbering DEF Numbering, Init
<1>5. LiveView = live /\ TrashView = trash
  BY ViewOf DEF Init, Passes, Idle
<1>6. Place(i) # "none"
  BY <1>4, <1>5 DEF Place, LiveIds
<1>7. QED BY <1>3, <1>6

(* A revision a client was answered with is never rolled back or lost, by  *)
(* a crash, an error or a failed pass, unless the pin was purged or        *)
(* expired (store.py transact; replace_files).                             *)
THEOREM AnswersAreKept ==
  ASSUME ~SeqReadMayFail
  PROVE  Spec => []NoAckedChangeLost
BY AckedInit, AckedStep, StoreInvHolds, PTL DEF Spec

=============================================================================
