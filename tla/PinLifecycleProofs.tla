------------------------- MODULE PinLifecycleProofs -------------------------
(***************************************************************************)
(* Theorems about PinLifecycle, for any clients, any number of revisions   *)
(* and seconds, any length of a claim and any size of a thread; about      *)
(* Overlaps, the rules by which two pins on the same lines are told of     *)
(* each other, for any pins, files and lines; and about PinNotices, the    *)
(* posts on a pin and whom they tell, for any people, posts and log.       *)
(***************************************************************************)
EXTENDS MCPinLifecycle, Overlaps, FiniteSetTheorems, SequenceTheorems, TLAPS

-----------------------------------------------------------------------------
(* The strengthening.  Rounds: the entries round_marks finds are entries   *)
(* of the thread, and there is no entry and no close without a revision.   *)
Rounds == /\ pin.thread <= pin.rev /\ pin.closes <= pin.rev
          /\ pin.lastClose <= pin.thread /\ pin.lastReopen <= pin.thread
          /\ Closed(pin) => pin.closes > 0
          /\ pin.closedAt <= clock
          /\ pin.state # "done" => pin.confirmedBy = Nobody

(* The page a client has is never newer than the pin, and is the very pin  *)
(* when it shows the same revision of a pin that is not in the Trash.      *)
PagesAreOlder == /\ seen.rev <= pin.rev
                 /\ seen.rev = pin.rev /\ pin.live => seen = pin
                 /\ seen.closes <= pin.closes
                 /\ seen.closes = pin.closes => seen.closedAt = pin.closedAt
                 /\ Closed(seen) => seen.closes > 0

(* done_at grows from close to close when no two fall in one second. *)
ClosesAreOrdered ==
  seen.closes > 0 /\ seen.closes < pin.closes => seen.closedAt < pin.closedAt

Consistent == /\ TypeOK /\ Rounds
              /\ RoundMatchesState /\ ConfirmationStands /\ ClaimOnlyOnOpenPins
PageInv == Consistent /\ PagesAreOlder

-----------------------------------------------------------------------------
(* A step seen from outside: the fields it may change and what it makes of *)
(* them.  Wrote(F): a request's write, which raises the revision.          *)
Fields == {"live", "state", "rev", "question", "noteAt", "linesAt",
           "closedAt", "closedBy", "confirmedBy", "claimedBy", "claimUntil",
           "thread", "lastClose", "lastReopen", "replies", "closes",
           "confirmed"}
KeptBut(F, p, q) == \A f \in Fields \ F : q[f] = p[f]

Wrote(F) == /\ pin.live /\ pin' \in Pins /\ pin'.rev = pin.rev + 1
            /\ KeptBut(F \cup {"rev"}, pin, pin')
            /\ UNCHANGED <<clock, seen>>

Closing ==
  /\ ~Closed(pin)
  /\ ~SameSecondCloses => pin.closes = 0 \/ pin.closedAt # clock
  /\ Wrote({"state", "closedAt", "closedBy", "claimedBy", "claimUntil",
            "thread", "lastClose", "closes"})
  /\ pin'.state \in {"review", "done"} /\ pin'.closedAt = clock
  /\ pin'.claimedBy = Nobody
  /\ pin'.thread = pin.thread + 1 /\ pin'.lastClose = pin.thread + 1
  /\ pin'.closes = pin.closes + 1

Reopening ==
  /\ Wrote({"state", "thread", "lastReopen", "confirmedBy", "confirmed"})
  /\ pin'.state = "open" /\ pin'.confirmedBy = Nobody
  /\ IF Closed(pin)
     THEN pin'.thread = pin.thread + 1 /\ pin'.lastReopen = pin.thread + 1
     ELSE pin'.thread = pin.thread /\ pin'.lastReopen = pin.lastReopen

Confirming ==
  /\ pin.state = "review"
  /\ Wrote({"state", "thread", "confirmedBy", "confirmed"})
  /\ pin'.state = "done" /\ pin'.thread = pin.thread + 1
  /\ pin'.confirmedBy \in People /\ pin'.confirmed = pin.closes

Replying == /\ Wrote({"thread", "replies"})
            /\ pin'.thread = pin.thread + 1

Editing == Wrote({"noteAt", "linesAt"})

Claiming == /\ ~Closed(pin) /\ Wrote({"claimedBy", "claimUntil"})
            /\ pin'.claimedBy # Nobody /\ Held(pin) => pin'.claimedBy = pin.claimedBy

Releasing == Wrote({"claimedBy", "claimUntil"}) /\ pin'.claimedBy = Nobody

Dropping == /\ pin' \in Pins /\ pin'.live = FALSE /\ pin'.claimedBy = Nobody
            /\ KeptBut({"live", "claimedBy", "claimUntil"}, pin, pin')
            /\ UNCHANGED <<clock, seen>>

Restoring == /\ ~pin.live /\ pin' \in Pins
             /\ pin'.live = TRUE /\ pin'.rev = pin.rev + 1
             /\ KeptBut({"live", "rev"}, pin, pin')
             /\ UNCHANGED <<clock, seen>>

Ticking == /\ clock' = clock + 1 /\ clock' \in 0..MaxClock
           /\ UNCHANGED <<pin, seen>>

-----------------------------------------------------------------------------
(* Setting one field to a value of its range leaves a pin. *)
LEMMA FieldUpdates ==
  ASSUME NEW p \in Pins
  PROVE  /\ \A s \in States : [p EXCEPT !.state = s] \in Pins
         /\ \A b \in BOOLEAN : [p EXCEPT !.live = b] \in Pins
         /\ \A n \in 0..MaxRev :
              /\ [p EXCEPT !.rev = n] \in Pins
              /\ [p EXCEPT !.noteAt = n] \in Pins
              /\ [p EXCEPT !.linesAt = n] \in Pins
              /\ [p EXCEPT !.thread = n] \in Pins
              /\ [p EXCEPT !.lastClose = n] \in Pins
              /\ [p EXCEPT !.lastReopen = n] \in Pins
              /\ [p EXCEPT !.closes = n] \in Pins
              /\ [p EXCEPT !.confirmed = n] \in Pins
         /\ \A n \in 0..MaxClock : [p EXCEPT !.closedAt = n] \in Pins
         /\ \A n \in 0..(MaxClock + ClaimTicks) :
              [p EXCEPT !.claimUntil = n] \in Pins
         /\ \A n \in 0..ThreadMax : [p EXCEPT !.replies = n] \in Pins
         /\ \A c \in Clients \cup {Nobody} :
              /\ [p EXCEPT !.closedBy = c] \in Pins
              /\ [p EXCEPT !.claimedBy = c] \in Pins
              /\ [p EXCEPT !.confirmedBy = c] \in Pins
BY DEF Pins

(* A rule that leaves the revision alone, written back. *)
LEMMA WriteIs ==
  ASSUME TypeOK, NEW F, NEW p \in Pins, p.rev = pin.rev,
         KeptBut(F, pin, p), Write(p)
  PROVE  Wrote(F) /\ KeptBut({"rev"}, p, pin')
<1> USE BoundsAssumption
<1>1. pin \in Pins /\ pin.rev + 1 \in 0..MaxRev
  BY DEF TypeOK, Pins, Write
<1>2. pin' = [p EXCEPT !.rev = pin.rev + 1]
  BY DEF Write, Bumped
<1>3. pin' \in Pins
  BY <1>1, <1>2, FieldUpdates
<1>4. KeptBut({"rev"}, p, pin') /\ pin'.rev = pin.rev + 1
  BY <1>2 DEF KeptBut, Fields, Pins
<1>5. KeptBut(F \cup {"rev"}, pin, pin')
  BY <1>4 DEF KeptBut
<1> QED BY <1>3, <1>4, <1>5 DEF Wrote, Write

(* The thread has room for the entry a write adds. *)
LEMMA MessagedIs ==
  ASSUME TypeOK, Rounds, pin.rev < MaxRev
  PROVE  /\ pin.thread + 1 \in 0..MaxRev /\ pin.closes + 1 \in 0..MaxRev
         /\ Messaged(pin) \in Pins /\ KeptBut({"thread"}, pin, Messaged(pin))
         /\ Messaged(pin).thread = pin.thread + 1
<1> USE BoundsAssumption
<1>1. pin \in Pins
  BY DEF TypeOK
<1>2. pin.thread + 1 \in 0..MaxRev /\ pin.closes + 1 \in 0..MaxRev
  BY <1>1 DEF Pins, Rounds
<1>3. Messaged(pin) \in Pins
  BY <1>1, <1>2, FieldUpdates DEF Messaged
<1> QED BY <1>1, <1>2, <1>3 DEF Messaged, Pins, KeptBut, Fields

LEMMA UnclaimedIs ==
  ASSUME NEW p \in Pins
  PROVE  /\ Unclaimed(p) \in Pins /\ Unclaimed(p).claimedBy = Nobody
         /\ KeptBut({"claimedBy", "claimUntil"}, p, Unclaimed(p))
<1> USE BoundsAssumption
<1> DEFINE q == [p EXCEPT !.claimedBy = Nobody]
<1>1. q \in Pins
  BY FieldUpdates
<1>2. 0 \in 0..(MaxClock + ClaimTicks)
  OBVIOUS
<1>3. Unclaimed(p) = [q EXCEPT !.claimUntil = 0]
  BY DEF Unclaimed
<1>4. Unclaimed(p) \in Pins
  <2> HIDE DEF q
  <2> QED BY <1>1, <1>2, <1>3, FieldUpdates
<1> QED BY <1>4 DEF Unclaimed, Pins, KeptBut, Fields

LEMMA CloseIs ==
  ASSUME TypeOK, Rounds, NEW c \in Clients, Close(c)
  PROVE  Closing
<1> USE BoundsAssumption
<1>0. PICK review \in BOOLEAN : Write(ClosedAs(pin, c, review))
  BY DEF Close
<1> DEFINE F == {"state", "closedAt", "closedBy", "claimedBy", "claimUntil",
                 "thread", "lastClose", "closes"}
           q == ClosedAs(pin, c, review)
           u == Unclaimed(Messaged(pin))
           s == IF review THEN "review" ELSE "done"
           n == pin.thread + 1
           r1 == [u EXCEPT !.state = s]
           r2 == [r1 EXCEPT !.closedAt = clock]
           r3 == [r2 EXCEPT !.closedBy = c]
           r4 == [r3 EXCEPT !.lastClose = n]
           m == pin.closes + 1
<1>1. pin \in Pins /\ clock \in 0..MaxClock /\ pin.rev < MaxRev
  BY <1>0 DEF TypeOK, Write
<1>2. n \in 0..MaxRev /\ m \in 0..MaxRev /\ s \in States
      /\ c \in Clients \cup {Nobody} /\ Messaged(pin) \in Pins
  BY <1>1, MessagedIs DEF States
<1>3. u \in Pins
  BY <1>2, UnclaimedIs
<1>4. r4 \in Pins
  <2>1. r1 \in Pins
    BY <1>2, <1>3, FieldUpdates
  <2>2. r2 \in Pins
    BY <2>1, <1>1, FieldUpdates
  <2>3. r3 \in Pins
    BY <2>2, <1>2, FieldUpdates
  <2> QED BY <2>3, <1>2, FieldUpdates
<1>5. q = [r4 EXCEPT !.closes = m]
  BY <1>1 DEF ClosedAs, Unclaimed, Messaged, Pins
<1>6. q \in Pins
  <2> HIDE DEF r4, m, q
  <2> QED BY <1>2, <1>4, <1>5, FieldUpdates
<1>7. /\ KeptBut(F, pin, q) /\ q.rev = pin.rev
      /\ q.state \in {"review", "done"} /\ q.closedAt = clock
      /\ q.claimedBy = Nobody /\ q.thread = n /\ q.lastClose = n
      /\ q.closes = pin.closes + 1
  BY <1>1 DEF ClosedAs, Unclaimed, Messaged, Pins, KeptBut, Fields
<1>8. Wrote(F) /\ KeptBut({"rev"}, q, pin')
  <2> HIDE DEF F, q
  <2> QED BY <1>0, <1>6, <1>7, WriteIs DEF q
<1>9. /\ pin'.state = q.state /\ pin'.closedAt = q.closedAt
      /\ pin'.claimedBy = q.claimedBy /\ pin'.thread = q.thread
      /\ pin'.lastClose = q.lastClose /\ pin'.closes = q.closes
  <2> HIDE DEF q
  <2> QED BY <1>8 DEF KeptBut, Fields
<1> HIDE DEF q
<1> QED BY <1>7, <1>8, <1>9 DEF Closing, Close

LEMMA ReopenIs ==
  ASSUME TypeOK, Rounds, Write(ReopenedAs(pin))
  PROVE  Reopening
<1> USE BoundsAssumption
<1> DEFINE F == {"state", "thread", "lastReopen", "confirmedBy", "confirmed"}
           q == ReopenedAs(pin)
           r1 == [Messaged(pin) EXCEPT !.state = "open"]
           r2 == [r1 EXCEPT !.lastReopen = pin.thread + 1]
           r == IF Closed(pin) THEN r2 ELSE pin
           r3 == [r EXCEPT !.confirmedBy = Nobody]
<1>1. pin \in Pins /\ pin.rev < MaxRev
  BY DEF TypeOK, Write
<1>2. Messaged(pin) \in Pins /\ pin.thread + 1 \in 0..MaxRev
  BY <1>1, MessagedIs
<1>3. r \in Pins
  <2>1. r1 \in Pins
    BY <1>2, FieldUpdates DEF States
  <2>2. r2 \in Pins
    BY <1>2, <2>1, FieldUpdates
  <2> QED BY <1>1, <2>2
<1>4. q = [r3 EXCEPT !.confirmed = 0]
  BY DEF ReopenedAs
<1>5. q \in Pins
  <2>1. r3 \in Pins
    <3> HIDE DEF r
    <3> QED BY <1>3, FieldUpdates
  <2>2. 0 \in 0..MaxRev
    OBVIOUS
  <2> HIDE DEF r3, q
  <2> QED BY <1>4, <2>1, <2>2, FieldUpdates
<1>6. /\ KeptBut(F, pin, q) /\ q.rev = pin.rev
      /\ q.state = "open" /\ q.confirmedBy = Nobody
      /\ IF Closed(pin)
         THEN q.thread = pin.thread + 1 /\ q.lastReopen = pin.thread + 1
         ELSE q.thread = pin.thread /\ q.lastReopen = pin.lastReopen
  BY <1>1 DEF ReopenedAs, Closed, Messaged, Pins, KeptBut, Fields, States
<1>7. Wrote(F) /\ KeptBut({"rev"}, q, pin')
  <2> HIDE DEF F, q
  <2> QED BY <1>5, <1>6, WriteIs DEF q
<1>8. /\ pin'.state = q.state /\ pin'.confirmedBy = q.confirmedBy
      /\ pin'.thread = q.thread /\ pin'.lastReopen = q.lastReopen
  <2> HIDE DEF q
  <2> QED BY <1>7 DEF KeptBut, Fields
<1> HIDE DEF q
<1> QED BY <1>6, <1>7, <1>8 DEF Reopening

LEMMA ConfirmIs ==
  ASSUME TypeOK, Rounds, NEW c \in People, pin.state = "review",
         Write(ConfirmedAs(pin, c))
  PROVE  Confirming
<1> USE BoundsAssumption
<1> DEFINE F == {"state", "thread", "confirmedBy", "confirmed"}
           q == ConfirmedAs(pin, c)
           r1 == [Messaged(pin) EXCEPT !.state = "done"]
           r2 == [r1 EXCEPT !.confirmedBy = c]
<1>1. pin \in Pins /\ pin.rev < MaxRev
  BY DEF TypeOK, Write
<1>2. Messaged(pin) \in Pins /\ pin.closes \in 0..MaxRev
  BY <1>1, MessagedIs DEF Pins
<1>3. r1 \in Pins
  BY <1>2, FieldUpdates DEF States
<1>4. r2 \in Pins
  BY <1>3, FieldUpdates DEF Clients
<1>5. q = [r2 EXCEPT !.confirmed = pin.closes]
  BY DEF ConfirmedAs
<1>6. q \in Pins
  <2> HIDE DEF r2, q
  <2> QED BY <1>2, <1>4, <1>5, FieldUpdates
<1>7. /\ KeptBut(F, pin, q) /\ q.rev = pin.rev
      /\ q.state = "done" /\ q.thread = pin.thread + 1
      /\ q.confirmedBy = c /\ q.confirmed = pin.closes
  BY <1>1 DEF ConfirmedAs, Messaged, Pins, KeptBut, Fields
<1>8. Wrote(F) /\ KeptBut({"rev"}, q, pin')
  <2> HIDE DEF F, q
  <2> QED BY <1>6, <1>7, WriteIs DEF q
<1>9. /\ pin'.state = q.state /\ pin'.thread = q.thread
      /\ pin'.confirmedBy = q.confirmedBy /\ pin'.confirmed = q.confirmed
  <2> HIDE DEF q
  <2> QED BY <1>8 DEF KeptBut, Fields
<1> HIDE DEF q
<1> QED BY <1>7, <1>8, <1>9 DEF Confirming

LEMMA ReplyIs ==
  ASSUME TypeOK, Rounds, NEW c \in Clients, Reply(c)
  PROVE  Reopening \/ Replying
<1> USE BoundsAssumption
<1>1. CASE Write(ReopenedAs(pin))
  BY <1>1, ReopenIs
<1>2. CASE /\ pin.replies < ThreadMax
           /\ Write([Messaged(pin) EXCEPT !.replies = @ + 1])
  <2> DEFINE F == {"thread", "replies"}
             m == Messaged(pin)
             n == m.replies + 1
             q == [m EXCEPT !.replies = n]
  <2>1. pin \in Pins /\ pin.rev < MaxRev
    BY <1>2 DEF TypeOK, Write
  <2>2. m \in Pins /\ m.replies = pin.replies
    BY <2>1, MessagedIs DEF KeptBut, Fields
  <2>3. n \in 0..ThreadMax
    BY <1>2, <2>1, <2>2 DEF Pins
  <2>4. q \in Pins
    <3> HIDE DEF m, n
    <3> QED BY <2>2, <2>3, FieldUpdates
  <2>5. KeptBut(F, pin, q) /\ q.rev = pin.rev /\ q.thread = pin.thread + 1
    BY <2>1 DEF Messaged, Pins, KeptBut, Fields
  <2>6. Write(q)
    BY <1>2
  <2>7. Wrote(F) /\ KeptBut({"rev"}, q, pin')
    <3> HIDE DEF F, q
    <3> QED BY <2>4, <2>5, <2>6, WriteIs
  <2>8. pin'.thread = q.thread
    <3> HIDE DEF q
    <3> QED BY <2>7 DEF KeptBut, Fields
  <2> HIDE DEF q
  <2> QED BY <2>5, <2>7, <2>8 DEF Replying
<1> QED BY <1>1, <1>2 DEF Reply

LEMMA EditIs ==
  ASSUME TypeOK, Write(EditNote(pin)) \/ Write(EditLines(pin))
  PROVE  Editing
<1> USE BoundsAssumption
<1>1. pin \in Pins /\ pin.rev + 1 \in 0..MaxRev
  BY DEF TypeOK, Write, Pins
<1>2. ASSUME NEW p \in {EditNote(pin), EditLines(pin)}
      PROVE  p \in Pins /\ p.rev = pin.rev /\ KeptBut({"noteAt", "linesAt"}, pin, p)
  <2>1. EditNote(pin) \in Pins /\ EditLines(pin) \in Pins
    BY <1>1, FieldUpdates DEF EditNote, EditLines
  <2> QED BY <1>1, <2>1, <1>2 DEF EditNote, EditLines, KeptBut, Fields, Pins
<1> QED BY <1>2, WriteIs DEF Editing

LEMMA ClaimIs ==
  ASSUME TypeOK, NEW c \in Clients, Claim(c)
  PROVE  Claiming
<1> USE BoundsAssumption, ClientsAssumption
<1>0. PICK ttl \in 1..ClaimTicks :
        Write([pin EXCEPT !.claimedBy = c, !.claimUntil = clock + ttl])
  BY DEF Claim
<1> DEFINE F == {"claimedBy", "claimUntil"}
           n == clock + ttl
           r == [pin EXCEPT !.claimedBy = c]
           q == [r EXCEPT !.claimUntil = n]
<1>1. pin \in Pins /\ n \in 0..(MaxClock + ClaimTicks)
  BY DEF TypeOK
<1>2. r \in Pins
  BY <1>1, FieldUpdates
<1>3. q \in Pins
  <2> HIDE DEF r, n
  <2> QED BY <1>1, <1>2, FieldUpdates
<1>4. KeptBut(F, pin, q) /\ q.rev = pin.rev /\ q.claimedBy = c
  BY <1>1 DEF Pins, KeptBut, Fields
<1>5. Wrote(F) /\ KeptBut({"rev"}, q, pin')
  <2>1. Write(q)
    BY <1>0
  <2> HIDE DEF F, q
  <2> QED BY <1>3, <1>4, <2>1, WriteIs
<1>6. pin'.claimedBy = c
  <2> HIDE DEF q
  <2> QED BY <1>4, <1>5 DEF KeptBut, Fields
<1> QED BY <1>5, <1>6 DEF Claiming, Claim, Clients

LEMMA UnclaimIs ==
  ASSUME TypeOK, NEW c \in Clients, Unclaim(c)
  PROVE  Releasing
<1>1. pin \in Pins
  BY DEF TypeOK
<1>2. /\ Unclaimed(pin) \in Pins /\ Unclaimed(pin).claimedBy = Nobody
      /\ KeptBut({"claimedBy", "claimUntil"}, pin, Unclaimed(pin))
      /\ Unclaimed(pin).rev = pin.rev
  BY <1>1, UnclaimedIs DEF KeptBut, Fields
<1>3. /\ Wrote({"claimedBy", "claimUntil"})
      /\ KeptBut({"rev"}, Unclaimed(pin), pin')
  BY <1>2, WriteIs DEF Unclaim
<1> QED BY <1>2, <1>3 DEF Releasing, KeptBut, Fields

LEMMA TrashIs ==
  ASSUME TypeOK, NEW c \in Clients
  PROVE  (Drop(c) => Dropping) /\ (Restore(c) => Restoring)
<1> USE BoundsAssumption
<1>1. pin \in Pins
  BY DEF TypeOK
<1>2. ASSUME Drop(c) PROVE Dropping
  <2> DEFINE u == Unclaimed(pin)
  <2>1. /\ u \in Pins /\ u.claimedBy = Nobody
        /\ KeptBut({"claimedBy", "claimUntil"}, pin, u)
    BY <1>1, UnclaimedIs
  <2>2. pin' = [u EXCEPT !.live = FALSE]
    BY <1>2 DEF Drop
  <2> HIDE DEF u
  <2>3. pin' \in Pins
    BY <2>1, <2>2, FieldUpdates
  <2>4. /\ pin'.live = FALSE /\ pin'.claimedBy = Nobody
        /\ KeptBut({"live"}, u, pin')
    BY <2>1, <2>2 DEF Pins, KeptBut, Fields
  <2> QED BY <1>2, <2>1, <2>3, <2>4 DEF Dropping, Drop, KeptBut
<1>3. ASSUME Restore(c) PROVE Restoring
  <2> DEFINE n == pin.rev + 1
             q == [pin EXCEPT !.rev = n]
  <2>1. n \in 0..MaxRev
    BY <1>1, <1>3 DEF Restore, Pins
  <2>2. q \in Pins
    BY <1>1, <2>1, FieldUpdates
  <2>3. pin' = [q EXCEPT !.live = TRUE]
    BY <1>3 DEF Restore, Bumped
  <2>4. pin' \in Pins
    <3> HIDE DEF q
    <3> QED BY <2>2, <2>3, FieldUpdates
  <2>5. /\ pin'.live = TRUE /\ pin'.rev = pin.rev + 1
        /\ KeptBut({"live", "rev"}, pin, pin')
    BY <1>1, <2>3 DEF Pins, KeptBut, Fields
  <2> QED BY <1>3, <2>4, <2>5 DEF Restoring, Restore
<1> QED BY <1>2, <1>3

(* Every step is one of the kinds above. *)
LEMMA StepIs ==
  ASSUME TypeOK, Rounds, [Next]_vars
  PROVE  \/ Closing \/ Reopening \/ Confirming \/ Replying \/ Editing
         \/ Claiming \/ Releasing \/ Dropping \/ Restoring
         \/ Read \/ Ticking \/ UNCHANGED vars
<1>1. ASSUME NEW c \in Clients,
             ConfirmShown(c) \/ ConfirmAnyClose(c)
      PROVE  Confirming
  BY <1>1, ConfirmIs DEF ConfirmShown, ConfirmAnyClose, Confirmable
<1>2. ASSUME NEW c \in Clients, EditSeen(c) \/ EditBlind(c) \/ Resync
      PROVE  Editing
  BY <1>2, EditIs DEF EditSeen, EditBlind, Resync
<1>3. Resync => Editing
  BY EditIs DEF Resync
<1>4. Tick => Ticking
  BY BoundsAssumption DEF Tick, Ticking, TypeOK
<1>5. ASSUME NEW c \in Clients, Reopen(c) PROVE Reopening
  BY <1>5, ReopenIs DEF Reopen
<1> QED BY <1>1, <1>2, <1>3, <1>4, <1>5, CloseIs, ReplyIs, ClaimIs, UnclaimIs,
           TrashIs DEF Next

-----------------------------------------------------------------------------
(* The pin's own part of the invariant is inductive. *)
LEMMA ConsistentInit == Init => Consistent
<1> USE BoundsAssumption, ClientsAssumption
<1> SUFFICES ASSUME Init PROVE Consistent
  OBVIOUS
<1>1. 0 \in 0..MaxRev /\ 0 \in 0..MaxClock /\ 0 \in 0..ThreadMax
      /\ 0 \in 0..(MaxClock + ClaimTicks)
  OBVIOUS
<1>2. pin \in Pins
  <2>1. PICK q \in BOOLEAN :
          pin = [live |-> TRUE, state |-> "open", rev |-> 0,
                 question |-> q, noteAt |-> 0, linesAt |-> 0,
                 closedAt |-> 0, closedBy |-> Nobody, confirmedBy |-> Nobody,
                 claimedBy |-> Nobody, claimUntil |-> 0,
                 thread |-> 0, lastClose |-> 0, lastReopen |-> 0,
                 replies |-> 0, closes |-> 0, confirmed |-> 0]
    BY DEF Init
  <2>2. "open" \in States /\ Nobody \in Clients \cup {Nobody}
    BY DEF States
  <2> QED BY <1>1, <2>1, <2>2 DEF Pins
<1>3. TypeOK
  BY <1>1, <1>2 DEF Init, TypeOK
<1>4. /\ pin.live /\ pin.state = "open" /\ pin.rev = 0 /\ pin.thread = 0
      /\ pin.lastClose = 0 /\ pin.lastReopen = 0 /\ pin.closes = 0
      /\ pin.closedAt = 0 /\ clock = 0
      /\ pin.confirmedBy = Nobody /\ pin.claimedBy = Nobody
  BY DEF Init
<1>5. Rounds /\ RoundMatchesState /\ ConfirmationStands /\ ClaimOnlyOnOpenPins
  BY <1>4 DEF Rounds, RoundMatchesState, ConfirmationStands,
     ClaimOnlyOnOpenPins, Closed, HasClaim
<1> QED BY <1>3, <1>5 DEF Consistent

LEMMA ConsistentStep ==
  ASSUME Consistent, [Next]_vars
  PROVE  Consistent'
<1> USE BoundsAssumption, ClientsAssumption DEF Closed, HasClaim
<1>0. TypeOK /\ Rounds /\ pin \in Pins /\ clock \in 0..MaxClock /\ seen \in Pins
  BY DEF Consistent, TypeOK
<1> USE <1>0
<1>1. TypeOK'
  BY StepIs DEF Closing, Reopening, Confirming, Replying, Editing, Claiming,
     Releasing, Wrote, Dropping, Restoring, Read, Ticking, vars, TypeOK
<1>2. ASSUME Closing \/ Reopening \/ Confirming
      PROVE  Consistent'
  <2>1. CASE Closing
    BY <1>1, <2>1 DEF Closing, Wrote, KeptBut, Fields, Consistent, Pins, Rounds,
       RoundMatchesState, ConfirmationStands, ClaimOnlyOnOpenPins
  <2>2. CASE Reopening
    BY <1>1, <2>2 DEF Reopening, Wrote, KeptBut, Fields, Consistent, Pins, Rounds,
       RoundMatchesState, ConfirmationStands, ClaimOnlyOnOpenPins
  <2>3. CASE Confirming
    BY <1>1, <2>3 DEF Confirming, Wrote, KeptBut, Fields, Consistent, Pins, Rounds,
       RoundMatchesState, ConfirmationStands, ClaimOnlyOnOpenPins
  <2> QED BY <1>2, <2>1, <2>2, <2>3
<1>3. ASSUME Replying \/ Editing \/ Claiming \/ Releasing
      PROVE  Consistent'
  BY <1>1, <1>3 DEF Replying, Editing, Claiming, Releasing, Wrote, KeptBut,
     Fields, Consistent, Pins, Rounds, RoundMatchesState, ConfirmationStands,
     ClaimOnlyOnOpenPins
<1>4. ASSUME Dropping \/ Restoring
      PROVE  Consistent'
  BY <1>1, <1>4 DEF Dropping, Restoring, KeptBut, Fields, Consistent, Pins,
     Rounds, RoundMatchesState, ConfirmationStands, ClaimOnlyOnOpenPins
<1>5. ASSUME Read \/ Ticking \/ UNCHANGED vars
      PROVE  Consistent'
  BY <1>1, <1>5 DEF Read, Ticking, vars, Consistent, Pins, Rounds,
     RoundMatchesState, ConfirmationStands, ClaimOnlyOnOpenPins
<1> QED BY <1>2, <1>3, <1>4, <1>5, StepIs

LEMMA ConsistentHolds == Spec => []Consistent
BY ConsistentInit, ConsistentStep, PTL DEF Spec

(* The pin, the clock and the page always have their types. *)
THEOREM TypeCorrect == Spec => []TypeOK
<1>1. Consistent => TypeOK
  BY DEF Consistent
<1> QED BY <1>1, ConsistentHolds, PTL

(* However many closes, reopens, confirmations, claims and trips to the    *)
(* Trash: the thread's round agrees with the state, a confirmation is a    *)
(* person's and of the standing close, and only an open live pin is        *)
(* claimed.                                                                *)
THEOREM LifecycleHolds == Spec => []RecordHolds
<1>1. Consistent => RecordHolds
  BY DEF Consistent, RecordHolds
<1> QED BY <1>1, ConsistentHolds, PTL

(* Only a reopen undoes a close. *)
THEOREM ClosesStand == Spec => CloseStandsUntilReopened
<1> DEFINE A == Closed(pin) /\ Closed(pin') =>
       /\ pin'.closedBy = pin.closedBy /\ pin'.closedAt = pin.closedAt
       /\ pin'.closes = pin.closes
       /\ pin.state = "done" => pin'.state = "done"
<1>1. ASSUME Consistent, [Next]_vars
      PROVE  [A]_vars
  <2>0. TypeOK /\ Rounds
    BY <1>1 DEF Consistent
  <2> QED BY <1>1, <2>0, StepIs DEF Closing, Reopening, Confirming, Replying,
             Editing, Claiming, Releasing, Wrote, Dropping, Restoring, Read,
             Ticking, vars, KeptBut, Fields, Closed
<1> QED BY <1>1, ConsistentHolds, PTL DEF Spec, CloseStandsUntilReopened

(* A live claim passes to nobody else. *)
THEOREM ClaimsExclude == Spec => ClaimIsExclusive
<1> DEFINE A == Held(pin) /\ HasClaim(pin') => pin'.claimedBy = pin.claimedBy
<1>1. ASSUME Consistent, [Next]_vars
      PROVE  [A]_vars
  <2>0. TypeOK /\ Rounds
    BY <1>1 DEF Consistent
  <2> QED BY <1>1, <2>0, StepIs DEF Closing, Reopening, Confirming, Replying,
             Editing, Claiming, Releasing, Wrote, Dropping, Restoring, Read,
             Ticking, vars, KeptBut, Fields, HasClaim
<1> QED BY <1>1, ConsistentHolds, PTL DEF Spec, ClaimIsExclusive

(* Both: nothing is taken away behind its holder's back. *)
THEOREM HoldersAreSafe == Spec => HoldersKeepTheirs
BY ClosesStand, ClaimsExclude DEF HoldersKeepTheirs

-----------------------------------------------------------------------------
(* The page's part. *)
LEMMA PageInit == Init => PageInv
BY ConsistentInit, BoundsAssumption
   DEF Init, PageInv, PagesAreOlder, Closed

LEMMA PageStep ==
  ASSUME PageInv, [Next]_vars
  PROVE  PageInv'
<1>0. Consistent /\ TypeOK /\ Rounds /\ pin \in Pins /\ seen \in Pins
  BY DEF PageInv, Consistent, TypeOK
<1>1. Consistent'
  BY <1>0, ConsistentStep
<1>2. PagesAreOlder'
  <2>1. CASE Read \/ Ticking \/ UNCHANGED vars
    BY <1>0, <2>1 DEF Read, Ticking, vars, PageInv, PagesAreOlder, Rounds, Pins,
       Closed
  <2>2. CASE Dropping \/ Restoring
    BY <1>0, <2>2 DEF Dropping, Restoring, KeptBut, Fields, PageInv,
       PagesAreOlder, Pins, Closed
  <2>3. CASE Closing
    BY <1>0, <2>3 DEF Closing, Wrote, KeptBut, Fields, PageInv, PagesAreOlder,
       Pins, Closed
  <2>4. CASE Reopening \/ Confirming \/ Replying \/ Editing \/ Claiming \/ Releasing
    BY <1>0, <2>4 DEF Reopening, Confirming, Replying, Editing, Claiming,
       Releasing, Wrote, KeptBut, Fields, PageInv, PagesAreOlder, Pins, Closed
  <2> QED BY <1>0, <2>1, <2>2, <2>3, <2>4, StepIs
<1> QED BY <1>1, <1>2 DEF PageInv

LEMMA PagesHold == Spec => []PageInv
BY PageInit, PageStep, PTL DEF Spec

(* An edit that names the revision its author saw lands on that very       *)
(* record: comparing the revision alone is enough.                         *)
THEOREM EditsLandOnWhatWasSeen == Spec => EditLandsOnWhatWasSeen
<1>1. ASSUME PageInv, NEW c \in Clients, EditSeen(c)
      PROVE  seen = pin
  BY <1>1 DEF EditSeen, Write, PageInv, PagesAreOlder
<1>2. PageInv => [\A c \in Clients : EditSeen(c) => seen = pin]_vars
  BY <1>1
<1> QED BY <1>2, PagesHold, PTL DEF EditLandsOnWhatWasSeen

(* When no two closes fall in one second, done_at tells them apart, and a  *)
(* confirmation that names a close is of that close.                       *)
THEOREM ConfirmsBindShownClose ==
  ASSUME SameSecondCloses = FALSE
  PROVE  Spec => ConfirmBindsShownClose
<1> DEFINE IInv == PageInv /\ ClosesAreOrdered
<1>1. Init => IInv
  BY PageInit DEF Init, ClosesAreOrdered
<1>2. ASSUME IInv, [Next]_vars
      PROVE  IInv'
  <2>0. /\ Consistent /\ TypeOK /\ Rounds /\ pin \in Pins /\ seen \in Pins
        /\ clock \in 0..MaxClock
    BY <1>2 DEF PageInv, Consistent, TypeOK
  <2>1. PageInv'
    BY <1>2, PageStep
  <2>2. CASE Closing
    <3>1. pin'.closes = pin.closes + 1 /\ pin'.closedAt = clock /\ seen' = seen
      BY <2>2 DEF Closing, Wrote
    <3>2. pin.closes = 0 \/ pin.closedAt < clock
      BY <2>0, <2>2, BoundsAssumption DEF Closing, Rounds, Pins
    <3> QED BY <1>2, <2>0, <2>1, <3>1, <3>2, BoundsAssumption
            DEF ClosesAreOrdered, PageInv, PagesAreOlder, Pins
  <2>3. ASSUME pin'.closes = pin.closes, pin'.closedAt = pin.closedAt,
               seen' = seen
        PROVE  IInv'
    BY <1>2, <2>1, <2>3 DEF ClosesAreOrdered
  <2>4. CASE Reopening \/ Confirming \/ Replying \/ Editing \/ Claiming
             \/ Releasing \/ Dropping \/ Restoring
    BY <2>3, <2>4 DEF Reopening, Confirming, Replying, Editing, Claiming,
       Releasing, Dropping, Restoring, Wrote, KeptBut, Fields
  <2>5. CASE Read
    BY <2>0, <2>1, <2>5 DEF Read, ClosesAreOrdered, Pins
  <2>6. CASE Ticking \/ UNCHANGED vars
    BY <2>3, <2>6 DEF Ticking, vars
  <2> QED BY <1>2, <2>0, <2>2, <2>4, <2>5, <2>6, StepIs
<1>3. IInv => [\A c \in Clients : ConfirmShown(c) => seen.closes = pin.closes]_vars
  <2>1. ASSUME IInv, NEW c \in Clients, ConfirmShown(c)
        PROVE  seen.closes = pin.closes
    <3>1. pin \in Pins /\ seen \in Pins
      BY <2>1 DEF PageInv, Consistent, TypeOK
    <3> QED BY <2>1, <3>1, BoundsAssumption DEF PageInv, PagesAreOlder,
            ClosesAreOrdered, ConfirmShown, Pins
  <2> QED BY <2>1
<1> HIDE DEF IInv
<1> QED BY <1>1, <1>2, <1>3, PTL DEF Spec, ConfirmBindsShownClose

(* Both: comparing a revision or a done_at stands for comparing the page. *)
THEOREM ActsLandOnWhatWasSeen ==
  ASSUME SameSecondCloses = FALSE
  PROVE  Spec => ActsOnWhatWasSeen
BY EditsLandOnWhatWasSeen, ConfirmsBindShownClose DEF ActsOnWhatWasSeen

-----------------------------------------------------------------------------
(* How the line ranges of pins overlap                                     *)

(* The only two spans with both ends equal are one span. *)
LEMMA SpanEnds ==
  ASSUME NEW a \in Span, NEW b \in Span
  PROVE  /\ a[1] \in Int /\ a[2] \in Int /\ a[1] <= a[2]
         /\ a = b <=> a[1] = b[1] /\ a[2] = b[2]
BY DEF Span

(* range_rel seen from the other range is its reverse, unless the ranges   *)
(* are the same lines.                                                     *)
LEMMA RangeRelReverses ==
  ASSUME NEW a \in Span, NEW b \in Span, a # b
  PROVE  RangeRel(b, a) = Reversed(RangeRel(a, b))
<1>1. /\ a[1] \in Int /\ a[2] \in Int /\ a[1] <= a[2]
      /\ b[1] \in Int /\ b[2] \in Int /\ b[1] <= b[2]
      /\ ~(a[1] = b[1] /\ a[2] = b[2])
  BY SpanEnds
<1>2. CASE a[2] < b[1] \/ b[2] < a[1]
  BY <1>1, <1>2 DEF RangeRel, Reversed, Apart
<1>3. CASE ~(a[2] < b[1] \/ b[2] < a[1])
  <2>1. CASE b[1] <= a[1] /\ a[2] <= b[2]
    BY <1>1, <1>3, <2>1 DEF RangeRel, Reversed, Apart
  <2>2. CASE a[1] <= b[1] /\ b[2] <= a[2]
    BY <1>1, <1>3, <2>2 DEF RangeRel, Reversed, Apart
  <2>3. CASE ~(b[1] <= a[1] /\ a[2] <= b[2]) /\ ~(a[1] <= b[1] /\ b[2] <= a[2])
    BY <1>1, <1>3, <2>3 DEF RangeRel, Reversed, Apart
  <2>4. QED BY <2>1, <2>2, <2>3
<1>4. QED BY <1>2, <1>3

LEMMA FirstRelReverses ==
  ASSUME NEW p \in Pin, NEW q \in Pin, Related(p, q), p.id # q.id
  PROVE  FirstRel(q, p) = Reversed(FirstRel(p, q))
<1>1. p.place \in Span /\ q.place \in Span /\ p.id \in Int /\ q.id \in Int
  BY DEF Related, Counted, Pin
<1>2. CASE p.place = q.place
  BY <1>1, <1>2 DEF FirstRel, Reversed
<1>3. CASE p.place # q.place
  BY <1>1, <1>3, RangeRelReverses DEF FirstRel
<1>4. QED BY <1>2, <1>3

LEMMA ReversedTwice ==
  ASSUME NEW p \in Pin, NEW q \in Pin
  PROVE  Reversed(Reversed(FirstRel(p, q))) = FirstRel(p, q)
BY DEF Reversed, FirstRel, RangeRel, Apart

(* The two pins of a pair are told the reverse of each other, and the same *)
(* whichever of them the store lists first (pins/location/position.py,     *)
(* overlaps_by_id).                                                        *)
THEOREM OverlapsAgree ==
  ASSUME NEW p \in Pin, NEW q \in Pin, p.id # q.id, NEW before \in BOOLEAN
  PROVE  /\ Overlap(q, p, ~before) = Reversed(Overlap(p, q, before))
         /\ Overlap(p, q, before) = Overlap(p, q, ~before)
<1>1. CASE ~Related(p, q)
  <2>1. ~Related(q, p)
    BY <1>1 DEF Related
  <2>2. QED BY <1>1, <2>1 DEF Overlap, Reversed, Apart
<1>2. CASE Related(p, q)
  <2>1. Related(q, p)
    BY <1>2 DEF Related
  <2>2. /\ FirstRel(q, p) = Reversed(FirstRel(p, q))
        /\ FirstRel(p, q) = Reversed(FirstRel(q, p))
    BY <1>2, <2>1, FirstRelReverses
  <2>3. CASE before
    BY <1>2, <2>1, <2>2, <2>3 DEF Overlap, PairRel
  <2>4. CASE ~before
    BY <1>2, <2>1, <2>2, <2>4 DEF Overlap, PairRel
  <2>5. QED BY <2>3, <2>4
<1>3. QED BY <1>1, <1>2

(* What lies in what is one order of the pins of a file, the same lines    *)
(* included: no pin lies in itself, directly or through others, so the     *)
(* viewer can nest them.                                                   *)
THEOREM NestingIsAnOrder ==
  ASSUME NEW p \in Pin, NEW q \in Pin, NEW r \in Pin,
         Related(p, q), Related(q, r), p.id # q.id, q.id # r.id,
         FirstRel(p, q) = "inside", FirstRel(q, r) = "inside"
  PROVE  p # r /\ FirstRel(p, r) = "inside"
<1> DEFINE a == p.place  b == q.place  c == r.place
<1>1. /\ a \in Span /\ b \in Span /\ c \in Span
      /\ p.id \in Int /\ q.id \in Int /\ r.id \in Int
  BY DEF Related, Counted, Pin
<1>2. /\ b[1] <= a[1] /\ a[2] <= b[2] /\ (a = b => p.id > q.id)
  <2>1. CASE a = b
    BY <1>1, <2>1, SpanEnds DEF FirstRel
  <2>2. CASE a # b
    BY <1>1, <2>2, SpanEnds DEF FirstRel, RangeRel, Apart
  <2>3. QED BY <2>1, <2>2
<1>3. /\ c[1] <= b[1] /\ b[2] <= c[2] /\ (b = c => q.id > r.id)
  <2>1. CASE b = c
    BY <1>1, <2>1, SpanEnds DEF FirstRel
  <2>2. CASE b # c
    BY <1>1, <2>2, SpanEnds DEF FirstRel, RangeRel, Apart
  <2>3. QED BY <2>1, <2>2
<1>4. c[1] <= a[1] /\ a[2] <= c[2] /\ (a = c => a = b /\ b = c)
  BY <1>1, <1>2, <1>3, SpanEnds
<1>5. a = c => p.id > r.id
  BY <1>1, <1>2, <1>3, <1>4
<1>6. FirstRel(p, r) = "inside"
  <2>1. CASE a = c
    BY <1>1, <1>5, <2>1 DEF FirstRel
  <2>2. CASE a # c
    BY <1>1, <1>4, <2>2, SpanEnds DEF FirstRel, RangeRel, Apart
  <2>3. QED BY <2>1, <2>2
<1>7. p # r
  BY <1>1, <1>5
<1>8. QED BY <1>6, <1>7

(* The banner shown before a range is pinned says what the listing says of *)
(* the pin then made, when its id is the newest: "equal" becomes inside.   *)
THEOREM BannerMatchesListing ==
  ASSUME NEW new \in Pin, NEW p \in Pin, NEW before \in BOOLEAN,
         Counted(new), p.id < new.id
  PROVE  Overlap(new, p, before) =
           IF OverlapForRange(new.file, new.place, p) = "equal" THEN "inside"
           ELSE OverlapForRange(new.file, new.place, p)
<1>1. p.id \in Int /\ new.id \in Int /\ p.id # new.id
  BY DEF Pin
<1>2. CASE ~Related(new, p)
  BY <1>2 DEF Overlap, OverlapForRange, Related, Apart
<1>3. CASE Related(new, p)
  <2>1. Overlap(new, p, before) = FirstRel(new, p)
    <3>1. Overlap(new, p, TRUE) = FirstRel(new, p)
      BY <1>3 DEF Overlap, PairRel
    <3>2. Overlap(new, p, TRUE) = Overlap(new, p, FALSE)
      BY <1>1, OverlapsAgree
    <3>3. QED BY <3>1, <3>2
  <2>2. new.place \in Span /\ p.place \in Span
    BY <1>3 DEF Related, Counted, Pin
  <2>3. CASE new.place = p.place
    BY <1>1, <1>3, <2>1, <2>3 DEF FirstRel, OverlapForRange, SelectionRel, Related
  <2>4. CASE new.place # p.place
    <3>1. RangeRel(new.place, p.place) # "equal"
      BY DEF RangeRel, Apart
    <3>2. QED
      BY <1>3, <2>1, <2>4, <3>1 DEF FirstRel, OverlapForRange, SelectionRel, Related
  <2>5. QED BY <2>3, <2>4
<1>4. QED BY <1>2, <1>3

-----------------------------------------------------------------------------
(* Posts, tags and notices: PinNotices, which MCPinLifecycle runs beside   *)
(* the record, for any people, texts, cooldown and length of the log.      *)

NoticeTypes == {"mention", "assigned", "review_requested", "reopened", "replied"}
Mentions == [type : NoticeTypes, here : BOOLEAN, msg : BOOLEAN, by : Tags!Clients,
             to : SUBSET Writers, ts : Int]
TellsOfNote(r) == r.type = "mention" /\ r.here /\ ~r.msg

(* The rows of made are those of R that reach somebody. *)
Carries(made, R) == /\ made \in Seq(R)
                    /\ \A i \in DOMAIN made : made[i].to # {}
                    /\ \A r \in R : r.to # {} => \E i \in DOMAIN made : made[i] = r
EachOnce(made) ==
  \A i, j \in DOMAIN made : i # j => made[i].to \cap made[j].to = {}
(* The rows of a saved note: one that tells of tags, one of a hand-over. *)
KindsApart(made) ==
  /\ \A i \in DOMAIN made : made[i].type \in {"mention", "assigned"}
  /\ \A i, j \in DOMAIN made : made[i].type = made[j].type => i = j

LEMMA NoNotice == Carries(<<>>, {}) /\ EachOnce(<<>>)
BY EmptySeq DEF Carries, EachOnce

LEMMA OneNotice ==
  ASSUME NEW r PROVE Carries(Tags!Notice(r), {r}) /\ EachOnce(Tags!Notice(r))
<1>1. CASE r.to = {}
  <2>1. Tags!Notice(r) = <<>> /\ <<>> \in Seq({r}) /\ DOMAIN <<>> = {}
    BY <1>1, EmptySeq DEF Tags!Notice
  <2> QED BY <1>1, <2>1 DEF Carries, EachOnce
<1>2. CASE r.to # {}
  <2>1. Tags!Notice(r) = <<r>> /\ <<r>> \in Seq({r}) /\ DOMAIN <<r>> = {1}
    BY <1>2 DEF Tags!Notice
  <2> QED BY <1>2, <2>1 DEF Carries, EachOnce
<1> QED BY <1>1, <1>2

LEMMA OneMoreNotice ==
  ASSUME NEW R, NEW made, NEW r, Carries(made, R)
  PROVE  /\ Carries(made \o Tags!Notice(r), R \cup {r})
         /\ EachOnce(made) /\ (\A q \in R : q.to \cap r.to = {})
              => EachOnce(made \o Tags!Notice(r))
<1>1. made \in Seq(R) /\ made \in Seq(R \cup {r})
  BY SeqMonotonic DEF Carries
<1>2. CASE r.to = {}
  <2>1. made \o Tags!Notice(r) = made
    BY <1>1, <1>2 DEF Tags!Notice
  <2> QED BY <1>1, <1>2, <2>1 DEF Carries
<1>3. CASE r.to # {}
  <2> DEFINE all == made \o <<r>>
  <2>1. /\ made \o Tags!Notice(r) = all /\ all \in Seq(R \cup {r})
        /\ DOMAIN made = 1..Len(made) /\ Len(made) \in Nat
        /\ DOMAIN all = 1..(Len(made) + 1)
        /\ all[Len(made) + 1] = r /\ \A i \in 1..Len(made) : all[i] = made[i]
    BY <1>1, <1>3 DEF Tags!Notice
  <2> HIDE DEF all
  <2>2. /\ \A i \in DOMAIN all : (i \in DOMAIN made /\ all[i] = made[i] /\ made[i] \in R)
                                 \/ (i = Len(made) + 1 /\ all[i] = r)
        /\ Len(made) + 1 \notin DOMAIN made
    <3>1. ASSUME NEW i \in DOMAIN all, i # Len(made) + 1
          PROVE  i \in DOMAIN made /\ all[i] = made[i] /\ made[i] \in R
      <4>1. i \in 1..Len(made)
        BY <2>1, <3>1
      <4> QED BY <1>1, <2>1, <4>1
    <3> QED BY <2>1, <3>1
  <2>3. Carries(all, R \cup {r})
    <3>1. \A i \in DOMAIN all : all[i].to # {}
      BY <1>3, <2>2 DEF Carries
    <3>2. ASSUME NEW q \in R \cup {r}, q.to # {} PROVE \E i \in DOMAIN all : all[i] = q
      <4>1. CASE q = r
        BY <2>1, <4>1
      <4>2. CASE q \in R
        <5>1. PICK i \in DOMAIN made : made[i] = q
          BY <3>2, <4>2 DEF Carries
        <5> QED BY <2>1, <5>1
      <4> QED BY <4>1, <4>2
    <3> QED BY <2>1, <3>1, <3>2 DEF Carries
  <2>4. ASSUME EachOnce(made), \A q \in R : q.to \cap r.to = {} PROVE EachOnce(all)
    <3> SUFFICES ASSUME NEW i \in DOMAIN all, NEW j \in DOMAIN all, i # j
                 PROVE  all[i].to \cap all[j].to = {}
      BY DEF EachOnce
    <3> QED BY <2>2, <2>4 DEF EachOnce
  <2> QED BY <2>1, <2>3, <2>4
<1> QED BY <1>2, <1>3

(* A notice reaches people alone, and never who posts. *)
Reaches(r, by, to) == /\ r \in Mentions /\ by \notin r.to /\ r.by = by
                      /\ r.to = to \ {by, Agent, Nobody}

LEMMA RowIsMention ==
  ASSUME NEW type \in NoticeTypes, NEW by \in Tags!Clients, NEW to,
         to \subseteq Writers \cup {Agent, Nobody}
  PROVE  /\ Reaches(Tags!Row(type, TRUE, FALSE, by, to), by, to)
         /\ TellsOfNote(Tags!Row(type, TRUE, FALSE, by, to)) <=> type = "mention"
         /\ Reaches(Tags!Row(type, TRUE, TRUE, by, to), by, to)
         /\ ~TellsOfNote(Tags!Row(type, TRUE, TRUE, by, to))
         /\ Reaches(Tags!Row(type, FALSE, FALSE, by, to), by, to)
         /\ ~TellsOfNote(Tags!Row(type, FALSE, FALSE, by, to))
<1>1. /\ Reaches(Tags!Row(type, TRUE, FALSE, by, to), by, to)
      /\ TellsOfNote(Tags!Row(type, TRUE, FALSE, by, to)) <=> type = "mention"
  BY DEF Reaches, TellsOfNote, Mentions, Tags!Row
<1>2. /\ Reaches(Tags!Row(type, TRUE, TRUE, by, to), by, to)
      /\ ~TellsOfNote(Tags!Row(type, TRUE, TRUE, by, to))
  BY DEF Reaches, TellsOfNote, Mentions, Tags!Row
<1>3. /\ Reaches(Tags!Row(type, FALSE, FALSE, by, to), by, to)
      /\ ~TellsOfNote(Tags!Row(type, FALSE, FALSE, by, to))
  BY DEF Reaches, TellsOfNote, Mentions, Tags!Row
<1> QED BY <1>1, <1>2, <1>3

Entries == [ev : {"close", "reopen", "reply"}, tags : SUBSET Writers]
PostRecords == [state : {"none", "open", "review", "done"}, author : Tags!Clients \cup {Nobody}, question : BOOLEAN,
                assignee : Writers \cup {Agent, Nobody}, note : Tags!Counts,
                tags : SUBSET Writers, thread : Seq(Entries)]

PostsTyped ==
  /\ post \in PostRecords /\ now \in Int /\ rows \in Nat
  /\ log \in Seq(Mentions) /\ batch.rows \in Seq(Mentions) /\ batch.now \in Int
  /\ batch # Tags!Quiet => batch.by \in Tags!Clients
  /\ last \in [Tags!Clients -> [Writers -> [ts : Int, row : Nat]]]

(* The log is the newest of the rows written. *)
LogIsNewest == Len(log) = IF rows <= Keep THEN rows ELSE Keep
LogTold == \A i \in DOMAIN log : TellsOfNote(log[i]) => log[i].to \subseteq told

(* What last says of a note mention is in the log, at its place, while the *)
(* log still reaches back to it.                                           *)
IsLogged(c, p, L) ==
  /\ L.row \in 1..rows
  /\ rows - L.row < Keep =>
       LET i == L.row - rows + Len(log)
       IN  /\ TellsOfNote(log[i]) /\ log[i].by = c
           /\ p \in log[i].to /\ log[i].ts = L.ts
LastIsLogged ==
  \A c \in Tags!Clients, p \in Writers :
    last[c][p] # Tags!Never => IsLogged(c, p, last[c][p])

(* A batch's note mention is its first row, and tells nobody whom its      *)
(* editor told within the window, as far as the log can know.              *)
NoteComesFirst ==
  \A i \in DOMAIN batch.rows :
    TellsOfNote(batch.rows[i]) => i = 1 /\ batch.rows[i].by = batch.by
Cools(at, L) == \/ L = Tags!Never
                \/ Tags!Apart(at, L.ts)
                \/ rows - L.row >= Keep
BatchCools == \A p \in Tags!NoteTold : Cools(batch.now, last[batch.by][p])

(* The last close and the last reopen are entries of the thread, and what  *)
(* was tagged from the round's first entry on is the round's.  A pin that  *)
(* is not there has no entries.                                            *)
TaggedFrom(start) ==
  UNION {post.thread[i].tags : i \in {j \in DOMAIN post.thread : j >= start}}
RoundIsOpen == /\ Tags!LastClose \in 0..Len(post.thread)
               /\ Tags!LastReopen \in 0..Len(post.thread)
               /\ TaggedFrom(Tags!RoundStart) = round
               /\ post.state = "none" => post.thread = <<>>

TagsInv == /\ PostsTyped /\ LogIsNewest /\ LogTold /\ LastIsLogged
           /\ NoteComesFirst /\ BatchCools /\ RoundIsOpen
           /\ Tags!TagsWereTold /\ Tags!PostReachesEachOnce

-----------------------------------------------------------------------------
(* What a transaction queues. *)
LEMMA Queued ==
  ASSUME NEW k, NEW c \in Tags!Clients, NEW made, NEW involved, NEW R,
         R \subseteq Mentions, Carries(made, R), now \in Int,
         Tags!Queue(k, c, made, involved)
  PROVE  /\ batch'.rows = made /\ made \in Seq(Mentions) /\ batch'.now \in Int
         /\ batch' # Tags!Quiet => batch'.by \in Tags!Clients
         /\ made # <<>> => /\ batch'.by = c /\ batch'.now = now
                           /\ batch'.kind = k /\ batch'.involved = involved
         /\ made = <<>> => batch' = Tags!Quiet
         /\ \A i \in DOMAIN made : made[i] \in R /\ made[i].to # {}
<1>1. made \in Seq(Mentions) /\ \A i \in DOMAIN made : made[i] \in R /\ made[i].to # {}
  <2>1. made \in Seq(R)
    BY DEF Carries
  <2> QED BY <2>1, SeqMonotonic DEF Carries
<1>2. CASE made = <<>>
  <2>1. batch' = Tags!Quiet
    BY <1>2 DEF Tags!Queue
  <2>2. batch'.rows = <<>> /\ batch'.now = 0
    BY <2>1 DEF Tags!Quiet
  <2> QED BY <1>1, <1>2, <2>1, <2>2
<1>3. CASE made # <<>>
  <2>1. batch' = [kind |-> k, by |-> c, now |-> now, rows |-> made, involved |-> involved]
    BY <1>3 DEF Tags!Queue
  <2>2. batch'.by = c /\ batch'.now = now /\ batch'.kind = k /\ batch'.involved = involved /\ batch'.rows = made
    BY <2>1
  <2> QED BY <1>1, <1>3, <2>2
<1> QED BY <1>2, <1>3

LEMMA ReachesOnce ==
  ASSUME NEW k, NEW c \in Tags!Clients, NEW made, NEW involved, NEW R,
         R \subseteq Mentions, Carries(made, R), now \in Int,
         Tags!Queue(k, c, made, involved),
         k # "note" => EachOnce(made), k = "note" => KindsApart(made),
         \A r \in R : c \notin r.to,
         k = "reply" => \A p \in Writers \ {c} : p \in involved <=> \E r \in R : p \in r.to
  PROVE  Tags!PostReachesEachOnce'
<1>0. /\ batch'.rows = made
      /\ made # <<>> => batch'.by = c /\ batch'.kind = k /\ batch'.involved = involved
      /\ made = <<>> => batch' = Tags!Quiet
      /\ \A i \in DOMAIN made : made[i] \in R /\ made[i].to # {}
  BY Queued DEF Tags!Queue
<1> SUFFICES ASSUME NEW p \in Writers
             PROVE  LET to == {i \in DOMAIN made : p \in made[i].to}
                    IN  /\ batch'.kind # "note" => \A i, j \in to : i = j
                        /\ batch'.kind = "note" => KindsApart(made)
                        /\ batch'.kind = "reply" /\ p # batch'.by =>
                             (to # {} <=> p \in batch'.involved)
                        /\ p = batch'.by => to = {}
  BY <1>0 DEF Tags!PostReachesEachOnce, KindsApart
<1> DEFINE to == {i \in DOMAIN made : p \in made[i].to}
<1>1. CASE made = <<>>
  <2>1. to = {}
    BY <1>1
  <2>2. batch'.kind = "none"
    BY <1>0, <1>1 DEF Tags!Quiet
  <2> QED BY <2>1, <2>2
<1>2. CASE made # <<>>
  <2>1. ASSUME k # "note" PROVE \A i, j \in to : i = j
    BY <2>1 DEF EachOnce
  <2>2. ASSUME k = "reply", p # c PROVE to # {} <=> p \in involved
    <3>1. ASSUME to # {} PROVE p \in involved
      BY <1>0, <2>2, <3>1
    <3>2. ASSUME p \in involved PROVE to # {}
      <4>1. PICK r \in R : p \in r.to
        BY <2>2, <3>2
      <4>2. PICK i \in DOMAIN made : made[i] = r
        BY <4>1 DEF Carries
      <4> QED BY <4>1, <4>2
    <3> QED BY <3>1, <3>2
  <2>3. p = c => to = {}
    BY <1>0
  <2> HIDE DEF to
  <2>4. batch'.by = c /\ batch'.kind = k /\ batch'.involved = involved
    BY <1>0, <1>2
  <2>5. batch'.kind = "reply" /\ p # batch'.by => (to # {} <=> p \in batch'.involved)
    BY <2>2, <2>4
  <2>6. batch'.kind # "note" => \A i, j \in to : i = j
    BY <2>1, <2>4
  <2>7. p = batch'.by => to = {}
    BY <2>3, <2>4
  <2>8. batch'.kind = "note" => KindsApart(made)
    BY <2>4
  <2> QED BY <2>5, <2>6, <2>7, <2>8 DEF to
<1> QED BY <1>1, <1>2

LEMMA NoteToldIs ==
  /\ \A p \in Writers : p \in Tags!NoteTold <=>
       \E i \in DOMAIN batch.rows : TellsOfNote(batch.rows[i]) /\ p \in batch.rows[i].to
  /\ Tags!NoteTold \subseteq Writers
BY Zenon DEF Tags!NoteTold, Tags!NoteRows, TellsOfNote

LEMMA NoteToldBecomes ==
  /\ \A p \in Writers : p \in Tags!NoteTold' <=>
       \E i \in DOMAIN batch'.rows : TellsOfNote(batch'.rows[i]) /\ p \in batch'.rows[i].to
  /\ Tags!NoteTold' \subseteq Writers
BY Zenon DEF Tags!NoteTold, Tags!NoteRows, TellsOfNote

LEMMA QuietTellsNobody ==
  /\ batch = Tags!Quiet => Tags!NoteTold = {}
  /\ batch' = Tags!Quiet => Tags!NoteTold' = {}
<1>1. Tags!Quiet.rows = <<>> /\ DOMAIN <<>> = {}
  BY DEF Tags!Quiet
<1>2. batch = Tags!Quiet => Tags!NoteTold = {}
  BY <1>1, NoteToldIs
<1>3. batch' = Tags!Quiet => Tags!NoteTold' = {}
  BY <1>1, NoteToldBecomes
<1> QED BY <1>2, <1>3

(* What every post leaves alone. *)
LEMMA PostKeeps ==
  ASSUME NEW k, NEW c \in Tags!Clients, NEW made, NEW involved, NEW R,
         R \subseteq Mentions, Carries(made, R), Tags!Queue(k, c, made, involved),
         TagsInv, Tags!Post(c), post' \in PostRecords
  PROVE  PostsTyped' /\ LogIsNewest' /\ LogTold' /\ LastIsLogged'
<1>0. PostsTyped /\ LogIsNewest /\ LogTold /\ LastIsLogged
  BY DEF TagsInv
<1>1. UNCHANGED <<now, log, faults, told, lost, last, rows>> /\ now \in Int
  BY <1>0 DEF Tags!Post, PostsTyped
<1>2. PostsTyped'
  <2>1. /\ batch'.rows \in Seq(Mentions) /\ batch'.now \in Int
        /\ batch' # Tags!Quiet => batch'.by \in Tags!Clients
    BY <1>1, Queued DEF Tags!Queue
  <2> QED BY <1>0, <1>1, <2>1 DEF PostsTyped
<1>3. LogIsNewest' /\ LogTold'
  BY <1>0, <1>1 DEF LogIsNewest, LogTold
<1>4. LastIsLogged'
  BY <1>0, <1>1 DEF LastIsLogged, IsLogged
<1> QED BY <1>2, <1>3, <1>4

(* A post that is no save of the note. *)
LEMMA OtherPost ==
  ASSUME NEW k, NEW c \in Tags!Clients, NEW made, NEW involved, NEW R,
         R \subseteq Mentions, Carries(made, R), Tags!Queue(k, c, made, involved),
         TagsInv, Tags!Post(c), post'.tags = post.tags, late' = late,
         \A r \in R : ~TellsOfNote(r)
  PROVE  NoteComesFirst' /\ BatchCools' /\ Tags!TagsWereTold'
<1>1. UNCHANGED <<told, lost>> /\ batch = Tags!Quiet /\ now \in Int
  BY DEF Tags!Post, TagsInv, PostsTyped
<1>2. batch'.rows = made /\ \A i \in DOMAIN made : made[i] \in R
  BY <1>1, Queued DEF Tags!Queue
<1>3. \A i \in DOMAIN batch'.rows : ~TellsOfNote(batch'.rows[i])
  BY <1>2
<1>4. Tags!NoteTold = {} /\ Tags!NoteTold' = {}
  BY <1>1, <1>3, NoteToldBecomes, QuietTellsNobody
<1>5. NoteComesFirst' /\ BatchCools'
  BY <1>3, <1>4 DEF NoteComesFirst, BatchCools
<1>6. Tags!TagsWereTold'
  BY <1>1, <1>4 DEF TagsInv, Tags!TagsWereTold
<1> QED BY <1>5, <1>6

(* Whom a note mention reaches its editor has not told lately. *)
LEMMA UncooledIsApart ==
  ASSUME TagsInv, NEW c \in Tags!Clients, NEW p \in Writers, p \notin Tags!Cooled(c)
  PROVE  Cools(now, last[c][p])
<1>0. PostsTyped /\ LogIsNewest /\ LastIsLogged /\ Window \in Int /\ Keep \in Nat
  BY TagsAssumption DEF TagsInv
<1> DEFINE L == last[c][p]
           i == L.row - rows + Len(log)
<1> SUFFICES ASSUME L # Tags!Never, ~(rows - L.row >= Keep) PROVE Tags!Apart(now, L.ts)
  BY DEF Cools
<1>1. L \in [ts : Int, row : Nat] /\ rows \in Nat /\ now \in Int /\ Len(log) \in Nat
      /\ DOMAIN log = 1..Len(log)
  BY <1>0 DEF PostsTyped
<1>2. L.ts \in Int /\ L.row \in Nat
  BY <1>1
<1> HIDE DEF L, i
<1>3. IsLogged(c, p, L)
  BY <1>0 DEF LastIsLogged, L
<1>4. L.row \in 1..rows /\ rows - L.row < Keep
  BY <1>0, <1>1, <1>2, <1>3 DEF IsLogged
<1>5. i \in DOMAIN log
  BY <1>0, <1>1, <1>2, <1>4 DEF LogIsNewest, i
<1>6. TellsOfNote(log[i]) /\ log[i].by = c /\ p \in log[i].to /\ log[i].ts = L.ts
  BY <1>3, <1>4 DEF IsLogged, i
<1>7. ~Tags!Near(L.ts, Window)
  <2>1. ~Tags!Near(log[i].ts, Window)
    BY <1>5, <1>6, Zenon DEF Tags!Cooled, Tags!NoteMentions, TellsOfNote
  <2> QED BY <1>6, <2>1
<1> QED BY <1>0, <1>1, <1>2, <1>7 DEF Tags!Near, Tags!Apart

LEMMA CooledWasTold ==
  ASSUME TagsInv, NEW c, NEW p \in Tags!Cooled(c) PROVE p \in told
<1>1. PICK i \in DOMAIN log : TellsOfNote(log[i]) /\ p \in log[i].to
  BY Zenon DEF Tags!Cooled, Tags!NoteMentions, TellsOfNote
<1> QED BY <1>1 DEF TagsInv, LogTold

-----------------------------------------------------------------------------
(* A save of the note. *)

(* Nobody tags themselves. *)
LEMMA NoHitsOnOneself ==
  ASSUME NEW text, NEW hints, NEW c \in Writers PROVE Tags!Hits(text, hints, c)[c] = 0
BY DEF Tags!Hits

LEMMA NoteMentionIs ==
  ASSUME NEW c \in Tags!Clients, NEW note, NEW hints
  PROVE  LET m == Tags!NoteMention(c, note, hints)
         IN  /\ m \in Mentions /\ TellsOfNote(m) /\ m.by = c /\ c \notin m.to
             /\ m.to = Tags!Newly(c, note, hints) \ Tags!Cooled(c)
<1> DEFINE to == Tags!Newly(c, note, hints) \ Tags!Cooled(c)
           m == Tags!Row("mention", TRUE, FALSE, c, to)
<1>1. Tags!Newly(c, note, hints) \subseteq Writers
  BY DEF Tags!Newly
<1>2. c \notin Tags!Newly(c, note, hints)
  <2>1. ASSUME c \in Writers, c \in Tags!Newly(c, note, hints) PROVE FALSE
    <3>1. Tags!Hits(note, hints, c)[c] > Tags!Hits(post.note, hints, c)[c]
      BY <2>1 DEF Tags!Newly
    <3>2. Tags!Hits(note, hints, c)[c] = 0 /\ Tags!Hits(post.note, hints, c)[c] = 0
      BY <2>1, NoHitsOnOneself
    <3> QED BY <3>1, <3>2
  <2> QED BY <1>1, <2>1
<1>3. to \subseteq Writers /\ c \notin to
  BY <1>1, <1>2
<1>4. Tags!NoteMention(c, note, hints) = m
  BY DEF Tags!NoteMention
<1> HIDE DEF to
<1>5. /\ m \in Mentions /\ c \notin m.to /\ m.by = c /\ m.to = to \ {c, Agent, Nobody}
      /\ TellsOfNote(m)
  <2>1. to \subseteq Writers \cup {Agent, Nobody} /\ "mention" \in NoticeTypes
    BY <1>3 DEF NoticeTypes
  <2>2. Reaches(m, c, to) /\ TellsOfNote(m)
    BY <2>1, RowIsMention
  <2> QED BY <2>1, <2>2 DEF Reaches
<1>6. m.to = to
  BY <1>3, <1>5, TagsAssumption
<1> QED BY <1>4, <1>5, <1>6 DEF to

LEMMA SavedNote ==
  ASSUME NEW k, NEW c \in Tags!Clients, NEW made, NEW involved, NEW R,
         R \subseteq Mentions, Carries(made, R), Tags!Queue(k, c, made, involved),
         NEW note, NEW hints, Tags!NoteMention(c, note, hints) \in R,
         \A i \in DOMAIN made :
           TellsOfNote(made[i]) => i = 1 /\ made[i] = Tags!NoteMention(c, note, hints),
         TagsInv, Tags!Post(c), post'.tags = Tags!NoteTags(c, note, hints),
         late' = Tags!NotCountedAnew(c, note, hints)
  PROVE  NoteComesFirst' /\ BatchCools' /\ Tags!TagsWereTold'
<1> DEFINE m == Tags!NoteMention(c, note, hints)
           newly == Tags!Newly(c, note, hints)
<1>1. UNCHANGED <<told, lost, last, rows>> /\ batch = Tags!Quiet /\ now \in Int
  BY DEF Tags!Post, TagsInv, PostsTyped
<1>2. /\ TellsOfNote(m) /\ m.by = c /\ m.to = newly \ Tags!Cooled(c)
      /\ newly \subseteq Writers
  BY NoteMentionIs DEF Tags!Newly
<1>3. /\ batch'.rows = made
      /\ made # <<>> => batch'.by = c /\ batch'.now = now
  BY <1>1, Queued DEF Tags!Queue
<1> HIDE DEF m, newly
<1>4. \A p \in Writers : p \in Tags!NoteTold' <=> p \in m.to
  <2> SUFFICES ASSUME NEW p \in Writers PROVE p \in Tags!NoteTold' <=> p \in m.to
    OBVIOUS
  <2>1. ASSUME p \in Tags!NoteTold' PROVE p \in m.to
    BY <1>3, <2>1, NoteToldBecomes DEF m
  <2>2. ASSUME p \in m.to PROVE p \in Tags!NoteTold'
    <3>1. PICK i \in DOMAIN made : made[i] = m
      BY <2>2 DEF Carries, m
    <3> QED BY <1>2, <1>3, <2>2, <3>1, NoteToldBecomes
  <2> QED BY <2>1, <2>2
<1>5. ASSUME NEW i \in DOMAIN made, TellsOfNote(made[i]) PROVE i = 1 /\ made[i] = m /\ made # <<>>
  BY <1>5 DEF m
<1>6. NoteComesFirst'
  BY <1>2, <1>3, <1>5 DEF NoteComesFirst
<1>7. BatchCools'
  <2> SUFFICES ASSUME NEW p \in Tags!NoteTold'
               PROVE  Cools(batch.now, last[batch.by][p])'
    BY DEF BatchCools
  <2>1. p \in Writers /\ p \in m.to
    BY <1>4, NoteToldBecomes
  <2>2. PICK i \in DOMAIN made : made[i] = m
    BY <2>1 DEF Carries, m
  <2>3. batch'.by = c /\ batch'.now = now
    BY <1>2, <1>3, <1>5, <2>2
  <2>4. Cools(now, last[c][p])
    BY <1>2, <2>1, UncooledIsApart
  <2> QED BY <1>1, <2>3, <2>4 DEF Cools
<1>8. Tags!TagsWereTold'
  <2> SUFFICES ASSUME NEW p \in post'.tags
               PROVE  p \in told' \cup late' \cup lost' \cup Tags!NoteTold'
    BY DEF Tags!TagsWereTold
  <2>1. p \in Tags!NoteTags(c, note, hints) /\ p \in Writers
    BY DEF Tags!NoteTags, Tags!Tagged
  <2>2. CASE p \in newly
    <3>1. CASE p \in Tags!Cooled(c)
      BY <1>1, <3>1, CooledWasTold
    <3>2. CASE p \notin Tags!Cooled(c)
      BY <1>2, <1>4, <2>1, <2>2, <3>2
    <3> QED BY <3>1, <3>2
  <2>3. CASE p \notin newly
    <3>1. p \in late \/ p \notin post.tags => p \in late'
      BY <2>1, <2>3 DEF Tags!NotCountedAnew, newly
    <3>2. ASSUME p \in post.tags PROVE p \in told \cup late \cup lost
      BY <1>1, <3>2, QuietTellsNobody DEF TagsInv, Tags!TagsWereTold
    <3> QED BY <1>1, <3>1, <3>2
  <2> QED BY <2>2, <2>3
<1> QED BY <1>6, <1>7, <1>8

-----------------------------------------------------------------------------
(* The round a post belongs to. *)

LEMMA GreatestIs ==
  ASSUME NEW S, NEW n \in S, S \subseteq Int, \A y \in S : y <= n PROVE Tags!Max(S) = n
<1>1. \A y \in S : n >= y
  OBVIOUS
<1>2. Tags!Max(S) \in S /\ \A y \in S : Tags!Max(S) >= y
  BY <1>1 DEF Tags!Max
<1>3. Tags!Max(S) >= n /\ n >= Tags!Max(S) /\ Tags!Max(S) \in Int /\ n \in Int
  BY <1>1, <1>2
<1> QED BY <1>3

Same(ev) == Tags!Marks(ev)' = Tags!Marks(ev)
Added(ev) == Tags!Marks(ev)' = Tags!Marks(ev) \cup {Len(post.thread) + 1}

LEMMA EntryIsAdded ==
  ASSUME PostsTyped, NEW e \in Entries, post'.thread = Append(post.thread, e)
  PROVE  LET n == Len(post.thread)
         IN  /\ n \in Nat /\ DOMAIN post.thread = 1..n
             /\ DOMAIN post'.thread = 1..(n + 1) /\ Len(post'.thread) = n + 1
             /\ post'.thread[n + 1] = e
             /\ \A i \in 1..n : post'.thread[i] = post.thread[i]
<1>1. post.thread \in Seq(Entries)
  BY DEF PostsTyped, PostRecords
<1> QED BY <1>1

LEMMA MarksAfterEntry ==
  ASSUME PostsTyped, NEW e \in Entries, post'.thread = Append(post.thread, e), NEW ev
  PROVE  /\ Tags!Marks(ev) \subseteq 1..Len(post.thread)
         /\ e.ev = ev => Added(ev)
         /\ e.ev # ev => Same(ev)
<1> DEFINE n == Len(post.thread)
<1>1. /\ n \in Nat /\ DOMAIN post.thread = 1..n
      /\ DOMAIN post'.thread = 1..(n + 1) /\ post'.thread[n + 1] = e
      /\ \A i \in 1..n : post'.thread[i] = post.thread[i]
  BY EntryIsAdded
<1> HIDE DEF n
<1>2. /\ 1..(n + 1) = (1..n) \cup {n + 1} /\ n + 1 \notin 1..n
  BY <1>1
<1>3. Tags!Marks(ev) \subseteq 1..n
  BY <1>1 DEF Tags!Marks
<1>4. Tags!Marks(ev)' = {i \in (1..n) \cup {n + 1} : post'.thread[i].ev = ev}
  BY <1>1, <1>2 DEF Tags!Marks
<1>5. \A i \in 1..n : i \in Tags!Marks(ev)' <=> i \in Tags!Marks(ev)
  BY <1>1, <1>4 DEF Tags!Marks
<1>6. n + 1 \in Tags!Marks(ev)' <=> e.ev = ev
  BY <1>1, <1>4
<1>7. Tags!Marks(ev)' \subseteq (1..n) \cup {n + 1}
  BY <1>4
<1>8. e.ev = ev => Added(ev)
  BY <1>3, <1>5, <1>6, <1>7 DEF Added, n
<1>9. e.ev # ev => Same(ev)
  BY <1>2, <1>3, <1>5, <1>6, <1>7 DEF Same
<1> QED BY <1>3, <1>8, <1>9 DEF n

LEMMA LatestMark ==
  ASSUME NEW n \in Nat, NEW S, S \subseteq 1..n
  PROVE  Tags!Max({0} \cup (S \cup {n + 1})) = n + 1
<1>1. {0} \cup (S \cup {n + 1}) \subseteq Int /\ \A y \in {0} \cup (S \cup {n + 1}) : y <= n + 1
  OBVIOUS
<1>2. n + 1 \in {0} \cup (S \cup {n + 1})
  OBVIOUS
<1> QED BY <1>1, <1>2, GreatestIs

LEMMA RoundGoesOn ==
  ASSUME PostsTyped, RoundIsOpen, post'.thread = post.thread, round' = round,
         post'.state = "none" => post.state = "none"
  PROVE  RoundIsOpen'
<1>1. Tags!LastClose' = Tags!LastClose /\ Tags!LastReopen' = Tags!LastReopen
  BY DEF Tags!LastClose, Tags!LastReopen, Tags!Marks
<1>2. Tags!RoundStart' = Tags!RoundStart
  BY <1>1 DEF Tags!RoundStart
<1> QED BY <1>1, <1>2 DEF RoundIsOpen, TaggedFrom

LEMMA RoundMoves ==
  ASSUME PostsTyped, RoundIsOpen, NEW e \in Entries,
         post'.thread = Append(post.thread, e), post'.state # "none",
         \/ e.ev = "close" /\ round' = {}
         \/ e.ev = "reopen" /\ round' = e.tags
         \/ e.ev = "reply" /\ round' = round \cup e.tags
  PROVE  RoundIsOpen'
<1> DEFINE n == Len(post.thread)
<1>1. /\ n \in Nat /\ DOMAIN post.thread = 1..n
      /\ DOMAIN post'.thread = 1..(n + 1) /\ Len(post'.thread) = n + 1
      /\ post'.thread[n + 1] = e
      /\ \A i \in 1..n : post'.thread[i] = post.thread[i]
  BY EntryIsAdded
<1>2. Tags!LastClose \in 0..n /\ Tags!LastReopen \in 0..n
  BY DEF RoundIsOpen
<1>3. e.ev = "close" => Tags!LastClose' = n + 1
  <2> SUFFICES ASSUME e.ev = "close" PROVE Tags!LastClose' = n + 1
    OBVIOUS
  <2>1. /\ Tags!Marks("close") \subseteq 1..n
        /\ Tags!Marks("close")' = Tags!Marks("close") \cup {n + 1}
    BY MarksAfterEntry DEF Added
  <2> HIDE DEF n
  <2>2. PICK S : S = Tags!Marks("close")
    OBVIOUS
  <2>3. Tags!Max({0} \cup (S \cup {n + 1})) = n + 1
    BY <1>1, <2>1, <2>2, LatestMark
  <2> QED BY <2>1, <2>2, <2>3 DEF Tags!LastClose
<1>4. e.ev # "close" => Tags!LastClose' = Tags!LastClose
  BY MarksAfterEntry DEF Tags!LastClose, Same
<1>5. e.ev = "reopen" => Tags!LastReopen' = n + 1
  <2> SUFFICES ASSUME e.ev = "reopen" PROVE Tags!LastReopen' = n + 1
    OBVIOUS
  <2>1. /\ Tags!Marks("reopen") \subseteq 1..n
        /\ Tags!Marks("reopen")' = Tags!Marks("reopen") \cup {n + 1}
    BY MarksAfterEntry DEF Added
  <2> HIDE DEF n
  <2>2. PICK S : S = Tags!Marks("reopen")
    OBVIOUS
  <2>3. Tags!Max({0} \cup (S \cup {n + 1})) = n + 1
    BY <1>1, <2>1, <2>2, LatestMark
  <2> QED BY <2>1, <2>2, <2>3 DEF Tags!LastReopen
<1>6. e.ev # "reopen" => Tags!LastReopen' = Tags!LastReopen
  BY MarksAfterEntry DEF Tags!LastReopen, Same
<1> HIDE DEF n
<1> DEFINE start == Tags!RoundStart'
<1>7. Tags!LastClose' \in 0..(n + 1) /\ Tags!LastReopen' \in 0..(n + 1)
  BY <1>1, <1>2, <1>3, <1>4, <1>5, <1>6
<1>8. TaggedFrom(Tags!RoundStart)' =
        UNION {post'.thread[i].tags : i \in {j \in 1..(n + 1) : j >= start}}
  BY <1>1 DEF TaggedFrom
<1>9. TaggedFrom(Tags!RoundStart)' = round'
  <2>1. CASE e.ev = "close" /\ round' = {}
    <3>1. start = n + 2
      BY <1>1, <1>2, <1>3, <1>6, <2>1 DEF Tags!RoundStart
    <3> HIDE DEF start
    <3>2. {j \in 1..(n + 1) : j >= start} = {}
      BY <1>1, <3>1
    <3> QED BY <1>8, <2>1, <3>2
  <2>2. CASE e.ev = "reopen" /\ round' = e.tags
    <3>1. start = n + 1
      BY <1>1, <1>2, <1>4, <1>5, <2>2 DEF Tags!RoundStart
    <3> HIDE DEF start
    <3>2. {j \in 1..(n + 1) : j >= start} = {n + 1}
      BY <1>1, <3>1
    <3> QED BY <1>1, <1>8, <2>2, <3>2
  <2>3. CASE e.ev = "reply" /\ round' = round \cup e.tags
    <3>1. start = Tags!RoundStart /\ start \in 0..(n + 1)
      BY <1>1, <1>2, <1>4, <1>6, <2>3 DEF Tags!RoundStart
    <3>2. UNION {post.thread[i].tags : i \in {j \in 1..n : j >= start}} = round
      BY <1>1, <3>1 DEF RoundIsOpen, TaggedFrom
    <3> HIDE DEF start
    <3>3. {j \in 1..(n + 1) : j >= start} = {j \in 1..n : j >= start} \cup {n + 1}
      BY <1>1, <3>1
    <3>4. \A i \in {j \in 1..n : j >= start} : post'.thread[i] = post.thread[i]
      BY <1>1
    <3> QED BY <1>1, <1>8, <2>3, <3>2, <3>3, <3>4
  <2> QED BY <2>1, <2>2, <2>3
<1> QED BY <1>1, <1>7, <1>9 DEF RoundIsOpen

-----------------------------------------------------------------------------
(* The posts. *)

(* A post that is no save of the note keeps the invariant. *)
LEMMA OtherPostKeeps ==
  ASSUME NEW k, NEW c \in Tags!Clients, NEW made, NEW involved, NEW R,
         R \subseteq Mentions, Carries(made, R), Tags!Queue(k, c, made, involved),
         TagsInv, Tags!Post(c), RoundIsOpen', post' \in PostRecords,
         post'.tags = post.tags, late' = late, EachOnce(made), k # "note",
         \A r \in R : c \notin r.to /\ ~TellsOfNote(r),
         k = "reply" => \A p \in Writers \ {c} : p \in involved <=> \E r \in R : p \in r.to
  PROVE  TagsInv'
<1>1. PostsTyped' /\ LogIsNewest' /\ LogTold' /\ LastIsLogged'
  BY PostKeeps DEF Tags!Queue
<1>2. NoteComesFirst' /\ BatchCools' /\ Tags!TagsWereTold'
  BY OtherPost DEF Tags!Queue
<1>3. now \in Int
  BY DEF TagsInv, PostsTyped
<1>4. Tags!PostReachesEachOnce'
  BY <1>3, ReachesOnce DEF Tags!Queue
<1> QED BY <1>1, <1>2, <1>4 DEF TagsInv

(* A save of the note keeps it. *)
LEMMA SaveKeeps ==
  ASSUME NEW c \in Tags!Clients, NEW made, NEW R,
         R \subseteq Mentions, Carries(made, R), Tags!Queue("note", c, made, {}),
         \A r \in R : c \notin r.to,
         NEW note, NEW hints, Tags!NoteMention(c, note, hints) \in R,
         \A i \in DOMAIN made :
           TellsOfNote(made[i]) => i = 1 /\ made[i] = Tags!NoteMention(c, note, hints),
         KindsApart(made), TagsInv, Tags!Post(c), RoundIsOpen', post' \in PostRecords,
         post'.tags = Tags!NoteTags(c, note, hints),
         late' = Tags!NotCountedAnew(c, note, hints)
  PROVE  TagsInv'
<1>1. PostsTyped' /\ LogIsNewest' /\ LogTold' /\ LastIsLogged'
  BY PostKeeps DEF Tags!Queue
<1>2. NoteComesFirst' /\ BatchCools' /\ Tags!TagsWereTold'
  BY SavedNote DEF Tags!Queue
<1>3. now \in Int
  BY DEF TagsInv, PostsTyped
<1>4. Tags!PostReachesEachOnce'
  BY <1>3, ReachesOnce DEF Tags!Queue
<1> QED BY <1>1, <1>2, <1>4 DEF TagsInv

(* The note's mention is the first row of its batch. *)
LEMMA NoteLeads ==
  ASSUME NEW m, NEW h, TellsOfNote(m), h.type = "assigned"
  PROVE  LET made == Tags!Notice(m) \o Tags!Notice(h)
         IN  /\ \A i \in DOMAIN made : TellsOfNote(made[i]) => i = 1 /\ made[i] = m
             /\ KindsApart(made)
<1>1. /\ DOMAIN <<>> = {} /\ DOMAIN <<m>> = {1} /\ DOMAIN <<h>> = {1} /\ <<m>>[1] = m /\ <<h>>[1] = h
      /\ DOMAIN <<m, h>> = {1, 2} /\ <<m, h>>[1] = m /\ <<m, h>>[2] = h
      /\ <<>> \o <<>> = <<>> /\ <<m>> \o <<>> = <<m>> /\ <<>> \o <<h>> = <<h>>
      /\ <<m>> \o <<h>> = <<m, h>>
  <2>1. <<m>> \in Seq({m}) /\ <<h>> \in Seq({h}) /\ <<>> \in Seq({m})
    BY EmptySeq
  <2>2. <<m>> \o <<>> = <<m>> /\ <<>> \o <<h>> = <<h>> /\ <<>> \o <<>> = <<>>
    BY <2>1, ConcatEmptySeq
  <2>3. <<m>> \o <<h>> = <<m, h>>
    <3> DEFINE S == {m, h}
               both == <<m>> \o <<h>>
    <3>1. <<m>> \in Seq(S) /\ <<h>> \in Seq(S) /\ <<m, h>> \in Seq(S)
          /\ Len(<<m>>) = 1 /\ Len(<<h>>) = 1 /\ Len(<<m, h>>) = 2
      OBVIOUS
    <3>2. both \in Seq(S) /\ Len(both) = 2 /\ both[1] = m /\ both[2] = h
      BY <3>1, ConcatProperties
    <3>3. \A i \in 1..2 : i = 1 \/ i = 2
      OBVIOUS
    <3> HIDE DEF both, S
    <3>4. \A i \in 1..2 : both[i] = <<m, h>>[i]
      BY <3>2, <3>3
    <3> QED BY <3>1, <3>2, <3>4, SeqEqual DEF both
  <2> QED BY <2>2, <2>3
<1>2. Tags!Notice(m) \in {<<>>, <<m>>} /\ Tags!Notice(h) \in {<<>>, <<h>>}
  BY DEF Tags!Notice
<1>3. m.type = "mention" /\ ~TellsOfNote(h)
  BY DEF TellsOfNote
<1>4. Tags!Notice(m) \o Tags!Notice(h) \in {<<>>, <<m>>, <<h>>, <<m, h>>}
  BY <1>1, <1>2
<1>5. \A made \in {<<>>, <<m>>, <<h>>, <<m, h>>} : \A i \in DOMAIN made :
        TellsOfNote(made[i]) => i = 1 /\ made[i] = m
  BY <1>1, <1>3
<1>6. \A made \in {<<>>, <<m>>, <<h>>, <<m, h>>} : KindsApart(made)
  BY <1>1, <1>3 DEF KindsApart
<1> QED BY <1>4, <1>5, <1>6

LEMMA HandedIs ==
  ASSUME TagsInv, NEW c \in Tags!Clients, NEW a \in Writers \cup {Agent, Nobody}
  PROVE  LET h == Tags!Handed(c, a)
         IN  h \in Mentions /\ c \notin h.to /\ ~TellsOfNote(h) /\ h.type = "assigned"
<1> DEFINE to == {a} \ {Nobody, post.assignee}
<1>1. to \subseteq Writers \cup {Agent, Nobody} /\ "assigned" \in NoticeTypes
  BY DEF NoticeTypes
<1>2. "assigned" # "mention"
  OBVIOUS
<1> HIDE DEF to
<1>3. Reaches(Tags!Row("assigned", TRUE, FALSE, c, to), c, to)
      /\ ~TellsOfNote(Tags!Row("assigned", TRUE, FALSE, c, to))
  BY <1>1, <1>2, RowIsMention
<1>4. Tags!Row("assigned", TRUE, FALSE, c, to).type = "assigned"
  BY DEF Tags!Row
<1> QED BY <1>3, <1>4 DEF Tags!Handed, Reaches, to

LEMMA NoteTagsArePeople ==
  ASSUME NEW c, NEW note, NEW hints PROVE Tags!NoteTags(c, note, hints) \subseteq Writers
BY DEF Tags!NoteTags, Tags!Tagged

LEMMA AddKeeps ==
  ASSUME TagsInv, NEW c \in Tags!Clients, NEW note \in Tags!Counts, NEW hints,
         NEW a \in Writers \cup {Agent, Nobody}, NEW q \in BOOLEAN,
         Tags!Add(c, note, hints, a, q)
  PROVE  TagsInv'
<1> DEFINE m == Tags!NoteMention(c, note, hints)
           h == Tags!Handed(c, a)
<1>1. m \in Mentions /\ h \in Mentions /\ c \notin m.to /\ c \notin h.to
      /\ TellsOfNote(m) /\ h.type = "assigned"
  BY NoteMentionIs, HandedIs
<1> HIDE DEF m, h
<1>2. PICK made : made = Tags!Notice(m) \o Tags!Notice(h)
  OBVIOUS
<1>3. Carries(made, {m, h})
  <2>1. Carries(Tags!Notice(m), {m})
    BY OneNotice
  <2>2. Carries(made, {m} \cup {h})
    BY <1>2, <2>1, OneMoreNotice
  <2>3. {m} \cup {h} = {m, h}
    OBVIOUS
  <2> QED BY <2>2, <2>3
<1>4. /\ \A i \in DOMAIN made : TellsOfNote(made[i]) => i = 1 /\ made[i] = m
      /\ KindsApart(made)
  BY <1>1, <1>2, NoteLeads
<1>5. Tags!Queue("note", c, made, {}) /\ Tags!Post(c)
  BY <1>2 DEF Tags!Add, Tags!Queue, m, h
<1>6. post' = [state |-> "open", author |-> c, question |-> q, assignee |-> a, note |-> note,
               tags |-> Tags!NoteTags(c, note, hints), thread |-> <<>>]
      /\ late' = Tags!NotCountedAnew(c, note, hints) /\ round' = round
      /\ post.state = "none"
  BY DEF Tags!Add
<1>7. post' \in PostRecords /\ post'.tags = Tags!NoteTags(c, note, hints)
  <2>1. <<>> \in Seq(Entries)
    BY EmptySeq
  <2> QED BY <1>6, <2>1, NoteTagsArePeople DEF PostRecords
<1>8. RoundIsOpen'
  <2>1. post'.thread = post.thread /\ PostsTyped /\ RoundIsOpen
    BY <1>6 DEF TagsInv, RoundIsOpen
  <2> QED BY <1>6, <2>1, RoundGoesOn
<1>9. \A r \in {m, h} : c \notin r.to /\ r \in Mentions
  BY <1>1
<1> QED BY <1>3, <1>4, <1>5, <1>6, <1>7, <1>8, <1>9, SaveKeeps DEF Tags!Queue, m

LEMMA EditKeeps ==
  ASSUME TagsInv, NEW c \in Tags!Clients, NEW note \in Tags!Counts, NEW hints,
         NEW a \in Writers \cup {Agent, Nobody}, Tags!EditNote(c, note, hints, a)
  PROVE  TagsInv'
<1> DEFINE m == Tags!NoteMention(c, note, hints)
           h == Tags!Handed(c, a)
<1>1. m \in Mentions /\ h \in Mentions /\ c \notin m.to /\ c \notin h.to
      /\ TellsOfNote(m) /\ h.type = "assigned"
  BY NoteMentionIs, HandedIs
<1> HIDE DEF m, h
<1>2. PICK made : made = Tags!Notice(m) \o Tags!Notice(h)
  OBVIOUS
<1>3. Carries(made, {m, h})
  <2>1. Carries(Tags!Notice(m), {m})
    BY OneNotice
  <2>2. Carries(made, {m} \cup {h})
    BY <1>2, <2>1, OneMoreNotice
  <2>3. {m} \cup {h} = {m, h}
    OBVIOUS
  <2> QED BY <2>2, <2>3
<1>4. /\ \A i \in DOMAIN made : TellsOfNote(made[i]) => i = 1 /\ made[i] = m
      /\ KindsApart(made)
  BY <1>1, <1>2, NoteLeads
<1>5. Tags!Queue("note", c, made, {}) /\ Tags!Post(c)
  BY <1>2 DEF Tags!EditNote, Tags!Queue, m, h
<1>6. post' = [post EXCEPT !.note = note, !.tags = Tags!NoteTags(c, note, hints), !.assignee = a]
      /\ late' = Tags!NotCountedAnew(c, note, hints) /\ round' = round
  BY DEF Tags!EditNote
<1>7. post' \in PostRecords /\ post'.tags = Tags!NoteTags(c, note, hints)
      /\ post'.thread = post.thread /\ post'.state = post.state
  BY <1>6, NoteTagsArePeople DEF PostRecords, TagsInv, PostsTyped
<1>8. RoundIsOpen'
  BY <1>6, <1>7, RoundGoesOn DEF TagsInv
<1>9. \A r \in {m, h} : c \notin r.to /\ r \in Mentions
  BY <1>1
<1> QED BY <1>3, <1>4, <1>5, <1>6, <1>7, <1>8, <1>9, SaveKeeps DEF Tags!Queue, m

LEMMA AssignKeeps ==
  ASSUME TagsInv, NEW c \in Tags!Clients, NEW a \in Writers \cup {Agent, Nobody},
         Tags!Assign(c, a)
  PROVE  TagsInv'
<1> DEFINE h == Tags!Handed(c, a)
<1>1. h \in Mentions /\ c \notin h.to /\ ~TellsOfNote(h)
  BY HandedIs
<1> HIDE DEF h
<1>2. PICK made : made = Tags!Notice(h)
  OBVIOUS
<1>3. Carries(made, {h}) /\ EachOnce(made)
  BY <1>2, OneNotice
<1>4. Tags!Queue("assign", c, made, {}) /\ Tags!Post(c)
  BY <1>2 DEF Tags!Assign, Tags!Queue, h
<1>5. post' = [post EXCEPT !.assignee = a] /\ late' = late /\ round' = round
  BY DEF Tags!Assign
<1>6. post' \in PostRecords /\ post'.tags = post.tags
      /\ post'.thread = post.thread /\ post'.state = post.state
  BY <1>5 DEF PostRecords, TagsInv, PostsTyped
<1>7. RoundIsOpen'
  BY <1>5, <1>6, RoundGoesOn DEF TagsInv
<1>8. {h} \subseteq Mentions /\ \A r \in {h} : c \notin r.to /\ ~TellsOfNote(r)
  BY <1>1
<1> QED BY <1>3, <1>4, <1>5, <1>6, <1>7, <1>8, OtherPostKeeps DEF Tags!Queue

LEMMA ElsewhereKeeps ==
  ASSUME TagsInv, NEW c \in Tags!Clients, NEW p \in Writers, Tags!Elsewhere(c, p)
  PROVE  TagsInv'
<1> DEFINE r == Tags!Row("mention", FALSE, FALSE, c, {p})
<1>1. r \in Mentions /\ c \notin r.to /\ ~TellsOfNote(r)
  <2>1. "mention" \in NoticeTypes /\ {p} \subseteq Writers \cup {Agent, Nobody}
    BY DEF NoticeTypes
  <2>2. Reaches(r, c, {p}) /\ ~TellsOfNote(r)
    BY <2>1, RowIsMention
  <2> QED BY <2>2 DEF Reaches
<1> HIDE DEF r
<1>2. PICK made : made = Tags!Notice(r)
  OBVIOUS
<1>3. Carries(made, {r}) /\ EachOnce(made)
  BY <1>2, OneNotice
<1>4. Tags!Queue("other", c, made, {}) /\ Tags!Post(c)
  BY <1>2 DEF Tags!Elsewhere, Tags!Queue, r
<1>5. post' = post /\ late' = late /\ round' = round
  BY DEF Tags!Elsewhere
<1>6. post' \in PostRecords /\ PostsTyped /\ RoundIsOpen
  BY <1>5 DEF TagsInv, PostsTyped
<1>7. RoundIsOpen'
  BY <1>5, <1>6, RoundGoesOn
<1>8. {r} \subseteq Mentions /\ \A s \in {r} : c \notin s.to /\ ~TellsOfNote(s)
  BY <1>1
<1> QED BY <1>3, <1>4, <1>5, <1>6, <1>7, <1>8, OtherPostKeeps DEF Tags!Queue

(* A message on the thread: who hears of it. *)
LEMMA MessageIs ==
  ASSUME NEW type \in NoticeTypes, NEW c \in Tags!Clients, NEW to,
         to \subseteq Writers \cup {Agent, Nobody}
  PROVE  LET r == Tags!Row(type, TRUE, TRUE, c, to)
         IN  /\ r \in Mentions /\ c \notin r.to /\ ~TellsOfNote(r)
             /\ r.to = to \ {c, Agent, Nobody}
<1>1. /\ Reaches(Tags!Row(type, TRUE, TRUE, c, to), c, to)
      /\ ~TellsOfNote(Tags!Row(type, TRUE, TRUE, c, to))
  BY RowIsMention
<1> QED BY <1>1 DEF Reaches

LEMMA WhoIsThere ==
  ASSUME TagsInv
  PROVE  /\ post.author \in Writers \cup {Agent, Nobody}
         /\ post.tags \subseteq Writers /\ Tags!AllMentions \subseteq Writers
<1>1. post \in PostRecords
  BY DEF TagsInv, PostsTyped
<1>2. post.author \in Writers \cup {Agent, Nobody} /\ post.tags \subseteq Writers
      /\ post.thread \in Seq(Entries)
  BY <1>1 DEF PostRecords, Tags!Clients
<1>3. \A i \in DOMAIN post.thread : post.thread[i].tags \subseteq Writers
  <2>1. \A i \in DOMAIN post.thread : post.thread[i] \in Entries
    BY <1>2
  <2> QED BY <2>1 DEF Entries
<1> QED BY <1>2, <1>3 DEF Tags!AllMentions, Tags!TagsFrom

(* The pin after an entry. *)
LEMMA EntryIsTyped ==
  ASSUME TagsInv, NEW e \in Entries, NEW s \in {"none", "open", "review", "done"},
         \/ post' = [post EXCEPT !.thread = Append(post.thread, e)]
         \/ post' = [post EXCEPT !.state = s, !.thread = Append(post.thread, e)]
  PROVE  /\ post' \in PostRecords /\ post'.tags = post.tags
         /\ post'.thread = Append(post.thread, e)
         /\ post'.state \in {s, post.state}
<1>1. post \in PostRecords
  BY DEF TagsInv, PostsTyped
<1>2. Append(post.thread, e) \in Seq(Entries)
  BY <1>1 DEF PostRecords
<1> QED BY <1>1, <1>2 DEF PostRecords

LEMMA CloseKeeps ==
  ASSUME TagsInv, NEW c \in Tags!Clients, NEW review \in BOOLEAN, Tags!Close(c, review)
  PROVE  TagsInv'
<1> DEFINE r == Tags!Row("review_requested", TRUE, TRUE, c, {post.author})
           e == [ev |-> "close", tags |-> {}]
<1>1. r \in Mentions /\ c \notin r.to /\ ~TellsOfNote(r)
  <2>1. "review_requested" \in NoticeTypes /\ {post.author} \subseteq Writers \cup {Agent, Nobody}
    BY WhoIsThere DEF NoticeTypes
  <2> QED BY <2>1, MessageIs
<1> HIDE DEF r
<1>2. PICK made : made = IF review THEN Tags!Notice(r) ELSE <<>>
  OBVIOUS
<1>3. \E R : R \subseteq {r} /\ Carries(made, R) /\ EachOnce(made)
  <2>1. CASE review
    BY <1>2, <2>1, OneNotice
  <2>2. CASE ~review
    BY <1>2, <2>2, NoNotice
  <2> QED BY <2>1, <2>2
<1>4. PICK R : R \subseteq {r} /\ Carries(made, R) /\ EachOnce(made)
  BY <1>3
<1>5. Tags!Queue("close", c, made, {}) /\ Tags!Post(c)
  BY <1>2 DEF Tags!Close, Tags!Queue, r
<1>6. PICK s \in {"review", "done"} :
        post' = [post EXCEPT !.state = s, !.thread = Append(post.thread, e)]
  BY DEF Tags!Close, Tags!Entry
<1>7. e \in Entries /\ e.ev = "close"
  BY DEF Entries
<1>8. late' = late /\ round' = {}
  BY DEF Tags!Close
<1> HIDE DEF e
<1>9. /\ post' \in PostRecords /\ post'.tags = post.tags
      /\ post'.thread = Append(post.thread, e) /\ post'.state # "none"
  <2>1. /\ post' \in PostRecords /\ post'.tags = post.tags
        /\ post'.thread = Append(post.thread, e) /\ post'.state \in {s, post.state}
    BY <1>6, <1>7, EntryIsTyped
  <2>2. post.state = "open"
    BY DEF Tags!Close
  <2> QED BY <1>6, <2>1, <2>2
<1>10. RoundIsOpen'
  BY <1>7, <1>8, <1>9, RoundMoves DEF TagsInv
<1>11. R \subseteq Mentions /\ \A q \in R : c \notin q.to /\ ~TellsOfNote(q)
  BY <1>1, <1>4
<1> QED BY <1>4, <1>5, <1>8, <1>9, <1>10, <1>11, OtherPostKeeps DEF Tags!Queue

(* Whom a reopening tells: those it tags, and else the author. *)
LEMMA ReopeningTells ==
  ASSUME TagsInv, NEW c \in Tags!Clients, NEW T \in SUBSET Writers
  PROVE  LET m == Tags!Row("mention", TRUE, TRUE, c, T)
             r == Tags!Row("reopened", TRUE, TRUE, c, {post.author} \ T)
         IN  /\ m \in Mentions /\ c \notin m.to /\ ~TellsOfNote(m)
             /\ r \in Mentions /\ c \notin r.to /\ ~TellsOfNote(r)
             /\ m.to = T \ {c, Agent, Nobody}
             /\ r.to = ({post.author} \ T) \ {c, Agent, Nobody}
             /\ Carries(Tags!ReopenNotices(c, T), {m, r})
             /\ EachOnce(Tags!ReopenNotices(c, T))
<1> DEFINE m == Tags!Row("mention", TRUE, TRUE, c, T)
           r == Tags!Row("reopened", TRUE, TRUE, c, {post.author} \ T)
<1>1. m \in Mentions /\ c \notin m.to /\ ~TellsOfNote(m) /\ m.to = T \ {c, Agent, Nobody}
  <2>1. "mention" \in NoticeTypes /\ T \subseteq Writers \cup {Agent, Nobody}
    BY DEF NoticeTypes
  <2> QED BY <2>1, MessageIs
<1>2. /\ r \in Mentions /\ c \notin r.to /\ ~TellsOfNote(r)
      /\ r.to = ({post.author} \ T) \ {c, Agent, Nobody}
  <2> DEFINE to == {post.author} \ T
  <2>1. "reopened" \in NoticeTypes /\ to \subseteq Writers \cup {Agent, Nobody}
    BY WhoIsThere DEF NoticeTypes
  <2>2. r = Tags!Row("reopened", TRUE, TRUE, c, to)
    OBVIOUS
  <2> HIDE DEF to, r
  <2>3. /\ r \in Mentions /\ c \notin r.to /\ ~TellsOfNote(r)
        /\ r.to = to \ {c, Agent, Nobody}
    BY <2>1, <2>2, MessageIs
  <2> QED BY <2>3 DEF to
<1>3. Tags!ReopenNotices(c, T) = Tags!Notice(m) \o Tags!Notice(r)
  BY DEF Tags!ReopenNotices
<1> HIDE DEF m, r
<1>4. Carries(Tags!Notice(m), {m}) /\ EachOnce(Tags!Notice(m))
  BY OneNotice
<1>5. \A q \in {m} : q.to \cap r.to = {}
  BY <1>1, <1>2
<1>6. /\ Carries(Tags!Notice(m) \o Tags!Notice(r), {m} \cup {r})
      /\ EachOnce(Tags!Notice(m) \o Tags!Notice(r))
  BY <1>4, <1>5, OneMoreNotice
<1>7. {m} \cup {r} = {m, r}
  OBVIOUS
<1>8. Carries(Tags!ReopenNotices(c, T), {m, r}) /\ EachOnce(Tags!ReopenNotices(c, T))
  BY <1>3, <1>6, <1>7
<1> QED BY <1>1, <1>2, <1>8 DEF m, r

LEMMA ReopenKeeps ==
  ASSUME TagsInv, NEW c \in Tags!Clients, NEW text, NEW hints, Tags!Reopen(c, text, hints)
  PROVE  TagsInv'
<1> DEFINE T == Tags!Tagged(text, hints, c)
           e == [ev |-> "reopen", tags |-> T]
           m == Tags!Row("mention", TRUE, TRUE, c, T)
           r == Tags!Row("reopened", TRUE, TRUE, c, {post.author} \ T)
<1>1. T \in SUBSET Writers
  BY DEF Tags!Tagged
<1>2. /\ post' = [post EXCEPT !.state = "open", !.thread = Append(post.thread, e)]
      /\ round' = T /\ late' = late /\ Tags!Post(c)
      /\ Tags!Queue("reopen", c, Tags!ReopenNotices(c, T), {})
  BY DEF Tags!Reopen, Tags!Reopened, Tags!Entry
<1>3. e \in Entries /\ e.ev = "reopen" /\ e.tags = T
  BY <1>1 DEF Entries
<1> HIDE DEF T, e
<1>4. /\ m \in Mentions /\ c \notin m.to /\ ~TellsOfNote(m)
      /\ r \in Mentions /\ c \notin r.to /\ ~TellsOfNote(r)
      /\ Carries(Tags!ReopenNotices(c, T), {m, r})
      /\ EachOnce(Tags!ReopenNotices(c, T))
  BY <1>1, ReopeningTells
<1> HIDE DEF m, r
<1>5. PICK made : made = Tags!ReopenNotices(c, T)
  OBVIOUS
<1>6. Tags!Queue("reopen", c, made, {})
  BY <1>2, <1>5 DEF Tags!Queue
<1>7. /\ post' \in PostRecords /\ post'.tags = post.tags
      /\ post'.thread = Append(post.thread, e) /\ post'.state # "none"
  <2>1. /\ post' \in PostRecords /\ post'.tags = post.tags
        /\ post'.thread = Append(post.thread, e) /\ post'.state \in {"open", post.state}
    BY <1>2, <1>3, EntryIsTyped
  <2>2. post.state \in {"review", "done"}
    BY DEF Tags!Reopen
  <2> QED BY <2>1, <2>2
<1>8. RoundIsOpen'
  BY <1>2, <1>3, <1>7, RoundMoves DEF TagsInv
<1>9. {m, r} \subseteq Mentions /\ \A q \in {m, r} : c \notin q.to /\ ~TellsOfNote(q)
  BY <1>4
<1>10. Carries(made, {m, r}) /\ EachOnce(made)
  BY <1>4, <1>5
<1>11. late' = late /\ Tags!Post(c) /\ post'.tags = post.tags /\ post' \in PostRecords
  BY <1>2, <1>7
<1> QED BY <1>6, <1>8, <1>9, <1>10, <1>11, OtherPostKeeps DEF Tags!Queue

(* A reply tells those it tags, the author and everyone tagged before, each *)
(* with one notice.                                                         *)
LEMMA ReplyKeeps ==
  ASSUME TagsInv, NEW c \in Tags!Clients, NEW text, NEW hints, NEW asked,
         Tags!Reply(c, text, hints, asked)
  PROVE  TagsInv'
<1> DEFINE T == Tags!Tagged(text, hints, c)
           all == Tags!AllMentions
           involved0 == {post.author} \cup all \cup T
<1>1. T \in SUBSET Writers /\ all \in SUBSET Writers
      /\ post.author \in Writers \cup {Agent, Nobody}
  BY WhoIsThere DEF Tags!Tagged
<1>2. /\ Tags!ReplyTagging(c, T, asked) /\ late' = late /\ Tags!Post(c)
      /\ post.state # "none"
  BY DEF Tags!Reply
<1> HIDE DEF T, all
<1>3. PICK involved : involved = involved0
  OBVIOUS
<1>4. CASE Tags!ReopensOnReply(c, T, asked)
  <2> DEFINE e == [ev |-> "reopen", tags |-> T]
             m == Tags!Row("mention", TRUE, TRUE, c, T)
             r == Tags!Row("reopened", TRUE, TRUE, c, {post.author} \ T)
             to == all \ ({post.author} \cup T)
             s == Tags!Row("replied", TRUE, TRUE, c, to)
  <2>1. e \in Entries /\ e.ev = "reopen" /\ e.tags = T
    BY <1>1 DEF Entries
  <2>2. /\ m \in Mentions /\ c \notin m.to /\ ~TellsOfNote(m) /\ m.to = T \ {c, Agent, Nobody}
        /\ r \in Mentions /\ c \notin r.to /\ ~TellsOfNote(r)
        /\ r.to = ({post.author} \ T) \ {c, Agent, Nobody}
        /\ Carries(Tags!ReopenNotices(c, T), {m, r})
        /\ EachOnce(Tags!ReopenNotices(c, T))
    BY <1>1, ReopeningTells
  <2>3. s \in Mentions /\ c \notin s.to /\ ~TellsOfNote(s) /\ s.to = to \ {c, Agent, Nobody}
    <3>1. to \subseteq Writers \cup {Agent, Nobody} /\ "replied" \in NoticeTypes
      BY <1>1 DEF NoticeTypes
    <3> HIDE DEF to
    <3> QED BY <3>1, MessageIs
  <2>4. /\ post' = [post EXCEPT !.state = "open", !.thread = Append(post.thread, e)]
        /\ round' = T
        /\ Tags!Queue("reply", c, Tags!ReopenNotices(c, T) \o Tags!Notice(s), involved0)
    BY <1>2, <1>4 DEF Tags!ReplyTagging, Tags!Reopened, Tags!Entry, all
  <2> HIDE DEF e, m, r, s
  <2>5. \A q \in {m, r} : q.to \cap s.to = {}
    BY <2>2, <2>3
  <2>6. PICK made : made = Tags!ReopenNotices(c, T) \o Tags!Notice(s)
    OBVIOUS
  <2>7. Carries(made, {m, r} \cup {s}) /\ EachOnce(made)
    <3>1. PICK front : front = Tags!ReopenNotices(c, T)
      OBVIOUS
    <3>2. Carries(front, {m, r}) /\ EachOnce(front)
      BY <2>2, <3>1
    <3>3. Carries(front \o Tags!Notice(s), {m, r} \cup {s}) /\ EachOnce(front \o Tags!Notice(s))
      BY <2>5, <3>2, OneMoreNotice
    <3> QED BY <2>6, <3>1, <3>3
  <2>8. Tags!Queue("reply", c, made, involved)
    BY <1>3, <2>4, <2>6 DEF Tags!Queue
  <2>9. /\ post' \in PostRecords /\ post'.tags = post.tags
        /\ post'.thread = Append(post.thread, e) /\ post'.state # "none"
    <3>1. /\ post' \in PostRecords /\ post'.tags = post.tags
          /\ post'.thread = Append(post.thread, e) /\ post'.state \in {"open", post.state}
      BY <2>1, <2>4, EntryIsTyped
    <3> QED BY <1>2, <3>1
  <2>10. RoundIsOpen'
    BY <2>1, <2>4, <2>9, RoundMoves DEF TagsInv
  <2>11. PICK R : R = {m, r} \cup {s}
    OBVIOUS
  <2>12. /\ R \subseteq Mentions /\ \A q \in R : c \notin q.to /\ ~TellsOfNote(q)
         /\ \A p : (\E q \in R : p \in q.to) <=> p \in m.to \cup r.to \cup s.to
    BY <2>2, <2>3, <2>11
  <2>13. \A p \in Writers \ {c} : p \in involved <=> \E q \in R : p \in q.to
    <3>1. m.to \cup r.to \cup s.to = involved0 \ {c, Agent, Nobody}
      BY <2>2, <2>3
    <3> QED BY <1>3, <2>12, <3>1, TagsAssumption
  <2>14. Carries(made, R) /\ EachOnce(made) /\ late' = late /\ Tags!Post(c)
         /\ post'.tags = post.tags /\ post' \in PostRecords
    BY <1>2, <2>7, <2>9, <2>11
  <2>15. R \subseteq Mentions /\ \A q \in R : c \notin q.to /\ ~TellsOfNote(q)
    BY <2>12
  <2> QED BY <2>8, <2>10, <2>13, <2>14, <2>15, OtherPostKeeps DEF Tags!Queue
<1>5. CASE ~Tags!ReopensOnReply(c, T, asked)
  <2> DEFINE e == [ev |-> "reply", tags |-> T]
             m == Tags!Row("mention", TRUE, TRUE, c, T)
             to == ({post.author} \cup all) \ T
             s == Tags!Row("replied", TRUE, TRUE, c, to)
  <2>1. e \in Entries /\ e.ev = "reply" /\ e.tags = T
    BY <1>1 DEF Entries
  <2>2. m \in Mentions /\ c \notin m.to /\ ~TellsOfNote(m) /\ m.to = T \ {c, Agent, Nobody}
    <3>1. T \subseteq Writers \cup {Agent, Nobody} /\ "mention" \in NoticeTypes
      BY <1>1 DEF NoticeTypes
    <3> QED BY <3>1, MessageIs
  <2>3. s \in Mentions /\ c \notin s.to /\ ~TellsOfNote(s) /\ s.to = to \ {c, Agent, Nobody}
    <3>1. to \subseteq Writers \cup {Agent, Nobody} /\ "replied" \in NoticeTypes
      BY <1>1 DEF NoticeTypes
    <3> HIDE DEF to
    <3> QED BY <3>1, MessageIs
  <2>4. /\ post' = [post EXCEPT !.thread = Append(post.thread, e)]
        /\ round' = round \cup T
        /\ Tags!Queue("reply", c, Tags!Notice(m) \o Tags!Notice(s), involved0)
    BY <1>2, <1>5 DEF Tags!ReplyTagging, Tags!RepliedTo, Tags!Entry, all
  <2> HIDE DEF e, m, s
  <2>5. \A q \in {m} : q.to \cap s.to = {}
    BY <2>2, <2>3
  <2>6. PICK made : made = Tags!Notice(m) \o Tags!Notice(s)
    OBVIOUS
  <2>7. Carries(made, {m} \cup {s}) /\ EachOnce(made)
    <3>1. Carries(Tags!Notice(m), {m}) /\ EachOnce(Tags!Notice(m))
      BY OneNotice
    <3>2. /\ Carries(Tags!Notice(m) \o Tags!Notice(s), {m} \cup {s})
          /\ EachOnce(Tags!Notice(m) \o Tags!Notice(s))
      BY <2>5, <3>1, OneMoreNotice
    <3> QED BY <2>6, <3>2
  <2>8. Tags!Queue("reply", c, made, involved)
    BY <1>3, <2>4, <2>6 DEF Tags!Queue
  <2>9. /\ post' \in PostRecords /\ post'.tags = post.tags
        /\ post'.thread = Append(post.thread, e) /\ post'.state # "none"
    <3>1. /\ post' \in PostRecords /\ post'.tags = post.tags
          /\ post'.thread = Append(post.thread, e) /\ post'.state \in {"open", post.state}
      BY <2>1, <2>4, EntryIsTyped
    <3> QED BY <1>2, <3>1
  <2>10. RoundIsOpen'
    BY <2>1, <2>4, <2>9, RoundMoves DEF TagsInv
  <2>11. PICK R : R = {m} \cup {s}
    OBVIOUS
  <2>12. /\ R \subseteq Mentions /\ \A q \in R : c \notin q.to /\ ~TellsOfNote(q)
         /\ \A p : (\E q \in R : p \in q.to) <=> p \in m.to \cup s.to
    BY <2>2, <2>3, <2>11
  <2>13. \A p \in Writers \ {c} : p \in involved <=> \E q \in R : p \in q.to
    <3>1. m.to \cup s.to = involved0 \ {c, Agent, Nobody}
      BY <2>2, <2>3
    <3> QED BY <1>3, <2>12, <3>1, TagsAssumption
  <2>14. Carries(made, R) /\ EachOnce(made) /\ late' = late /\ Tags!Post(c)
         /\ post'.tags = post.tags /\ post' \in PostRecords
    BY <1>2, <2>7, <2>9, <2>11
  <2>15. R \subseteq Mentions /\ \A q \in R : c \notin q.to /\ ~TellsOfNote(q)
    BY <2>12
  <2> QED BY <2>8, <2>10, <2>13, <2>14, <2>15, OtherPostKeeps DEF Tags!Queue
<1> QED BY <1>4, <1>5

-----------------------------------------------------------------------------
(* The notices are written, or lost. *)

LEMMA QuietBatch ==
  ASSUME batch' = Tags!Quiet
  PROVE  /\ NoteComesFirst' /\ BatchCools' /\ Tags!PostReachesEachOnce'
         /\ Tags!NoteTold' = {} /\ batch'.rows \in Seq(Mentions) /\ batch'.now \in Int
<1>1. batch'.rows = <<>> /\ DOMAIN <<>> = {} /\ <<>> \in Seq(Mentions)
      /\ batch'.now = 0 /\ batch'.kind = "none" /\ batch'.by = Nobody
  BY EmptySeq DEF Tags!Quiet
<1>2. Tags!NoteTold' = {}
  BY QuietTellsNobody
<1>3. NoteComesFirst' /\ BatchCools'
  BY <1>1, <1>2 DEF NoteComesFirst, BatchCools
<1>4. Tags!PostReachesEachOnce'
  BY <1>1 DEF Tags!PostReachesEachOnce
<1> QED BY <1>1, <1>2, <1>3, <1>4

(* A record as it is written. *)
LEMMA StampingIs ==
  ASSUME NEW m \in Mentions, NEW t \in Int
  PROVE  LET r == [m EXCEPT !.ts = t]
         IN  /\ r \in Mentions /\ r.to = m.to /\ r.by = m.by /\ r.ts = t
             /\ TellsOfNote(r) <=> TellsOfNote(m)
<1> DEFINE r == [m EXCEPT !.ts = t]
<1>1. r = [type |-> m.type, here |-> m.here, msg |-> m.msg, by |-> m.by, to |-> m.to, ts |-> t]
  BY DEF Mentions
<1>2. r \in Mentions /\ r.to = m.to /\ r.by = m.by /\ r.ts = t
  BY <1>1 DEF Mentions
<1>3. TellsOfNote(r) <=> TellsOfNote(m)
  BY <1>1 DEF TellsOfNote
<1> QED BY <1>2, <1>3

(* The batch's records as they are written. *)
LEMMA StampedIs ==
  ASSUME PostsTyped
  PROVE  LET s == Tags!Stamped(batch.rows)
         IN  /\ s \in Seq(Mentions) /\ Len(s) = Len(batch.rows)
             /\ \A i \in DOMAIN batch.rows :
                  /\ s[i].to = batch.rows[i].to /\ s[i].by = batch.rows[i].by
                  /\ TellsOfNote(s[i]) <=> TellsOfNote(batch.rows[i])
                  /\ TellsOfNote(s[i]) => s[i].ts = now
<1> DEFINE made == batch.rows
           s == Tags!Stamped(made)
<1>1. made \in Seq(Mentions) /\ now \in Int
  BY DEF PostsTyped
<1> HIDE DEF made
<1>2. DOMAIN made = 1..Len(made) /\ Len(made) \in Nat /\ \A i \in DOMAIN made : made[i] \in Mentions
  BY <1>1
<1>3. s = [i \in 1..Len(made) |-> s[i]]
      /\ \A i \in 1..Len(made) :
           s[i] = IF made[i].type = "mention" THEN [made[i] EXCEPT !.ts = now] ELSE made[i]
  BY <1>2 DEF Tags!Stamped
<1> HIDE DEF s
<1>4. ASSUME NEW i \in 1..Len(made)
      PROVE  /\ s[i] \in Mentions /\ s[i].to = made[i].to /\ s[i].by = made[i].by
             /\ TellsOfNote(s[i]) <=> TellsOfNote(made[i])
             /\ TellsOfNote(s[i]) => s[i].ts = now
  <2>0. made[i] \in Mentions
    BY <1>2
  <2>1. CASE made[i].type = "mention"
    <3>1. PICK r \in Mentions : r = made[i]
      BY <2>0
    <3>2. s[i] = [r EXCEPT !.ts = now]
      BY <1>3, <2>1, <3>1
    <3> QED BY <1>1, <3>1, <3>2, StampingIs
  <2>2. CASE made[i].type # "mention"
    <3>1. s[i] = made[i]
      BY <1>3, <2>2
    <3>2. ~TellsOfNote(made[i])
      BY <2>2 DEF TellsOfNote
    <3> QED BY <2>0, <3>1, <3>2
  <2> QED BY <2>1, <2>2
<1>5. s \in Seq(Mentions) /\ Len(s) = Len(made)
  BY <1>2, <1>3, <1>4
<1> QED BY <1>2, <1>4, <1>5 DEF made, s

(* The log's cut: what is left is the end of the old log and the batch. *)
IsCut(cut, l, s, keep) ==
  /\ cut \in Seq(Mentions)
  /\ Len(cut) = IF Len(l) + Len(s) <= keep THEN Len(l) + Len(s) ELSE keep
  /\ \A j \in 1..Len(cut), k \in 1..(Len(l) + Len(s)) :
       k - j = Len(l) + Len(s) - Len(cut) =>
         /\ k <= Len(l) => cut[j] = l[k]
         /\ k > Len(l) => cut[j] = s[k - Len(l)]

LEMMA CutIs ==
  ASSUME NEW l \in Seq(Mentions), NEW s \in Seq(Mentions), NEW keep \in Nat \ {0}
  PROVE  IsCut(SubSeq(l \o s, Tags!Max({1, Len(l \o s) - keep + 1}), Len(l \o s)), l, s, keep)
<1> DEFINE all == l \o s
           n == Len(l) + Len(s)
           from == IF n <= keep THEN 1 ELSE n - keep + 1
<1>1. /\ all \in Seq(Mentions) /\ Len(all) = n /\ Len(l) \in Nat /\ Len(s) \in Nat
      /\ \A i \in 1..n : all[i] = IF i <= Len(l) THEN l[i] ELSE s[i - Len(l)]
  BY ConcatProperties
<1>2. \A i \in 1..n : all[i] \in Mentions
  BY <1>1
<1> HIDE DEF all
<1>3. Tags!Max({1, n - keep + 1}) = from
  <2>1. {1, n - keep + 1} \subseteq Int /\ from \in {1, n - keep + 1}
        /\ \A y \in {1, n - keep + 1} : y <= from
    BY <1>1
  <2> HIDE DEF from
  <2> QED BY <2>1, GreatestIs
<1> DEFINE cut == SubSeq(all, from, n)
<1>4. from \in 1..(n + 1) /\ n \in Nat
  BY <1>1
<1>5. n - from + 1 = IF n <= keep THEN n ELSE keep
  BY <1>1
<1> HIDE DEF from, n
<1>6. /\ cut \in Seq(Mentions) /\ Len(cut) = n - from + 1
      /\ \A j \in 1..(n - from + 1) : cut[j] = all[from + j - 1]
  <2>1. \A i \in from..n : all[i] \in Mentions
    BY <1>2, <1>4
  <2>2. from \in Int /\ n \in Int
    BY <1>4
  <2>3. /\ cut \in Seq(Mentions) /\ Len(cut) = IF from <= n THEN n - from + 1 ELSE 0
        /\ \A j \in 1..(n - from + 1) : cut[j] = all[from + j - 1]
    BY <2>1, <2>2, SubSeqProperties
  <2> HIDE DEF cut
  <2> QED BY <1>4, <2>3
<1> HIDE DEF cut
<1>7. ASSUME NEW j \in 1..Len(cut), NEW k \in 1..n, k - j = n - Len(cut)
      PROVE  /\ k <= Len(l) => cut[j] = l[k]
             /\ k > Len(l) => cut[j] = s[k - Len(l)]
  <2>1. j \in 1..(n - from + 1) /\ from + j - 1 = k
    BY <1>4, <1>6, <1>7
  <2>2. cut[j] = all[k]
    BY <1>6, <2>1
  <2>3. all[k] = IF k <= Len(l) THEN l[k] ELSE s[k - Len(l)]
    BY <1>1
  <2>4. k > Len(l) => ~(k <= Len(l))
    BY <1>1, <1>4
  <2> QED BY <2>2, <2>3, <2>4
<1>8. SubSeq(all, Tags!Max({1, Len(all) - keep + 1}), Len(all)) = cut
  BY <1>1, <1>3 DEF cut
<1>9. Len(l) + Len(s) = n
  BY DEF n
<1>10. Len(cut) = IF n <= keep THEN n ELSE keep
  BY <1>5, <1>6
<1>11. IsCut(cut, l, s, keep)
  BY <1>6, <1>7, <1>9, <1>10 DEF IsCut
<1> QED BY <1>8, <1>11 DEF all

LEMMA EmitIs ==
  ASSUME TagsInv, Tags!Emit
  PROVE  /\ IsCut(log', log, Tags!Stamped(batch.rows), Keep)
         /\ rows' = rows + Len(batch.rows) /\ Len(batch.rows) \in Nat
         /\ Len(log') \in Nat /\ Len(log) \in Nat /\ rows \in Nat
         /\ LogIsNewest'
<1>1. PostsTyped /\ LogIsNewest /\ Keep \in Nat \ {0}
  BY TagsAssumption DEF TagsInv
<1>2. Tags!Stamped(batch.rows) \in Seq(Mentions) /\ Len(Tags!Stamped(batch.rows)) = Len(batch.rows)
  BY <1>1, StampedIs
<1>3. PICK s \in Seq(Mentions) : s = Tags!Stamped(batch.rows)
  BY <1>2
<1>4. PICK l \in Seq(Mentions) : l = log
  BY <1>1 DEF PostsTyped
<1>5. IsCut(SubSeq(l \o s, Tags!Max({1, Len(l \o s) - Keep + 1}), Len(l \o s)), l, s, Keep)
  BY <1>1, CutIs
<1>6. log' = SubSeq(l \o s, Tags!Max({1, Len(l \o s) - Keep + 1}), Len(l \o s))
  BY <1>3, <1>4 DEF Tags!Emit
<1>7. IsCut(log', log, Tags!Stamped(batch.rows), Keep)
  BY <1>3, <1>4, <1>5, <1>6
<1>8. rows' = rows + Len(batch.rows) /\ Len(batch.rows) \in Nat /\ rows \in Nat /\ Len(log) \in Nat
  BY <1>1 DEF Tags!Emit, PostsTyped
<1>9. Len(log') = IF Len(log) + Len(batch.rows) <= Keep THEN Len(log) + Len(batch.rows) ELSE Keep
  BY <1>2, <1>7 DEF IsCut
<1>10. LogIsNewest'
  <2>1. PICK n \in Nat : n = Len(batch.rows)
    BY <1>8
  <2>2. Len(log) = IF rows <= Keep THEN rows ELSE Keep
    BY <1>1 DEF LogIsNewest
  <2>3. Len(log') = IF rows' <= Keep THEN rows' ELSE Keep
    <3>1. CASE rows <= Keep
      BY <1>1, <1>8, <1>9, <2>1, <2>2, <3>1
    <3>2. CASE ~(rows <= Keep)
      BY <1>1, <1>8, <1>9, <2>1, <2>2, <3>2
    <3> QED BY <3>1, <3>2
  <2> QED BY <2>3 DEF LogIsNewest
<1> QED BY <1>1, <1>7, <1>8, <1>9, <1>10

LEMMA EmitKeepsLog ==
  ASSUME TagsInv, Tags!Emit
  PROVE  LogTold'
<1> DEFINE s == Tags!Stamped(batch.rows)
<1>1. PostsTyped /\ LogTold /\ told' = told \cup Tags!NoteTold
  BY DEF TagsInv, Tags!Emit
<1>2. /\ s \in Seq(Mentions) /\ Len(s) = Len(batch.rows)
      /\ \A i \in DOMAIN batch.rows :
           s[i].to = batch.rows[i].to /\ (TellsOfNote(s[i]) <=> TellsOfNote(batch.rows[i]))
  BY <1>1, StampedIs
<1>3. /\ IsCut(log', log, s, Keep) /\ Len(batch.rows) \in Nat
      /\ Len(log') \in Nat /\ Len(log) \in Nat
      /\ DOMAIN batch.rows = 1..Len(batch.rows) /\ DOMAIN log = 1..Len(log)
  BY <1>1, EmitIs DEF PostsTyped
<1> HIDE DEF s
<1>4. Len(log') <= Len(log) + Len(batch.rows) /\ DOMAIN log' = 1..Len(log')
  BY <1>2, <1>3 DEF IsCut
<1> SUFFICES ASSUME NEW j \in 1..Len(log'), TellsOfNote(log'[j]) PROVE log'[j].to \subseteq told'
  BY <1>4 DEF LogTold
<1> DEFINE k == j + (Len(log) + Len(batch.rows) - Len(log'))
<1>5. k \in 1..(Len(log) + Len(batch.rows)) /\ k - j = Len(log) + Len(batch.rows) - Len(log')
  BY <1>3, <1>4
<1> HIDE DEF k
<1>6. /\ k <= Len(log) => log'[j] = log[k]
      /\ k > Len(log) => log'[j] = s[k - Len(log)]
  BY <1>2, <1>3, <1>5 DEF IsCut
<1>7. CASE k <= Len(log)
  <2>1. k \in DOMAIN log
    BY <1>3, <1>5, <1>7
  <2> QED BY <1>1, <1>6, <1>7, <2>1 DEF LogTold
<1>8. CASE k > Len(log)
  <2>1. PICK i : i = k - Len(log)
    OBVIOUS
  <2>2. i \in DOMAIN batch.rows
    BY <1>3, <1>5, <1>8, <2>1
  <2>3. log'[j] = s[i]
    BY <1>6, <1>8, <2>1
  <2>4. TellsOfNote(batch.rows[i]) /\ log'[j].to = batch.rows[i].to
    BY <1>2, <2>2, <2>3
  <2>5. batch.rows[i].to \subseteq Writers
    <3>1. batch.rows[i] \in Mentions
      BY <1>1, <2>2 DEF PostsTyped
    <3> QED BY <3>1 DEF Mentions
  <2> QED BY <1>1, <2>2, <2>4, <2>5, NoteToldIs
<1> QED BY <1>3, <1>5, <1>7, <1>8

LEMMA EmitKeepsLast ==
  ASSUME TagsInv, Tags!Emit
  PROVE  LastIsLogged' /\ last' \in [Tags!Clients -> [Writers -> [ts : Int, row : Nat]]]
<1> DEFINE s == Tags!Stamped(batch.rows)
           n == Len(batch.rows)
<1>1. PostsTyped /\ LastIsLogged /\ LogIsNewest /\ NoteComesFirst /\ Keep \in Nat \ {0}
  BY TagsAssumption DEF TagsInv
<1>2. /\ Len(s) = n
      /\ \A i \in DOMAIN batch.rows :
           /\ s[i].to = batch.rows[i].to /\ s[i].by = batch.rows[i].by
           /\ TellsOfNote(s[i]) <=> TellsOfNote(batch.rows[i])
           /\ TellsOfNote(s[i]) => s[i].ts = now
  BY <1>1, StampedIs
<1>3. /\ IsCut(log', log, s, Keep) /\ n \in Nat /\ Len(log') \in Nat /\ Len(log) \in Nat
      /\ DOMAIN batch.rows = 1..n /\ rows' = rows + n /\ rows \in Nat /\ now \in Int
  BY <1>1, EmitIs DEF PostsTyped
<1>4. /\ Len(log') = IF rows' <= Keep THEN rows' ELSE Keep
      /\ Len(log) = IF rows <= Keep THEN rows ELSE Keep
  BY <1>1, EmitIs DEF LogIsNewest
<1>5. batch.by \in Tags!Clients
  BY <1>1 DEF Tags!Emit, PostsTyped
<1>6. last' = [last EXCEPT ![batch.by] =
                 [p \in Writers |-> IF p \in Tags!NoteTold THEN [ts |-> now, row |-> rows + 1]
                                    ELSE last[batch.by][p]]]
  BY DEF Tags!Emit
<1>7. last' \in [Tags!Clients -> [Writers -> [ts : Int, row : Nat]]]
  BY <1>1, <1>3, <1>5, <1>6 DEF PostsTyped
<1> HIDE DEF s, n
<1> SUFFICES ASSUME NEW c \in Tags!Clients, NEW p \in Writers, last'[c][p] # Tags!Never
             PROVE  IsLogged(c, p, last[c][p])'
  BY <1>7 DEF LastIsLogged
<1>8. CASE c = batch.by /\ p \in Tags!NoteTold
  <2>1. last'[c][p] = [ts |-> now, row |-> rows + 1]
    BY <1>1, <1>5, <1>6, <1>8 DEF PostsTyped
  <2>2. last'[c][p].ts = now /\ last'[c][p].row = rows + 1
    BY <2>1
  <2>3. PICK i \in DOMAIN batch.rows : TellsOfNote(batch.rows[i]) /\ p \in batch.rows[i].to
    BY <1>8, NoteToldIs
  <2>4. 1 \in DOMAIN batch.rows /\ TellsOfNote(batch.rows[1]) /\ p \in batch.rows[1].to
        /\ batch.rows[1].by = c
    BY <1>1, <1>8, <2>3 DEF NoteComesFirst
  <2>5. TellsOfNote(s[1]) /\ p \in s[1].to /\ s[1].by = c /\ s[1].ts = now
    BY <1>2, <2>4
  <2>6. rows + 1 \in 1..rows'
    BY <1>3, <2>4
  <2>7. ASSUME rows' - (rows + 1) < Keep
        PROVE  log'[(rows + 1) - rows' + Len(log')] = s[1]
    <3> DEFINE j == (rows + 1) - rows' + Len(log')
               k == Len(log) + 1
    <3>1. n >= 1
      BY <1>3, <2>4
    <3>2. j \in 1..Len(log') /\ k \in 1..(Len(log) + n) /\ k - j = Len(log) + n - Len(log')
          /\ k > Len(log) /\ k - Len(log) = 1
      BY <1>1, <1>3, <1>4, <2>7, <3>1
    <3> HIDE DEF j, k
    <3>3. log'[j] = s[1]
      BY <1>2, <1>3, <3>2 DEF IsCut
    <3> QED BY <3>3 DEF j
  <2> QED BY <2>2, <2>5, <2>6, <2>7 DEF IsLogged
<1>9. CASE ~(c = batch.by /\ p \in Tags!NoteTold)
  <2>1. PICK L : L = last[c][p]
    OBVIOUS
  <2>2. last'[c][p] = L
    BY <1>1, <1>5, <1>6, <1>9, <2>1 DEF PostsTyped
  <2>3. IsLogged(c, p, L)
    BY <1>1, <2>1, <2>2 DEF LastIsLogged
  <2>4. L.row \in 1..rows
    BY <2>3 DEF IsLogged
  <2>5. PICK row \in 1..rows : row = L.row
    BY <2>4
  <2>6. row \in 1..rows'
    BY <1>3, <2>5
  <2>7. ASSUME rows' - row < Keep
        PROVE  /\ rows - row < Keep
               /\ log'[row - rows' + Len(log')] = log[row - rows + Len(log)]
    <3> DEFINE j == row - rows' + Len(log')
               k == row - rows + Len(log)
    <3>1. rows - row < Keep
      BY <1>1, <1>3, <2>7
    <3>2. j \in 1..Len(log') /\ k \in 1..Len(log)
      BY <1>1, <1>3, <1>4, <2>7, <3>1
    <3>3. k \in 1..(Len(log) + n) /\ k - j = Len(log) + n - Len(log') /\ k <= Len(log)
      BY <1>3, <3>2
    <3> HIDE DEF j, k
    <3>4. log'[j] = log[k]
      BY <1>2, <1>3, <3>2, <3>3 DEF IsCut
    <3> QED BY <3>1, <3>4 DEF j, k
  <2> QED BY <2>2, <2>3, <2>5, <2>6, <2>7 DEF IsLogged
<1> QED BY <1>8, <1>9, <1>7

LEMMA EmitKeeps == ASSUME TagsInv, Tags!Emit PROVE TagsInv'
<1>1. UNCHANGED <<post, now, late, lost, round>> /\ batch' = Tags!Quiet
      /\ told' = told \cup Tags!NoteTold
  BY DEF Tags!Emit
<1>2. /\ NoteComesFirst' /\ BatchCools' /\ Tags!PostReachesEachOnce'
      /\ Tags!NoteTold' = {} /\ batch'.rows \in Seq(Mentions) /\ batch'.now \in Int
  BY <1>1, QuietBatch
<1>3. LastIsLogged' /\ last' \in [Tags!Clients -> [Writers -> [ts : Int, row : Nat]]]
  BY EmitKeepsLast
<1>4. LogIsNewest' /\ LogTold' /\ rows' \in Nat /\ log' \in Seq(Mentions)
  <2>1. LogTold'
    BY EmitKeepsLog
  <2> QED BY <2>1, EmitIs DEF IsCut
<1>5. PostsTyped'
  BY <1>1, <1>2, <1>3, <1>4 DEF TagsInv, PostsTyped
<1>6. RoundIsOpen'
  BY <1>1, RoundGoesOn DEF TagsInv
<1>7. Tags!TagsWereTold'
  BY <1>1, <1>2 DEF TagsInv, Tags!TagsWereTold
<1> QED BY <1>2, <1>3, <1>4, <1>5, <1>6, <1>7 DEF TagsInv

LEMMA LoseKeeps == ASSUME TagsInv, Tags!LoseBatch PROVE TagsInv'
<1>1. UNCHANGED <<post, now, log, told, late, last, rows, round>> /\ batch' = Tags!Quiet
      /\ lost' = lost \cup Tags!NoteTold
  BY DEF Tags!LoseBatch
<1>2. /\ NoteComesFirst' /\ BatchCools' /\ Tags!PostReachesEachOnce'
      /\ Tags!NoteTold' = {} /\ batch'.rows \in Seq(Mentions) /\ batch'.now \in Int
  BY <1>1, QuietBatch
<1>3. PostsTyped' /\ LogIsNewest' /\ LogTold'
  BY <1>1, <1>2 DEF TagsInv, PostsTyped, LogIsNewest, LogTold
<1>4. LastIsLogged'
  BY <1>1 DEF TagsInv, LastIsLogged, IsLogged
<1>5. RoundIsOpen'
  BY <1>1, RoundGoesOn DEF TagsInv
<1>6. Tags!TagsWereTold'
  BY <1>1, <1>2 DEF TagsInv, Tags!TagsWereTold
<1> QED BY <1>2, <1>3, <1>4, <1>5, <1>6 DEF TagsInv

(* Somebody becomes known, the clock moves, or nothing does. *)
LEMMA ElseKeeps ==
  ASSUME TagsInv, UNCHANGED <<post, log, batch, told, late, lost, last, rows, round>>,
         now' \in Int
  PROVE  TagsInv'
<1>1. PostsTyped' /\ LogIsNewest' /\ LogTold'
  BY DEF TagsInv, PostsTyped, LogIsNewest, LogTold
<1>2. LastIsLogged'
  BY DEF TagsInv, LastIsLogged, IsLogged
<1>3. NoteComesFirst' /\ Tags!PostReachesEachOnce'
  BY DEF TagsInv, NoteComesFirst, Tags!PostReachesEachOnce
<1>4. Tags!NoteTold' = Tags!NoteTold
  BY DEF Tags!NoteTold, Tags!NoteRows
<1>5. BatchCools' /\ Tags!TagsWereTold'
  BY <1>4 DEF TagsInv, BatchCools, Cools, Tags!TagsWereTold
<1>6. RoundIsOpen'
  BY RoundGoesOn DEF TagsInv
<1> QED BY <1>1, <1>2, <1>3, <1>5, <1>6 DEF TagsInv

LEMMA SaveStepKeeps ==
  ASSUME TagsInv, NEW c \in Tags!Clients, NEW text \in Tags!Texts, NEW hints,
         Tags!Save(c, text, hints)
  PROVE  TagsInv'
<1>1. text \in Tags!Counts
  BY DEF Tags!Texts
<1>2. CASE \E a \in AddedFor, q \in BOOLEAN : Tags!Add(c, text, hints, a, q)
  <2>1. AddedFor \subseteq Writers \cup {Agent, Nobody}
    BY TagsAssumption
  <2> QED BY <1>1, <1>2, <2>1, AddKeeps
<1>3. CASE \E note \in {text, Tags!Plus(post.note, text)} \cap Tags!Counts, a \in HandedTo \cup {post.assignee} :
             Tags!EditNote(c, note, hints, a)
  <2>1. PICK note \in Tags!Counts, a \in HandedTo \cup {post.assignee} : Tags!EditNote(c, note, hints, a)
    BY <1>3
  <2>2. a \in Writers \cup {Agent, Nobody}
    BY TagsAssumption DEF TagsInv, PostsTyped, PostRecords
  <2> QED BY <2>1, <2>2, EditKeeps
<1>5. CASE Tags!Reopen(c, text, hints)
  BY <1>5, ReopenKeeps
<1>6. CASE \E asked \in {"unset", "yes", "no"} : Tags!Reply(c, text, hints, asked)
  BY <1>6, ReplyKeeps
<1> QED BY <1>2, <1>3, <1>5, <1>6 DEF Tags!Save

(* One step of what is posted. *)
LEMMA PostsStep ==
  ASSUME TagsInv, MCNext \/ UNCHANGED allVars
  PROVE  TagsInv'
<1>0. now \in Int
  BY DEF TagsInv, PostsTyped
<1>1. CASE UNCHANGED tagVars
  BY <1>0, <1>1, ElseKeeps DEF tagVars
<1>2. CASE \E c \in Tags!Clients, t \in Tags!Texts, h \in Tags!Hints : OfTags /\ Tags!Save(c, t, h)
  BY <1>2, SaveStepKeeps
<1>3. CASE \E c \in Tags!Clients, a \in HandedTo : OfTags /\ Tags!Assign(c, a)
  <2>1. HandedTo \subseteq Writers \cup {Agent, Nobody}
    BY TagsAssumption
  <2> QED BY <1>3, <2>1, AssignKeeps
<1>4. CASE \E c \in Tags!Clients, review \in BOOLEAN : OfTags /\ Tags!Close(c, review)
  BY <1>4, CloseKeeps
<1>5. CASE \E c \in Tags!Clients, p \in Writers : OfTags /\ Tags!Elsewhere(c, p)
  BY <1>5, ElsewhereKeeps
<1>6. CASE \E p \in Writers : OfTags /\ Tags!Join(p)
  BY <1>0, <1>6, ElseKeeps DEF Tags!Join, Tags!history
<1>7. CASE OfTags /\ Tags!Emit
  BY <1>7, EmitKeeps
<1>8. CASE OfTags /\ Tags!LoseBatch
  BY <1>8, LoseKeeps
<1>9. CASE OfTags /\ Tags!Tick
  BY <1>0, <1>9, ElseKeeps DEF Tags!Tick, Tags!history
<1>10. CASE OfTags /\ Tags!StepBack
  BY <1>0, <1>10, ElseKeeps DEF Tags!StepBack, Tags!history
<1> QED
  BY <1>1, <1>2, <1>3, <1>4, <1>5, <1>6, <1>7, <1>8, <1>9, <1>10
  DEF MCNext, OfRecord, allVars

-----------------------------------------------------------------------------
(* The start, and the theorems. *)

LEMMA NobodySentYet ==
  ASSUME last = [c \in Tags!Clients |-> [p \in Writers |-> Tags!Never]]
  PROVE  /\ last \in [Tags!Clients -> [Writers -> [ts : Int, row : Nat]]]
         /\ LastIsLogged
<1>1. Tags!Never \in [ts : Int, row : Nat]
  BY DEF Tags!Never
<1>2. \A c \in Tags!Clients, p \in Writers : last[c][p] = Tags!Never
  OBVIOUS
<1> QED BY <1>1, <1>2 DEF LastIsLogged

LEMMA QuietAtFirst ==
  ASSUME batch = Tags!Quiet
  PROVE  /\ NoteComesFirst /\ BatchCools /\ Tags!PostReachesEachOnce
         /\ batch.rows \in Seq(Mentions) /\ batch.now \in Int
<1>1. batch.rows = <<>> /\ DOMAIN <<>> = {} /\ <<>> \in Seq(Mentions)
      /\ batch.now = 0 /\ batch.kind = "none" /\ batch.by = Nobody
  BY EmptySeq DEF Tags!Quiet
<1>2. Tags!NoteTold = {}
  BY QuietTellsNobody
<1>3. NoteComesFirst /\ BatchCools
  BY <1>1, <1>2 DEF NoteComesFirst, BatchCools
<1>4. Tags!PostReachesEachOnce
  BY <1>1 DEF Tags!PostReachesEachOnce
<1> QED BY <1>1, <1>3, <1>4

NoEntry == post.thread = <<>>
OneClose == post.thread = <<[ev |-> "close", tags |-> {}]>> /\ post.state # "none"

LEMMA FirstRound ==
  ASSUME NoEntry \/ OneClose, round = {} PROVE RoundIsOpen
<1>1. CASE NoEntry
  <2>1. DOMAIN post.thread = {} /\ Len(post.thread) = 0
    BY <1>1 DEF NoEntry
  <2>2. Tags!Marks("close") = {} /\ Tags!Marks("reopen") = {}
    BY <2>1 DEF Tags!Marks
  <2>3. Tags!Max({0} \cup {}) = 0
    <3>1. {0} \cup {} = {0}
      OBVIOUS
    <3> QED BY <3>1, GreatestIs
  <2>4. Tags!LastClose = 0 /\ Tags!LastReopen = 0
    BY <2>2, <2>3 DEF Tags!LastClose, Tags!LastReopen
  <2> QED BY <1>1, <2>1, <2>4 DEF RoundIsOpen, TaggedFrom, NoEntry
<1>2. CASE OneClose
  <2>1. DOMAIN post.thread = {1} /\ Len(post.thread) = 1 /\ post.thread[1].ev = "close"
    BY <1>2 DEF OneClose
  <2>2. Tags!Marks("close") = {1} /\ Tags!Marks("reopen") = {}
    BY <2>1 DEF Tags!Marks
  <2>3. Tags!Max({0} \cup {}) = 0 /\ Tags!Max({0} \cup {1}) = 1
    <3>1. {0} \cup {} = {0} /\ {0} \cup {1} = {0, 1}
      OBVIOUS
    <3>2. \A y \in {0, 1} : y <= 1
      OBVIOUS
    <3> QED BY <3>1, <3>2, GreatestIs
  <2>4. Tags!LastClose = 1 /\ Tags!LastReopen = 0
    BY <2>2, <2>3 DEF Tags!LastClose, Tags!LastReopen
  <2>5. Tags!RoundStart = 2
    BY <2>4 DEF Tags!RoundStart
  <2>6. TaggedFrom(2) = {}
    BY <2>1 DEF TaggedFrom
  <2> QED BY <1>2, <2>1, <2>4, <2>5, <2>6 DEF RoundIsOpen, OneClose
<1> QED BY <1>1, <1>2

LEMMA NoPinIsTyped ==
  Tags!NoPin \in PostRecords /\ Tags!NoPin.thread = <<>> /\ Tags!NoPin.tags = {}
<1>1. <<>> \in Seq(Entries) /\ Tags!Blank \in Tags!Counts
  BY EmptySeq DEF Tags!Blank, Tags!Counts
<1> QED BY <1>1 DEF Tags!NoPin, PostRecords

LEMMA InitIsTagged == ASSUME MCInit PROVE TagsInv
<1>1. /\ rows = Len(log) /\ told = UNION {log[i].to : i \in DOMAIN log}
      /\ now = 1 /\ batch = Tags!Quiet /\ late = {} /\ lost = {} /\ round = {}
  BY DEF MCInit, Tags!Init
<1>2. /\ NoteComesFirst /\ BatchCools /\ Tags!PostReachesEachOnce
      /\ batch.rows \in Seq(Mentions) /\ batch.now \in Int
  BY <1>1, QuietAtFirst
<1>3. <<>> \in Seq(Mentions) /\ Len(<<>>) = 0 /\ DOMAIN <<>> = {} /\ Keep \in Nat \ {0}
  BY EmptySeq, TagsAssumption
<1>4. ASSUME post \in PostRecords, NoEntry \/ OneClose, post.tags = {}, log = <<>>,
             last = [c \in Tags!Clients |-> [p \in Writers |-> Tags!Never]]
      PROVE  TagsInv
  <2>1. last \in [Tags!Clients -> [Writers -> [ts : Int, row : Nat]]] /\ LastIsLogged
    BY <1>4, NobodySentYet
  <2>2. PostsTyped /\ LogIsNewest /\ LogTold
    BY <1>1, <1>2, <1>3, <1>4, <2>1 DEF PostsTyped, LogIsNewest, LogTold
  <2>3. RoundIsOpen
    BY <1>1, <1>4, FirstRound
  <2>4. Tags!TagsWereTold
    BY <1>4 DEF Tags!TagsWereTold
  <2> QED BY <1>2, <2>1, <2>2, <2>3, <2>4 DEF TagsInv
<1>5. CASE Tags!Nothing
  BY <1>4, <1>5, NoPinIsTyped DEF Tags!Nothing, NoEntry
<1>6. ASSUME NEW c \in Tags!Clients, NEW q \in BOOLEAN, Tags!AwaitsReview(c, q) PROVE TagsInv
  <2>1. post = [Tags!NoPin EXCEPT !.state = "review", !.author = c, !.question = q,
                                  !.thread = <<[ev |-> "close", tags |-> {}]>>]
    BY <1>6 DEF Tags!AwaitsReview, Tags!InReview
  <2>2. <<[ev |-> "close", tags |-> {}]>> \in Seq(Entries)
    BY DEF Entries
  <2>3. post \in PostRecords /\ post.tags = {} /\ post.thread = <<[ev |-> "close", tags |-> {}]>>
        /\ post.state = "review"
    BY <2>1, <2>2, NoPinIsTyped DEF PostRecords
  <2> QED BY <1>4, <1>6, <2>3 DEF OneClose, Tags!AwaitsReview
<1>7. ASSUME NEW c \in Tags!Clients, NEW p \in Writers \ {c}, Tags!HasTold(c, p) PROVE TagsInv
  <2> DEFINE note == [n \in Names |-> IF p \in AllBear[n] THEN 1 ELSE 0]
             m == Tags!Row("mention", TRUE, FALSE, c, {p})
             r == [m EXCEPT !.ts = 1]
  <2>1. /\ post = [Tags!NoPin EXCEPT !.state = "open", !.author = c, !.tags = {p}, !.note = note]
        /\ log = <<r>>
        /\ last = [d \in Tags!Clients |-> [q \in Writers |->
                     IF d = c /\ q = p THEN [ts |-> 1, row |-> 1] ELSE Tags!Never]]
    BY <1>7 DEF Tags!HasTold
  <2>2. note \in Tags!Counts
    BY DEF Tags!Counts
  <2> HIDE DEF note
  <2>3. post \in PostRecords /\ post.tags = {p} /\ post.thread = <<>>
    BY <2>1, <2>2, NoPinIsTyped DEF PostRecords
  <2>4. m \in Mentions /\ m.by = c /\ m.to = {p} /\ TellsOfNote(m)
    <3>1. "mention" \in NoticeTypes /\ {p} \subseteq Writers \cup {Agent, Nobody}
      BY DEF NoticeTypes
    <3>2. Reaches(m, c, {p}) /\ TellsOfNote(m)
      BY <3>1, RowIsMention
    <3> QED BY <3>2, TagsAssumption DEF Reaches
  <2> HIDE DEF m
  <2>5. r \in Mentions /\ TellsOfNote(r) /\ r.by = c /\ r.to = {p} /\ r.ts = 1
    BY <2>4, StampingIs
  <2> HIDE DEF r
  <2>6. log \in Seq(Mentions) /\ Len(log) = 1 /\ DOMAIN log = {1} /\ log[1] = r
    BY <2>1, <2>5
  <2>7. last \in [Tags!Clients -> [Writers -> [ts : Int, row : Nat]]]
    <3>1. Tags!Never \in [ts : Int, row : Nat] /\ [ts |-> 1, row |-> 1] \in [ts : Int, row : Nat]
      BY DEF Tags!Never
    <3> QED BY <2>1, <3>1
  <2>8. LastIsLogged
    <3> SUFFICES ASSUME NEW d \in Tags!Clients, NEW q \in Writers, last[d][q] # Tags!Never
                 PROVE  IsLogged(d, q, last[d][q])
      BY DEF LastIsLogged
    <3>1. d = c /\ q = p /\ last[d][q] = [ts |-> 1, row |-> 1]
      BY <2>1
    <3>2. last[d][q].ts = 1 /\ last[d][q].row = 1 /\ 1 - rows + Len(log) = 1 /\ rows = 1
      BY <1>1, <2>6, <3>1
    <3> QED BY <2>5, <2>6, <3>1, <3>2 DEF IsLogged
  <2>9. LogIsNewest
    BY <1>1, <1>3, <2>6 DEF LogIsNewest
  <2>10. told = {p}
    BY <1>1, <2>5, <2>6
  <2>11. LogTold
    BY <2>5, <2>6, <2>10 DEF LogTold
  <2>12. PostsTyped
    BY <1>1, <1>2, <2>3, <2>6, <2>7 DEF PostsTyped
  <2>13. Tags!TagsWereTold
    BY <2>3, <2>10 DEF Tags!TagsWereTold
  <2>14. RoundIsOpen
    BY <1>1, <2>3, FirstRound DEF NoEntry
  <2> QED BY <1>2, <2>8, <2>9, <2>11, <2>12, <2>13, <2>14 DEF TagsInv
<1> QED BY <1>5, <1>6, <1>7 DEF MCInit, Tags!Init

(* Whom the open round calls is told apart into those asked and those told. *)
LEMMA RoundShows == ASSUME TagsInv PROVE Tags!RoundCallsAreShown
<1>1. Tags!RoundMentions = post.tags \cup round /\ Tags!RoundMentions \subseteq Writers
  <2>1. Tags!RoundMentions = post.tags \cup TaggedFrom(Tags!RoundStart)
    BY DEF Tags!RoundMentions, Tags!TagsFrom, TaggedFrom
  <2>2. TaggedFrom(Tags!RoundStart) = round
    BY DEF TagsInv, RoundIsOpen
  <2>3. post \in PostRecords
    BY DEF TagsInv, PostsTyped
  <2>4. post.tags \subseteq Writers /\ \A i \in DOMAIN post.thread : post.thread[i] \in Entries
    BY <2>3 DEF PostRecords
  <2>5. TaggedFrom(Tags!RoundStart) \subseteq Writers
    BY <2>4 DEF TaggedFrom, Entries
  <2> QED BY <2>1, <2>2, <2>4, <2>5
<1>2. post.assignee \in Writers \cup {Agent, Nobody} /\ post.question \in BOOLEAN
  BY DEF TagsInv, PostsTyped, PostRecords
<1>3. PICK calls : calls = Tags!RoundMentions
  OBVIOUS
<1>4. /\ Tags!AddressedTo \cap Tags!FyiMentionsTo = {}
      /\ calls \subseteq Tags!AddressedTo \cup Tags!FyiMentionsTo
      /\ Tags!AddressedTo \subseteq calls \cup {post.assignee}
  <2>1. CASE post.assignee = Agent
    BY <1>1, <1>3, <2>1, TagsAssumption DEF Tags!AddressedTo, Tags!FyiMentionsTo
  <2>2. CASE post.assignee \in Writers
    BY <1>1, <1>3, <2>2, TagsAssumption DEF Tags!AddressedTo, Tags!FyiMentionsTo
  <2>3. CASE post.assignee = Nobody /\ post.assignee # Agent /\ post.question
    BY <1>1, <1>3, <2>3, TagsAssumption DEF Tags!AddressedTo, Tags!FyiMentionsTo
  <2>4. CASE post.assignee = Nobody /\ post.assignee # Agent /\ ~post.question
    BY <1>1, <1>3, <2>4, TagsAssumption DEF Tags!AddressedTo, Tags!FyiMentionsTo
  <2> QED BY <1>2, <2>1, <2>2, <2>3, <2>4
<1> QED BY <1>1, <1>3, <1>4 DEF Tags!RoundCallsAreShown

(* Only the writing of a batch tells anybody anything. *)
LEMMA OnlyEmitTells ==
  ASSUME MCNext \/ UNCHANGED allVars, ~Tags!Emit PROVE UNCHANGED last
<1>1. ASSUME NEW c, Tags!Post(c) PROVE UNCHANGED last
  BY <1>1 DEF Tags!Post
<1>2. ASSUME NEW c, NEW t, NEW h, Tags!Save(c, t, h) PROVE UNCHANGED last
  <2>1. Tags!Post(c)
    BY <1>2 DEF Tags!Save, Tags!Add, Tags!EditNote, Tags!Reopen, Tags!Reply
  <2> QED BY <1>1, <2>1
<1>3. ASSUME NEW c, NEW a, Tags!Assign(c, a) \/ Tags!Close(c, a) \/ Tags!Elsewhere(c, a)
      PROVE  UNCHANGED last
  <2>1. Tags!Post(c)
    BY <1>3 DEF Tags!Assign, Tags!Close, Tags!Elsewhere
  <2> QED BY <1>1, <2>1
<1>4. ASSUME NEW p, Tags!Join(p) PROVE UNCHANGED last
  BY <1>4 DEF Tags!Join, Tags!history
<1>5. ASSUME Tags!LoseBatch \/ Tags!Tick \/ Tags!StepBack PROVE UNCHANGED last
  BY <1>5 DEF Tags!LoseBatch, Tags!Tick, Tags!StepBack, Tags!history
<1>6. ASSUME UNCHANGED tagVars PROVE UNCHANGED last
  BY <1>6 DEF tagVars
<1> QED BY <1>2, <1>3, <1>4, <1>5, <1>6 DEF MCNext, OfRecord, allVars

ToldAgain(c, p) ==
  last'[c][p] # last[c][p] /\ last[c][p] # Tags!Never =>
    \/ Tags!Apart(batch.now, last[c][p].ts)
    \/ rows - last[c][p].row >= Keep

LEMMA CooldownStep ==
  ASSUME TagsInv, MCNext \/ UNCHANGED allVars, NEW c \in Tags!Clients, NEW p \in Writers
  PROVE  ToldAgain(c, p)
<1>1. CASE ~Tags!Emit
  BY <1>1, OnlyEmitTells DEF ToldAgain
<1>2. CASE Tags!Emit
  <2>1. last' = [last EXCEPT ![batch.by] =
                   [q \in Writers |-> IF q \in Tags!NoteTold THEN [ts |-> now, row |-> rows + 1]
                                      ELSE last[batch.by][q]]]
    BY <1>2 DEF Tags!Emit
  <2>2. /\ last \in [Tags!Clients -> [Writers -> [ts : Int, row : Nat]]]
        /\ BatchCools
    BY DEF TagsInv, PostsTyped
  <2>3. CASE c = batch.by /\ p \in Tags!NoteTold
    BY <2>2, <2>3 DEF BatchCools, Cools, ToldAgain
  <2>4. CASE ~(c = batch.by /\ p \in Tags!NoteTold)
    BY <2>1, <2>2, <2>4 DEF ToldAgain
  <2> QED BY <2>3, <2>4
<1> QED BY <1>1, <1>2

LEMMA PostsAlwaysSound == MCSpec => []TagsInv
<1>1. MCInit => TagsInv
  BY InitIsTagged
<1>2. TagsInv /\ [MCNext]_allVars => TagsInv'
  BY PostsStep
<1> QED BY <1>1, <1>2, PTL DEF MCSpec

(* Everybody the stored note tags was told by a note mention, whoever       *)
(* edited whatever in and out of it, but for those the name came to mean    *)
(* only later and those whose notice was lost (tag_note,                    *)
(* note_mention_targets, emit_events).                                      *)
THEOREM TagsAreTold == MCSpec => []TagsWereTold
<1>1. TagsInv => TagsWereTold
  BY DEF TagsInv, TagsWereTold
<1> QED BY <1>1, PostsAlwaysSound, PTL

(* A reply reaches everyone involved with one notice; no reply, close,      *)
(* reopening or hand-over tells anybody twice, a save of the note at most   *)
(* once of a tag and once of a hand-over; nothing tells its own poster; the *)
(* pin calls those its note tags and those the open round's posts tag, each *)
(* asked or told (reply_pin, edit_pin, thread_round, addressed_to).         *)
THEOREM PostsReach == MCSpec => []PostsReachAll
<1>1. TagsInv => PostsReachAll
  BY RoundShows DEF TagsInv, PostsReachAll
<1> QED BY <1>1, PostsAlwaysSound, PTL

(* No save tells somebody of the note again within the window, as long as   *)
(* the log still holds the earlier notice (NOTE_MENTION_COOLDOWN_S).        *)
THEOREM CooldownHolds == MCSpec => CooldownKept
<1>1. TagsInv /\ [MCNext]_allVars =>
        [\A c \in Tags!Clients, p \in Writers :
           last'[c][p] # last[c][p] /\ last[c][p] # Tags!Never =>
             \/ Tags!Apart(batch.now, last[c][p].ts)
             \/ rows - last[c][p].row >= Keep]_(Tags!vars)
  BY CooldownStep DEF ToldAgain
<1> QED BY <1>1, PostsAlwaysSound, PTL DEF MCSpec, CooldownKept, Tags!CooldownKept
=============================================================================
