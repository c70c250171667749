---------------------------- MODULE PinLifecycle ----------------------------
(***************************************************************************)
(* One pin and the people and agents who work on it.  Each action is one   *)
(* request's transaction (PinStore shows what happens between its writes); *)
(* what makes it hard is that the clients decide on what they read some    *)
(* time ago, and that the program's clock only ticks once a second.        *)
(***************************************************************************)
EXTENDS Integers

CONSTANTS People,          \* editors and the owner
          Agents,          \* tokens, the loopback agent, people with that role
          Nobody,
          MaxRev,          \* bound on the pin's revision
          MaxClock,        \* bound on the clock, in seconds
          ClaimTicks,      \* bound on how long a claim lasts
          ThreadMax,       \* replies one thread takes
          SameSecondCloses \* the pin can be closed twice in one second

Clients == People \cup Agents

ASSUME ClientsAssumption == /\ People \cap Agents = {}
                            /\ Nobody \notin Clients
ASSUME BoundsAssumption == /\ MaxRev \in Nat /\ MaxClock \in Nat
                           /\ ClaimTicks \in Nat \ {0} /\ ThreadMax \in Nat
                           /\ SameSecondCloses \in BOOLEAN

VARIABLES pin,    \* the stored record
          clock,  \* the server's clock, in seconds
          seen    \* the record as the client in question last read it

(* Clients do not see each other's pages, so one reader's page, as old as   *)
(* you like and used by any client, stands for all of theirs.              *)
vars == <<pin, clock, seen>>

States == {"open", "review", "done"}

(* noteAt, linesAt: the revision that last wrote the note, or moved the    *)
(* lines.  The thread is kept as its length, the positions of its latest   *)
(* close and reopen entries (round_marks, 0 for none) and how many of its  *)
(* entries are replies.  closes and confirmed number the closes, which the *)
(* program does not: it knows a close by done_at (closedAt) alone.         *)
Pins == [live : BOOLEAN, state : States, rev : 0..MaxRev, question : BOOLEAN,
         noteAt : 0..MaxRev, linesAt : 0..MaxRev,
         closedAt : 0..MaxClock, closedBy : Clients \cup {Nobody},
         confirmedBy : Clients \cup {Nobody},
         claimedBy : Clients \cup {Nobody},
         claimUntil : 0..(MaxClock + ClaimTicks),
         thread : 0..MaxRev, lastClose : 0..MaxRev, lastReopen : 0..MaxRev,
         replies : 0..ThreadMax,
         closes : 0..MaxRev, confirmed : 0..MaxRev]

TypeOK == pin \in Pins /\ clock \in 0..MaxClock /\ seen \in Pins

Init == /\ pin \in {[live |-> TRUE, state |-> "open", rev |-> 0,
                     question |-> q, noteAt |-> 0, linesAt |-> 0,
                     closedAt |-> 0, closedBy |-> Nobody,
                     confirmedBy |-> Nobody,
                     claimedBy |-> Nobody, claimUntil |-> 0,
                     thread |-> 0, lastClose |-> 0, lastReopen |-> 0,
                     replies |-> 0, closes |-> 0, confirmed |-> 0]
                     : q \in BOOLEAN}
        /\ clock = 0
        /\ seen = pin

-----------------------------------------------------------------------------
Closed(p) == p.state # "open"
HasClaim(p) == p.claimedBy # Nobody
Held(p) == HasClaim(p) /\ p.claimUntil > clock

(* What a write does to the record, one operator per rule. *)
Bumped(p)    == [p EXCEPT !.rev = @ + 1]
Unclaimed(p) == [p EXCEPT !.claimedBy = Nobody, !.claimUntil = 0]
Messaged(p)  == [p EXCEPT !.thread = @ + 1]

ClosedAs(p, c, review) ==
  [Unclaimed(Messaged(p)) EXCEPT
     !.state = IF review THEN "review" ELSE "done",
     !.closedAt = clock, !.closedBy = c,
     !.lastClose = p.thread + 1, !.closes = @ + 1]

\* mutant: the confirmation stays.
ReopenedKeepingConfirmation(p) ==
  IF Closed(p) THEN [Messaged(p) EXCEPT !.state = "open",
                                        !.lastReopen = p.thread + 1]
  ELSE p

(* A reopen forgets the review and the confirmation, not done_at: only a   *)
(* closed pin gets a thread entry.                                         *)
ReopenedAs(p) ==
  IF Closed(p)
  THEN [Messaged(p) EXCEPT !.state = "open", !.lastReopen = p.thread + 1,
                           !.confirmedBy = Nobody, !.confirmed = 0]
  ELSE [p EXCEPT !.confirmedBy = Nobody, !.confirmed = 0]

ConfirmedAs(p, c) ==
  [Messaged(p) EXCEPT !.state = "done", !.confirmedBy = c,
                      !.confirmed = p.closes]

(* Every accepted request runs on the live record and bumps its revision.  *)
Write(p) == /\ pin.live /\ pin.rev < MaxRev
            /\ pin' = Bumped(p)
            /\ UNCHANGED <<clock, seen>>

-----------------------------------------------------------------------------

(* close_pin; a closed pin is left as it is.  review is what the request   *)
(* asked, or else whether an agent closes.                                 *)
Close(c) ==
  /\ ~Closed(pin)
  /\ ~SameSecondCloses => pin.closes = 0 \/ pin.closedAt # clock
  /\ \E review \in BOOLEAN : Write(ClosedAs(pin, c, review))

(* reopen_pin writes an open pin again all the same. *)
Reopen(c) == Write(ReopenedAs(pin))

(* confirm: with shown, only the close that carries that done_at. *)
Confirmable(c) == c \in People /\ pin.state = "review"

ConfirmShown(c) == /\ Confirmable(c)
                   /\ Closed(seen) /\ seen.closedAt = pin.closedAt
                   /\ Write(ConfirmedAs(pin, c))

ConfirmAnyClose(c) == Confirmable(c) /\ Write(ConfirmedAs(pin, c))

(* reopens_on_reply: the request's choice, else a person's reply that tags *)
(* no person, on a pin that is not a question.                             *)
ReopensOnReply(c, reopen, tagged) ==
  /\ Closed(pin)
  /\ IF reopen = "unset" THEN c \in People /\ ~pin.question /\ ~tagged
     ELSE reopen = "yes"

Reply(c) ==
  \E reopen \in {"unset", "yes", "no"}, tagged \in BOOLEAN :
    \/ ReopensOnReply(c, reopen, tagged) /\ Write(ReopenedAs(pin))
    \/ /\ ~ReopensOnReply(c, reopen, tagged)
       /\ pin.replies < ThreadMax
       /\ Write([Messaged(pin) EXCEPT !.replies = @ + 1])

(* edit_pin with base_rev: refused unless the client edits the revision    *)
(* the pin has.  A closed pin keeps its place.                             *)
EditNote(p)  == [p EXCEPT !.noteAt = p.rev + 1]
EditLines(p) == [p EXCEPT !.linesAt = p.rev + 1]
EditSeen(c) ==
  /\ seen.rev = pin.rev
  /\ \/ Write(EditNote(pin))
     \/ ~Closed(pin) /\ Write(EditLines(pin))

(* Without base_rev nothing is compared. *)
EditBlind(c) ==
  \/ Write(EditNote(pin))
  \/ ~Closed(pin) /\ Write(EditLines(pin))

\* mutant: anybody's claim replaces a live one.
ClaimOver(c) ==
  /\ ~Closed(pin)
  /\ \E ttl \in 1..ClaimTicks :
       Write([pin EXCEPT !.claimedBy = c, !.claimUntil = clock + ttl])

(* claim_open: another identity's live claim refuses; the same identity    *)
(* extends; a lapsed claim is replaced.                                    *)
Claim(c) ==
  /\ ~Closed(pin)
  /\ Held(pin) => pin.claimedBy = c
  /\ \E ttl \in 1..ClaimTicks :
       Write([pin EXCEPT !.claimedBy = c, !.claimUntil = clock + ttl])

Unclaim(c) == ~Closed(pin) /\ HasClaim(pin) /\ Write(Unclaimed(pin))

\* mutant: moves the lines under the same revision.
ResyncQuietly == /\ pin.live /\ ~Closed(pin) /\ pin.linesAt # pin.rev
                 /\ pin' = [pin EXCEPT !.linesAt = pin.rev]
                 /\ UNCHANGED <<clock, seen>>

(* The re-sync every transaction starts with follows the lines of an open  *)
(* pin; a refused request still writes it.                                 *)
Resync == ~Closed(pin) /\ Write(EditLines(pin))

(* drop keeps the revision, restore raises it. *)
Drop(c) == /\ pin.live
           /\ pin' = [Unclaimed(pin) EXCEPT !.live = FALSE]
           /\ UNCHANGED <<clock, seen>>

Restore(c) == /\ ~pin.live /\ pin.rev < MaxRev
              /\ pin' = [Bumped(pin) EXCEPT !.live = TRUE]
              /\ UNCHANGED <<clock, seen>>

(* GET /api/pins: a snapshot the client may act on much later. *)
Read == pin.live /\ seen' = pin /\ UNCHANGED <<pin, clock>>

Tick == clock < MaxClock /\ clock' = clock + 1 /\ UNCHANGED <<pin, seen>>

Next == \/ \E c \in Clients :
             \/ Close(c) \/ Reopen(c) \/ ConfirmShown(c) \/ ConfirmAnyClose(c)
             \/ Reply(c) \/ EditSeen(c) \/ EditBlind(c) \/ Claim(c)
             \/ Unclaim(c) \/ Drop(c) \/ Restore(c)
        \/ Read \/ Resync \/ Tick

Spec == Init /\ [][Next]_vars

-----------------------------------------------------------------------------
(* An edit made on base_rev lands on the very record its author was        *)
(* looking at - state, note, lines, claim and thread - although only the   *)
(* revision is compared (StaleEdit: "an agent closed it or line matching   *)
(* moved it after the editor loaded it").                                  *)
EditLandsOnWhatWasSeen ==
  [][\A c \in Clients : EditSeen(c) => seen = pin]_vars

(* ADR-0013: a confirmation that names the close the person saw never      *)
(* lands on another one (rules.py confirm: "so an approval never lands on  *)
(* a result nobody looked at").                                            *)
ConfirmBindsShownClose ==
  [][\A c \in Clients : ConfirmShown(c) => seen.closes = pin.closes]_vars

(* A recorded confirmation is a person's, of the close that stands now:    *)
(* it does not survive a reopen, a second close or a trip to the Trash.    *)
ConfirmationStands ==
  pin.confirmedBy # Nobody => /\ pin.confirmedBy \in People
                              /\ pin.state = "done"
                              /\ pin.confirmed = pin.closes

(* Only a reopen undoes a close: until then its closer and time stay, and  *)
(* a done pin never goes back to review.                                   *)
CloseStandsUntilReopened ==
  [][Closed(pin) /\ Closed(pin') =>
       /\ pin'.closedBy = pin.closedBy /\ pin'.closedAt = pin.closedAt
       /\ pin'.closes = pin.closes
       /\ pin.state = "done" => pin'.state = "done"]_vars

(* A live claim never passes to somebody else without being given up, and  *)
(* a closed or dropped pin carries none, so nobody is told of work on it.  *)
ClaimIsExclusive ==
  [][Held(pin) /\ HasClaim(pin') => pin'.claimedBy = pin.claimedBy]_vars
ClaimOnlyOnOpenPins == HasClaim(pin) => pin.live /\ ~Closed(pin)

(* The thread tells the state: a pin is closed exactly when its latest     *)
(* close comes after its latest reopen (pins.md's "reopened" marker and    *)
(* the current round are read from the thread alone).                      *)
RoundMatchesState == Closed(pin) <=> pin.lastClose > pin.lastReopen

(* Whatever is written by whom, the record stays of one piece.             *)
RecordHolds == /\ TypeOK /\ RoundMatchesState
               /\ ConfirmationStands /\ ClaimOnlyOnOpenPins

(* Whoever decides on a page read long ago acts on what the page showed.   *)
ActsOnWhatWasSeen == EditLandsOnWhatWasSeen /\ ConfirmBindsShownClose

(* No close and no claim is taken away behind its holder's back.           *)
HoldersKeepTheirs == CloseStandsUntilReopened /\ ClaimIsExclusive
=============================================================================
