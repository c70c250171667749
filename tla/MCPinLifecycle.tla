--------------------------- MODULE MCPinLifecycle ---------------------------
(***************************************************************************)
(* One pin for TLC: its record and the pages its clients decide on         *)
(* (PinLifecycle), or what is posted on it and whom that tells             *)
(* (PinNotices, which leaves revisions, claims and confirmations to the    *)
(* first).  part says which of them runs, the other stays as it started.   *)
(* Agents are interchangeable.  Everybody bears the one name: it means     *)
(* whoever is known alone, and else whom the post picks.                   *)
(***************************************************************************)
EXTENDS PinLifecycle, TLC

CONSTANTS Writers, Agent, Names, AddedFor, HandedTo, Window, Keep, MaxTicks,
          MaxPosts, MaxRows, MaxFaults

(* No person's login is the agent's "local" (recorded people are checked),  *)
(* pins are handed to people, to the agent or to nobody, and a log that is  *)
(* cut keeps something.                                                     *)
ASSUME TagsAssumption ==
  /\ Agent \notin Writers /\ Nobody \notin Writers /\ Agent # Nobody
  /\ AddedFor \cup HandedTo \subseteq Writers \cup {Agent, Nobody}
  /\ Window \in Nat /\ Keep \in Nat \ {0}

VARIABLES part, post, known, now, log, batch, posts, faults, told, late, lost,
          last, rows, round

AllBear == [n \in Names |-> Writers]

Tags == INSTANCE PinNotices WITH People <- Writers, Bearers <- AllBear,
                                 MaxClock <- MaxTicks, pin <- post, clock <- now

tagVars == <<post, known, now, log, batch, posts, faults, told, late, lost, last,
             rows, round>>
allVars == <<part, vars, tagVars>>

MCInit == /\ Init /\ Tags!Init
          /\ \/ part = "record" /\ post = Tags!NoPin
             \/ part = "tags" /\ ~pin.question

OfRecord == part = "record" /\ UNCHANGED <<part, tagVars>>
OfTags   == part = "tags" /\ UNCHANGED <<part, vars>>

MCNext ==
  \/ \E c \in Clients : OfRecord /\ Close(c)
  \/ \E c \in Clients : OfRecord /\ Reopen(c)
  \/ \E c \in Clients : OfRecord /\ ConfirmShown(c)
  \/ \E c \in Clients : OfRecord /\ ConfirmAnyClose(c)
  \/ \E c \in Clients : OfRecord /\ Reply(c)
  \/ \E c \in Clients : OfRecord /\ EditSeen(c)
  \/ \E c \in Clients : OfRecord /\ EditBlind(c)
  \/ \E c \in Clients : OfRecord /\ Claim(c)
  \/ \E c \in Clients : OfRecord /\ Unclaim(c)
  \/ \E c \in Clients : OfRecord /\ Drop(c)
  \/ \E c \in Clients : OfRecord /\ Restore(c)
  \/ OfRecord /\ Read
  \/ OfRecord /\ Resync
  \/ OfRecord /\ Tick
  \/ \E c \in Tags!Clients, t \in Tags!Texts, h \in Tags!Hints :
       OfTags /\ Tags!Save(c, t, h)
  \/ \E c \in Tags!Clients, a \in HandedTo : OfTags /\ Tags!Assign(c, a)
  \/ \E c \in Tags!Clients, review \in BOOLEAN : OfTags /\ Tags!Close(c, review)
  \/ \E c \in Tags!Clients, p \in Writers : OfTags /\ Tags!Elsewhere(c, p)
  \/ \E p \in Writers : OfTags /\ Tags!Join(p)
  \/ OfTags /\ Tags!Emit
  \/ OfTags /\ Tags!LoseBatch
  \/ OfTags /\ Tags!Tick
  \/ OfTags /\ Tags!StepBack

MCSpec == MCInit /\ [][MCNext]_allVars

(* PinNotices's properties, of the posts here: a tag is told; a post tells *)
(* nobody twice, but a save of the note, which tells of a tag and of a     *)
(* hand-over, and the round shows its calls; and the cooldown is kept.     *)
TagsWereTold   == Tags!TagsWereTold
PostsReachAll  == Tags!PostReachesEachOnce /\ Tags!RoundCallsAreShown
CooldownKept   == Tags!CooldownKept

Symmetry == Permutations(Agents)
=============================================================================
