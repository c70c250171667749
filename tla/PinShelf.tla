------------------------------ MODULE PinShelf ------------------------------
(***************************************************************************)
(* What the pin files promise, whatever happens to the server between two  *)
(* file replacements.  A pin is one numbered review note.  A number is in  *)
(* exactly one place: never used, live (pins.jsonl), in the Trash          *)
(* (pins.dropped.jsonl), in an archive (pins_*.jsonl.bak), or gone for     *)
(* good (purged by the owner or expired).  PinStore, which writes the      *)
(* files one by one and may crash or fail in between, implements this.     *)
(***************************************************************************)
EXTENDS Integers

CONSTANT Ids            \* the pin numbers, an interval 1..n

VARIABLES place,        \* place[i]: where pin number i is
          revision      \* revision[i]: the revision of its authoritative copy, 0 if none

shelf == <<place, revision>>

Places == {"none", "live", "trash", "archived", "gone"}

TypeOK == /\ place \in [Ids -> Places]
          /\ revision \in [Ids -> Int]

Init == /\ place \in [Ids -> Places \ {"gone"}]
        /\ revision \in [Ids -> {0}]

(* Every pin outside S stays where it is.  A transaction re-synchronises   *)
(* the anchored pins it reads, so a live one may get a higher revision.    *)
OthersKept(S) ==
  \A j \in Ids \ S : /\ place'[j] = place[j]
                     /\ \/ revision'[j] = revision[j]
                        \/ place[j] = "live" /\ revision'[j] > revision[j]

(* A number above every number ever used becomes a live pin. *)
Add(i) == /\ \A j \in Ids : j >= i => place[j] = "none"
          /\ place'[i] = "live" /\ revision'[i] = 0
          /\ OthersKept({i})

(* A change, or a re-sync alone: revisions of live pins rise, no pin moves. *)
Change == OthersKept({})

Drop(i) == /\ place[i] = "live" /\ place'[i] = "trash"
           /\ revision'[i] >= revision[i]
           /\ OthersKept({i})

(* Only the Trash gives a pin back, with a revision no client has seen. *)
Restore(i) == /\ place[i] = "trash" /\ place'[i] = "live"
              /\ revision'[i] > revision[i]
              /\ OthersKept({i})

(* clear: all live pins at once, none left behind. *)
Archive == LET moved == {i \in Ids : place[i] = "live"}
           IN  /\ \A i \in moved : /\ place'[i] = "archived"
                                   /\ revision'[i] = revision[i]
               /\ OthersKept(moved)

(* Purge and expiry: only the Trash loses pins, and for good. *)
Destroy(S) == /\ \A i \in S : /\ place[i] = "trash" /\ place'[i] = "gone"
                              /\ revision'[i] = 0
              /\ OthersKept(S)

Next == \/ Change \/ Archive
        \/ \E i \in Ids : Add(i) \/ Drop(i) \/ Restore(i)
        \/ \E S \in SUBSET Ids : Destroy(S)

Spec == Init /\ [][Next]_shelf
=============================================================================
