------------------------------- MODULE Screen -------------------------------
(***************************************************************************)
(* What the pages of one document promise to whoever looks at them: the    *)
(* screen names a complete page folder that exists, a new folder appears   *)
(* whole, and the folder the screen showed before stays until the screen   *)
(* moves again, so a drag made on the old pages can still be placed.       *)
(* LatexBuild implements this specification.                               *)
(***************************************************************************)
EXTENDS Naturals

VARIABLES shown,      \* the page folder on screen; 0 before the first one
          previous,   \* the one on screen before it
          available   \* the page folders a client may ask for

screenVars == <<shown, previous, available>>

Init == shown = 0 /\ previous = 0 /\ available = {}

\* A folder gets its name complete, and it is a new name.
Complete == /\ \E f \in available' : /\ \A g \in available \cup {shown, previous} : g < f
                                   /\ available' = available \cup {f}
            /\ UNCHANGED <<shown, previous>>

\* The screen moves to a newer folder that is there.
Show == /\ \E f \in available : f > shown /\ shown' = f
        /\ previous' = shown
        /\ UNCHANGED available

\* Old folders go; the one on screen and the one before it stay.
Prune == /\ available' \subseteq available
         /\ available \cap {shown, previous} \subseteq available'
         /\ UNCHANGED <<shown, previous>>

Next == Complete \/ Show \/ Prune

Spec == Init /\ [][Next]_screenVars
=============================================================================
