------------------------------ MODULE MCLimits ------------------------------
(***************************************************************************)
(* The two limits of a server, for TLC: the comparisons it builds and      *)
(* keeps (RevisionJobs), or the connections it admits (Admission).  Both   *)
(* take a place before a thread exists and must give it back whatever      *)
(* fails; part says which of them runs, the other stays as it started.     *)
(*                                                                         *)
(* Servers and whole commits are interchangeable.  What must come about is *)
(* the listener's, and neither its fairness nor its properties name any of *)
(* them, so the symmetry is sound for it too.                              *)
(***************************************************************************)
EXTENDS RevisionJobs, TLC

CONSTANTS WholeKeys, PinKeys, OtherKeys, doc, otherDoc,
          Conns, Places, MaxFailing, NoCause

MCKeys    == WholeKeys \cup PinKeys \cup OtherKeys
MCDocOf   == [k \in MCKeys |-> IF k \in OtherKeys THEN otherDoc ELSE doc]
MCClassOf == [k \in MCKeys |->
                IF k \in WholeKeys THEN "whole"
                ELSE IF k \in PinKeys THEN "scoped" ELSE "ranged"]
MCLimit   == [whole |-> 2, scoped |-> 1, ranged |-> 2]

VARIABLES part, nextGeneration, stopped, pending, claimed, fatal, lease, at, open,
          loop, listening, failing

Listener == INSTANCE Admission WITH Limit <- Places, MaxFaults <- MaxFailing,
                                    stage <- at, faults <- failing

gateVars == <<nextGeneration, stopped, pending, claimed, fatal, lease, at, open,
              loop, listening, failing>>
allVars == <<part, vars, gateVars>>

MCInit == Init /\ Listener!Init /\ part \in {"jobs", "listener"}

OfJobs     == part = "jobs" /\ UNCHANGED <<part, gateVars>>
OfListener == part = "listener" /\ UNCHANGED <<part, vars>>
Serves     == OfListener /\ Listener!LoopStep
Attends(c) == OfListener /\ Listener!WorkerStep(c)

MCNext ==
  \/ \E s \in Servers : OfJobs /\ Refuse(s)
  \/ \E s \in Servers : OfJobs /\ Start(s)
  \/ \E s \in Servers : OfJobs /\ StartFails(s)
  \/ \E s \in Servers : OfJobs /\ Crash(s)
  \/ \E s \in Servers, k \in Keys : OfJobs /\ Look(s, k)
  \/ \E s \in Servers, k \in Keys : OfJobs /\ Compile(s, k)
  \/ \E s \in Servers, k \in Keys : OfJobs /\ Store(s, k)
  \/ \E s \in Servers, k \in Keys : OfJobs /\ Release(s, k)
  \/ \E k \in Keys : OfJobs /\ Expire(k)
  \/ OfListener /\ Listener!ReserveOrRefuse
  \/ OfListener /\ Listener!LoopCleanup
  \/ OfListener /\ Listener!MakeWorker
  \/ OfListener /\ Listener!ReleaseUnmade
  \/ OfListener /\ Listener!StartWorker
  \/ OfListener /\ Listener!Service
  \/ OfListener /\ Listener!LoopFence
  \/ OfListener /\ Listener!LoopRecord
  \/ OfListener /\ Listener!LoopClose
  \/ OfListener /\ Listener!ServerClose
  \/ \E c \in Conns : OfListener /\ Listener!Accept(c)
  \/ \E c \in Conns : OfListener /\ Listener!Enter(c)
  \/ \E c \in Conns : OfListener /\ Listener!Handled(c)
  \/ \E c \in Conns : OfListener /\ Listener!WorkerCleanup(c)
  \/ \E c \in Conns : OfListener /\ Listener!WorkerRelease(c)
  \/ \E c \in Conns : OfListener /\ Listener!WorkerFence(c)
  \/ \E c \in Conns : OfListener /\ Listener!WorkerRecord(c)

(* The threads of the listener run, as Admission's FairSpec says. *)
MCSpec == /\ MCInit /\ [][MCNext]_allVars
          /\ WF_allVars(Serves)
          /\ \A c \in Conns : WF_allVars(Attends(c))

(* Admission's properties, of the listener here. *)
PlacesHold        == Listener!PlacesHold
FatalEndsService  == Listener!FatalEndsService
PlacesAreReturned == Listener!PlacesAreReturned

Symmetry == Permutations(Servers) \cup Permutations(WholeKeys)
=============================================================================
