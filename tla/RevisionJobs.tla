---------------------------- MODULE RevisionJobs ----------------------------
(***************************************************************************)
(* Comparison PDFs: servers that share a state directory, a cache folder   *)
(* for every comparison, and the worker threads that fill them.  A start   *)
(* claims a build slot, the document's file lock, an entry of the active   *)
(* table and a fresh folder one after the other and hands all of them to   *)
(* a thread; any of its steps may fail.                                    *)
(***************************************************************************)
EXTENDS Integers, FiniteSets

CONSTANTS Servers,    \* processes that serve the directory
          NoServer,
          Keys,       \* comparisons, one cache folder each
          NoKey,
          DocOf,      \* DocOf[k]: the document k compares
          ClassOf,    \* ClassOf[k]: how many blocks of which commits k applies
          Limit,      \* Limit[c]: folders of a class the cache keeps (CACHE_LIMITS)
          Slots,      \* builds a process runs at once
          MaxFaults   \* bound on failing calls and dying processes

Classes == {"whole", "scoped", "ranged"}
Docs == {DocOf[k] : k \in Keys}

ASSUME NamesAssumption == NoServer \notin Servers /\ NoKey \notin Keys
ASSUME CacheAssumption == /\ IsFiniteSet(Keys) /\ IsFiniteSet(Servers)
                          /\ ClassOf \in [Keys -> Classes]
                          /\ Limit \in [Classes -> Nat \ {0}]
ASSUME BoundsAssumption == Slots \in Nat \ {0} /\ MaxFaults \in Nat

VARIABLES folder,  \* folder[k]: what k's cache folder holds
          newer,   \* <<j, k>>: j's folder was written after k's, one document
          free,    \* free[s]: the slots left
          held,    \* held[d]: whose job holds d's build.lock
          active,  \* active[s]: the jobs s says are running
          call,    \* call[s]: the comparison a request is about to start;
                   \*   it holds the lock of s's jobs
          stage,   \* stage[s][k]: how far s's worker for k is
          faults   \* failures so far

claims == <<free, held, active>>
cache  == <<folder, newer>>
vars   == <<cache, claims, call, stage, faults>>

(* A result is a PDF and a status that says so, a failure that every build *)
(* of a pin's part would meet (DETERMINISTIC_FAILURES), or one that does   *)
(* not keep anybody from building again; no result at all is like the last.*)
Results == {"ready", "fails", "retry"}
Absent  == [there |-> FALSE, result |-> "retry", marked |-> FALSE, old |-> FALSE]
Empty(marked) == [Absent EXCEPT !.there = TRUE, !.marked = marked]

TypeOK ==
  /\ folder \in [Keys -> [there : BOOLEAN, result : Results,
                          marked : BOOLEAN, old : BOOLEAN]]
  /\ newer \subseteq Keys \X Keys
  /\ free \in [Servers -> 0..Slots]
  /\ held \in [Docs -> Servers \cup {NoServer}]
  /\ active \in [Servers -> SUBSET Keys]
  /\ call \in [Servers -> Keys \cup {NoKey}]
  /\ stage \in [Servers -> [Keys -> {"none", "building", "stored"} \cup Results]]
  /\ faults \in 0..MaxFaults

Init == /\ folder = [k \in Keys |-> Absent]
        /\ newer = {}
        /\ free = [s \in Servers |-> Slots]
        /\ held = [d \in Docs |-> NoServer]
        /\ active = [s \in Servers |-> {}]
        /\ call = [s \in Servers |-> NoKey]
        /\ stage = [s \in Servers |-> [k \in Keys |-> "none"]]
        /\ faults = 0

Works(s, k) == stage[s][k] # "none"
Working(s)  == {k \in Keys : Works(s, k)}

-----------------------------------------------------------------------------
(* A finished comparison is answered until it expires. *)
Ready(k) == folder[k].result = "ready" /\ ~folder[k].old

(* What POST /api/revision-build answers without building. *)
AnsweredFromCache(k) ==
  Ready(k) \/ (folder[k].result = "fails" /\ ~folder[k].old)

(* cache_class reads the mark, which a failed start may not have written. *)
Kind(k) == IF folder[k].marked THEN ClassOf[k] ELSE "whole"

(* The folder to be built is one of a class: a range's, else whole-commit. *)
KeepClass(k) == IF ClassOf[k] = "ranged" THEN "ranged" ELSE "whole"

Newer(j, k) == <<j, k>> \in newer

(* The folders of a document, in the order they were last written. *)
Folders(d) == {k \in Keys : folder[k].there /\ DocOf[k] = d}
FoldersAreOrdered ==
  /\ \A j, k \in Keys : Newer(j, k) =>
       /\ DocOf[j] = DocOf[k] /\ folder[j].there /\ folder[k].there
       /\ ~Newer(k, j)
  /\ \A d \in Docs : \A j, k \in Folders(d) : j # k => Newer(j, k) \/ Newer(k, j)
  /\ \A i, j, k \in Keys : Newer(i, j) /\ Newer(j, k) => Newer(i, k)

\* mutant: the newest go first.
PrunedNewestFirst(s, k) ==
  LET others == {j \in Keys \ {k} : /\ folder[j].there /\ DocOf[j] = DocOf[k]
                                    /\ j \notin active[s]}
      ahead(j) == {i \in others : /\ Newer(j, i) /\ ~folder[i].old
                                  /\ Kind(i) = Kind(j)}
      taken(c) == IF c = KeepClass(k) THEN 1 ELSE 0
  IN  {j \in others :
         \/ folder[j].old
         \/ Cardinality(ahead(j)) + taken(Kind(j)) >= Limit[Kind(j)]}

(* revision_prune: the expired folders of the document, and those beyond   *)
(* the limit of their class, newest first.                                 *)
Pruned(s, k) ==
  LET others == {j \in Keys \ {k} : /\ folder[j].there /\ DocOf[j] = DocOf[k]
                                    /\ j \notin active[s]}
      ahead(j) == {i \in others : /\ Newer(i, j) /\ ~folder[i].old
                                  /\ Kind(i) = Kind(j)}
      taken(c) == IF c = KeepClass(k) THEN 1 ELSE 0
  IN  {j \in others :
         \/ folder[j].old
         \/ Cardinality(ahead(j)) + taken(Kind(j)) >= Limit[Kind(j)]}

(* rmtree of a folder, failing half way, leaves any part of it, written    *)
(* just now; the status in it stays as old as it was.                      *)
Torn(f) == [there : {TRUE},
            result : {"retry"} \cup IF f.old THEN {} ELSE {f.result},
            marked : {f.marked, FALSE}, old : {FALSE}]

Without(S)    == [k \in Keys |-> IF k \in S THEN Absent ELSE folder[k]]
Unlisted(S)    == {p \in newer : p[1] \notin S /\ p[2] \notin S}
Touched(k, S)  == Unlisted(S \cup {k})
                    \cup {<<k, j>> : j \in Folders(DocOf[k]) \ (S \cup {k})}

-----------------------------------------------------------------------------
(* revision_start up to _start_job: neither running here nor answered from *)
(* the cache.                                                              *)
Look(s, k) == /\ call[s] = NoKey
              /\ k \notin active[s] /\ ~AnsweredFromCache(k)
              /\ call' = [call EXCEPT ![s] = k]
              /\ UNCHANGED <<cache, claims, stage, faults>>

Returns(s) == call' = [call EXCEPT ![s] = NoKey]

CanClaim(s) == free[s] > 0 /\ held[DocOf[call[s]]] = NoServer

(* AllSlotsBusy and DocumentBusy: what was claimed is given back. *)
Refuse(s) == /\ call[s] # NoKey /\ ~CanClaim(s)
             /\ Returns(s)
             /\ UNCHANGED <<cache, claims, stage, faults>>

(* The claims of a started job, which its worker frees. *)
Claims(s, k) == /\ free' = [free EXCEPT ![s] = @ - 1]
                /\ held' = [held EXCEPT ![DocOf[k]] = s]
                /\ active' = [active EXCEPT ![s] = @ \cup {k}]

Start(s) ==
  /\ call[s] # NoKey /\ CanClaim(s)
  /\ LET k == call[s]
         gone == Pruned(s, k)
     IN  /\ folder' = [Without(gone) EXCEPT
                         ![k] = Empty(ClassOf[k] # "whole")]
         /\ newer' = Touched(k, gone)
         /\ Claims(s, k)
         /\ stage' = [stage EXCEPT ![s][k] = "building"]
  /\ Returns(s)
  /\ UNCHANGED faults

(* A start that raises: in the prune, which then has removed what is newer *)
(* than the folder it could not remove; in removing or making the job's    *)
(* folder or its mark; or in starting the thread.  Nothing stays claimed.  *)
StoppedInPrune(s, k) ==
  \E j \in Pruned(s, k) :
    LET gone == {i \in Pruned(s, k) : Newer(i, j)}
    IN  \/ /\ folder' = Without(gone)
           /\ newer' = Unlisted(gone)
        \/ \E f \in Torn(folder[j]) :
             /\ folder' = [Without(gone) EXCEPT ![j] = f]
             /\ newer' = Touched(j, gone)

StoppedInFolder(s, k) ==
  LET gone == Pruned(s, k)
  IN  \/ /\ folder' = Without(gone)
         /\ newer' = Unlisted(gone)
      \/ /\ folder' = Without(gone \cup {k})
         /\ newer' = Unlisted(gone \cup {k})
      \/ \E f \in {Empty(m) : m \in BOOLEAN}
                   \cup IF folder[k].there THEN Torn(folder[k]) ELSE {} :
           /\ folder' = [Without(gone) EXCEPT ![k] = f]
           /\ newer' = Touched(k, gone)

Stopped(s, k) == StoppedInPrune(s, k) \/ StoppedInFolder(s, k) \/ UNCHANGED cache

\* mutant: a thread that does not start keeps its slot.
StartFailsHoldingSlot(s) ==
  /\ call[s] # NoKey /\ CanClaim(s) /\ faults < MaxFaults
  /\ Stopped(s, call[s])
  /\ Returns(s)
  /\ free' = [free EXCEPT ![s] = @ - 1]
  /\ faults' = faults + 1
  /\ UNCHANGED <<held, active, stage>>

StartFails(s) == /\ call[s] # NoKey /\ CanClaim(s) /\ faults < MaxFaults
                 /\ Stopped(s, call[s])
                 /\ Returns(s)
                 /\ faults' = faults + 1
                 /\ UNCHANGED <<claims, stage>>

-----------------------------------------------------------------------------
(* revision_compile works in the folder and moves the PDF there last; until *)
(* the status is stored nobody looks for it.                               *)
Compile(s, k) ==
  /\ stage[s][k] = "building"
  /\ \E r \in Results :
       /\ r = "fails" => ClassOf[k] = "scoped"
       /\ stage' = [stage EXCEPT ![s][k] = r]
  /\ UNCHANGED <<cache, claims, call, faults>>

(* The final status; a write that fails is passed over. *)
Store(s, k) ==
  /\ stage[s][k] \in Results
  /\ stage' = [stage EXCEPT ![s][k] = "stored"]
  /\ \/ /\ folder[k].there
        /\ folder' = [folder EXCEPT ![k].result = stage[s][k]]
        /\ newer' = Touched(k, {})
        /\ UNCHANGED faults
     \/ /\ UNCHANGED cache
        /\ faults < MaxFaults /\ faults' = faults + 1
  /\ UNCHANGED <<claims, call>>

(* The worker's finally, under the lock of the jobs. *)
Release(s, k) ==
  /\ stage[s][k] = "stored" /\ call[s] = NoKey
  /\ stage' = [stage EXCEPT ![s][k] = "none"]
  /\ free' = [free EXCEPT ![s] = @ + 1]
  /\ held' = [held EXCEPT ![DocOf[k]] = NoServer]
  /\ active' = [active EXCEPT ![s] = @ \ {k}]
  /\ UNCHANGED <<cache, call, faults>>

(* A process dies, its threads and file locks with it, and another one     *)
(* takes its place.                                                        *)
Crash(s) ==
  /\ faults < MaxFaults /\ faults' = faults + 1
  /\ call[s] # NoKey \/ Working(s) # {}
  /\ free' = [free EXCEPT ![s] = Slots]
  /\ held' = [d \in Docs |-> IF held[d] = s THEN NoServer ELSE held[d]]
  /\ active' = [active EXCEPT ![s] = {}]
  /\ call' = [call EXCEPT ![s] = NoKey]
  /\ stage' = [stage EXCEPT ![s] = [k \in Keys |-> "none"]]
  /\ UNCHANGED cache

(* A day passes for the folder written longest ago; no job takes that long. *)
Expire(k) == /\ folder[k].there /\ ~folder[k].old
             /\ \A j \in Keys : Newer(k, j) => folder[j].old
             /\ \A s \in Servers : ~Works(s, k)
             /\ folder' = [folder EXCEPT ![k].old = TRUE]
             /\ UNCHANGED <<newer, claims, call, stage, faults>>

Work(s, k) == Compile(s, k) \/ Store(s, k)
Answer(s)  == Refuse(s) \/ Start(s) \/ StartFails(s)

Next == \/ \E s \in Servers : Answer(s) \/ Crash(s)
        \/ \E s \in Servers, k \in Keys :
             Look(s, k) \/ Work(s, k) \/ Release(s, k)
        \/ \E k \in Keys : Expire(k)

Spec == Init /\ [][Next]_vars

-----------------------------------------------------------------------------
(* Whatever fails or dies, what is claimed is what the running jobs need:  *)
(* one slot each, their documents, their entries of the active table; and  *)
(* the folders of a document have one order, in which they are pruned.     *)
ClaimsMatchJobs ==
  /\ TypeOK
  /\ FoldersAreOrdered
  /\ \A s \in Servers : /\ active[s] = Working(s)
                        /\ free[s] = Slots - Cardinality(Working(s))
                        /\ \A d \in Docs :
                             held[d] = s <=> \E k \in Working(s) : DocOf[k] = d

(* "A second server sharing a state directory must not prune or replace    *)
(* this job": a document has one job at a time, and its folder is there.   *)
BuildsAreAlone ==
  \A s, t \in Servers : \A k \in Working(s), j \in Working(t) :
    /\ folder[k].there
    /\ DocOf[k] = DocOf[j] => s = t /\ k = j

(* What the limits allow a document: a class none of its comparisons is of *)
(* allows nothing.                                                         *)
Room(d, c) == IF c = "whole" \/ \E k \in Keys : DocOf[k] = d /\ ClassOf[k] = c
              THEN Limit[c] ELSE 0

(* A document never has more folders than the limits of its classes        *)
(* together, whatever was left half made or half removed (which counts as  *)
(* a whole commit's).                                                      *)
CacheIsBounded ==
  \A d \in Docs :
    Cardinality(Folders(d)) <= Room(d, "whole") + Room(d, "scoped") + Room(d, "ranged")

(* A comparison that a worker just finished outlives the next start for    *)
(* its document: whoever asked for it can come and read it.                *)
FreshResultStays ==
  [][\A k \in Keys :
       /\ Ready(k)
       /\ \A j \in Keys : ~Newer(j, k)
       /\ \A s \in Servers : call[s] # k
       => folder'[k].there]_vars

(* Together: slots, build locks, jobs and folders account for each other.  *)
JobsHold == ClaimsMatchJobs /\ BuildsAreAlone /\ CacheIsBounded
=============================================================================
