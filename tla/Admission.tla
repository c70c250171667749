------------------------------ MODULE Admission ------------------------------
(***************************************************************************)
(* The bounded listener (--max-connections): the accepting loop, one       *)
(* worker thread per admitted connection, and the leases they share under  *)
(* the admission lock.  An action is one locked section or one uncertain   *)
(* call (making or starting a thread, closing a socket), so workers and    *)
(* the loop interleave between a reservation, an entry and a release.      *)
(***************************************************************************)
EXTENDS Integers, FiniteSets

CONSTANTS Conns,      \* the connections that may arrive, finitely many
          Limit,      \* --max-connections, at least 1
          MaxFaults,  \* bound on failing thread and socket calls
          NoCause     \* no fatal cause yet, not a connection

VARIABLES nextGeneration, stopped, pending, claimed,  \* AdmissionState
          fatal,      \* _fatal: the first cause, a connection
          lease,      \* lease[k]: the generation reserved for k, or NoLease
          stage,      \* stage[k]: how far connection k is
          open,       \* connections whose accepted socket is open
          loop,       \* the accepting loop: its step and its connection
          listening,  \* the listening socket is open
          faults

admission == <<nextGeneration, stopped, pending, claimed>>
vars == <<nextGeneration, stopped, pending, claimed, fatal, lease, stage, open,
          loop, listening, faults>>

NoLease == -1
Stages == {"backlog", "accepted", "refused", "running", "handling", "cleaning",
           "closed", "failing", "recording", "done", "lost"}
Steps == {"select", "reserve", "refuse", "make", "undo", "release", "start",
          "service", "fence", "record", "close", "dead"}

TypeOK == /\ nextGeneration \in Nat /\ stopped \in BOOLEAN
          /\ pending \subseteq Nat /\ claimed \subseteq Nat
          /\ fatal \in Conns \cup {NoCause}
          /\ lease \in [Conns -> Nat \cup {NoLease}]
          /\ stage \in [Conns -> Stages]
          /\ open \subseteq Conns
          /\ loop \in [step : Steps, conn : Conns \cup {NoCause}]
          /\ listening \in BOOLEAN /\ faults \in 0..MaxFaults

Init == /\ nextGeneration = 0 /\ stopped = FALSE
        /\ pending = {} /\ claimed = {}
        /\ fatal = NoCause
        /\ lease = [k \in Conns |-> NoLease]
        /\ stage = [k \in Conns |-> "backlog"]
        /\ open = {}
        /\ loop = [step |-> "select", conn |-> NoCause]
        /\ listening = TRUE /\ faults = 0

-----------------------------------------------------------------------------
(* The pure admission rules of connection_policy.py. *)
Admitted == Cardinality(pending) + Cardinality(claimed)

Reserve(k) == /\ ~stopped /\ Admitted < Limit
              /\ lease' = [lease EXCEPT ![k] = nextGeneration]
              /\ pending' = pending \cup {nextGeneration}
              /\ nextGeneration' = nextGeneration + 1
              /\ UNCHANGED <<stopped, claimed>>

Enterable(k) == ~stopped /\ lease[k] \in pending

ClaimLease(k) == /\ pending' = pending \ {lease[k]}
                 /\ claimed' = claimed \cup {lease[k]}
                 /\ UNCHANGED <<nextGeneration, stopped>>

\* mutant: a claimed lease is not given back.
ReleasePending(k) == /\ pending' = pending \ {lease[k]}
                     /\ UNCHANGED <<nextGeneration, stopped, claimed>>
ReleaseLease(k) == /\ pending' = pending \ {lease[k]}
                   /\ claimed' = claimed \ {lease[k]}
                   /\ UNCHANGED <<nextGeneration, stopped>>

Stop == stopped' = TRUE /\ UNCHANGED <<nextGeneration, pending, claimed>>

Fault == faults < MaxFaults /\ faults' = faults + 1
Goto(step) == loop' = [loop EXCEPT !.step = step]
Stage(k, s) == stage' = [stage EXCEPT ![k] = s]

-----------------------------------------------------------------------------
(* The accepting loop.  k is the connection process_request is called for. *)
Accept(k) == /\ loop.step = "select" /\ stage[k] = "backlog"
             /\ loop' = [step |-> "reserve", conn |-> k]
             /\ Stage(k, "accepted") /\ open' = open \cup {k}
             /\ UNCHANGED <<admission, fatal, lease, listening, faults>>

ReserveOrRefuse ==
  /\ loop.step = "reserve"
  /\ \/ fatal = NoCause /\ Reserve(loop.conn) /\ Goto("make") /\ UNCHANGED stage
     \/ /\ fatal # NoCause \/ stopped \/ Admitted >= Limit
        /\ Goto("refuse") /\ Stage(loop.conn, "refused")
        /\ UNCHANGED <<admission, lease>>
  /\ UNCHANGED <<fatal, open, listening, faults>>

(* _cleanup_connection succeeds exactly when the socket attests closed; a  *)
(* cleanup that fails in the loop is fatal.                                *)
LoopCleanup ==
  /\ loop.step \in {"refuse", "undo"}
  /\ \/ /\ open' = open \ {loop.conn}
        /\ Goto(IF loop.step = "refuse" THEN "service" ELSE "release")
        /\ Stage(loop.conn, IF loop.step = "refuse" THEN "done" ELSE "closed")
        /\ UNCHANGED faults
     \/ Fault /\ Goto("fence") /\ UNCHANGED <<open, stage>>
  /\ UNCHANGED <<admission, fatal, lease, listening>>

\* mutant: the place of an unmade worker returns before its socket closes.
MakeWorkerOrRelease ==
  /\ loop.step = "make"
  /\ \/ Goto("start") /\ UNCHANGED faults
     \/ Fault /\ Goto("release")
  /\ UNCHANGED <<admission, fatal, lease, stage, open, listening>>

MakeWorker ==
  /\ loop.step = "make"
  /\ \/ Goto("start") /\ UNCHANGED faults
     \/ Fault /\ Goto("undo")
  /\ UNCHANGED <<admission, fatal, lease, stage, open, listening>>

ReleaseUnmade ==
  /\ loop.step = "release"
  /\ ReleaseLease(loop.conn) /\ Goto("service") /\ Stage(loop.conn, "done")
  /\ UNCHANGED <<fatal, lease, open, listening, faults>>

(* A failing Thread.start may or may not have started the worker. *)
StartWorker ==
  /\ loop.step = "start"
  /\ \/ Goto("service") /\ Stage(loop.conn, "running") /\ UNCHANGED faults
     \/ /\ Fault /\ Goto("fence")
        /\ Stage(loop.conn, "running") \/ Stage(loop.conn, "lost")
  /\ UNCHANGED <<admission, fatal, lease, open, listening>>

(* service_actions, after every connection and every poll interval. *)
Service ==
  /\ \/ loop.step = "service"
     \/ loop.step = "select" /\ fatal # NoCause
  /\ loop' = [step |-> IF fatal = NoCause THEN "select" ELSE "fence",
              conn |-> NoCause]
  /\ UNCHANGED <<admission, fatal, lease, stage, open, listening, faults>>

(* _fail_start: publish the first cause, fence entry, close the listener.  *)
LoopFence == /\ loop.step = "fence"
             /\ fatal' = IF fatal = NoCause THEN loop.conn ELSE fatal
             /\ Goto("record")
             /\ UNCHANGED <<admission, lease, stage, open, listening, faults>>

LoopRecord == /\ loop.step = "record"
              /\ Stop /\ Goto("close")
              /\ UNCHANGED <<fatal, lease, stage, open, listening, faults>>

(* The exception leaves serve_forever; the standard library shuts the      *)
(* connection it was dispatching on the way, if that still works.          *)
LoopClose == /\ loop.step = "close"
             /\ listening' = FALSE /\ Goto("dead")
             /\ open' \in {open, open \ {loop.conn}}
             /\ UNCHANGED <<admission, fatal, lease, stage, faults>>

(* An orderly stop between two connections: server_close. *)
ServerClose == /\ loop.step = "select"
               /\ Stop /\ listening' = FALSE /\ Goto("dead")
               /\ UNCHANGED <<fatal, lease, stage, open, faults>>

-----------------------------------------------------------------------------
\* mutant: entry looks at the admission state alone.
EnterUnfenced(k) ==
  /\ stage[k] = "running"
  /\ IF Enterable(k) THEN ClaimLease(k) /\ Stage(k, "handling")
     ELSE UNCHANGED admission /\ Stage(k, "cleaning")
  /\ UNCHANGED <<fatal, lease, open, loop, listening, faults>>

(* _run_connection in the worker of connection k. *)
Enter(k) ==
  /\ stage[k] = "running"
  /\ IF fatal = NoCause /\ Enterable(k)
     THEN ClaimLease(k) /\ Stage(k, "handling")
     ELSE UNCHANGED admission /\ Stage(k, "cleaning")
  /\ UNCHANGED <<fatal, lease, open, loop, listening, faults>>

Handled(k) == /\ stage[k] = "handling" /\ Stage(k, "cleaning")
              /\ UNCHANGED <<admission, fatal, lease, open, loop, listening,
                             faults>>

WorkerCleanup(k) ==
  /\ stage[k] = "cleaning"
  /\ \/ open' = open \ {k} /\ Stage(k, "closed") /\ UNCHANGED faults
     \/ Fault /\ k \in open /\ Stage(k, "failing") /\ UNCHANGED open
  /\ UNCHANGED <<admission, fatal, lease, loop, listening>>

WorkerRelease(k) ==
  /\ stage[k] = "closed" /\ ~(loop.step = "release" /\ loop.conn = k)
  /\ ReleaseLease(k) /\ Stage(k, "done")
  /\ UNCHANGED <<fatal, lease, open, loop, listening, faults>>

WorkerFence(k) == /\ stage[k] = "failing"
                  /\ fatal' = IF fatal = NoCause THEN k ELSE fatal
                  /\ Stage(k, "recording")
                  /\ UNCHANGED <<admission, lease, open, loop, listening, faults>>

WorkerRecord(k) == /\ stage[k] = "recording"
                   /\ Stop /\ Stage(k, "lost")
                   /\ UNCHANGED <<fatal, lease, open, loop, listening, faults>>

-----------------------------------------------------------------------------
LoopStep == \/ ReserveOrRefuse \/ LoopCleanup \/ MakeWorker \/ ReleaseUnmade
            \/ StartWorker \/ Service \/ LoopFence \/ LoopRecord \/ LoopClose
WorkerStep(k) == \/ Enter(k) \/ WorkerCleanup(k) \/ WorkerRelease(k)
                 \/ WorkerFence(k) \/ WorkerRecord(k)

Next == \/ LoopStep \/ ServerClose
        \/ \E k \in Conns : Accept(k) \/ WorkerStep(k) \/ Handled(k)

Spec == Init /\ [][Next]_vars

(* Threads that can run do.  A client may keep its connection for ever     *)
(* (Handled), and none need arrive (Accept).                               *)
FairSpec == /\ Spec /\ WF_vars(LoopStep)
            /\ \A k \in Conns : WF_vars(WorkerStep(k))

-----------------------------------------------------------------------------
(* AdmissionState's own validity, which its constructor would raise on: no *)
(* lease both pending and claimed, none unissued, never more than Limit.   *)
AdmissionStateValid == /\ TypeOK
                       /\ pending \cap claimed = {}
                       /\ \A g \in pending \cup claimed : g < nextGeneration
                       /\ Admitted <= Limit

(* The cap is physical: every accepted socket still open, but the one the  *)
(* loop is refusing, holds a live lease of its own - through a failed      *)
(* thread, a failed cleanup or an uncertain start - and a lease is given   *)
(* back only once its socket is closed (ADR-0016).  A handler's lease is   *)
(* claimed, so no more than Limit run.                                     *)
Owned == {k \in open : stage[k] \notin {"accepted", "refused"}}
OpenSocketsHoldLeases ==
  /\ \A k \in Owned : lease[k] \in pending \cup claimed
  /\ \A j, k \in Owned : lease[j] = lease[k] => j = k
  /\ Cardinality(open \ Owned) <= 1
  /\ \A k \in open : lease[k] # NoLease => lease[k] \in pending \cup claimed
  /\ \A k \in Conns : stage[k] = "handling" => lease[k] \in claimed

(* Once a fatal cause is published no handler starts, and the cause that   *)
(* is reported stays the first one.                                        *)
NoEntryAfterFatal ==
  [][fatal # NoCause =>
       /\ fatal' = fatal
       /\ \A k \in Conns : stage'[k] = "handling" => stage[k] = "handling"]_vars

(* A fatal cause published by any thread ends the service: nobody enters a *)
(* handler behind it, and the loop closes the listener (both stay so).     *)
FatalEndsService == NoEntryAfterFatal /\ []<>(fatal # NoCause => ~listening)

(* A connection whose handler has ended, or never began, gives its place   *)
(* back, unless the listener is failing.                                   *)
Over(k) == stage[k] \in {"cleaning", "failing", "closed", "recording", "done", "lost"}
PlacesAreReturned ==
  \A k \in Conns : []<>(Over(k) => lease[k] \notin pending \cup claimed \/ fatal # NoCause)

(* Together: the ledger of places is the truth about the sockets.          *)
PlacesHold == AdmissionStateValid /\ OpenSocketsHoldLeases
=============================================================================
