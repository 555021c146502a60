--------------------------- MODULE PlateLifecycle ---------------------------
(***************************************************************************)
(* What the queue promises about a plate, without rows, timestamps, claims *)
(* or processes: the states of PrintJobPlate.state, the steps between them *)
(* and the count of failures that decides between another try and giving   *)
(* the plate up.                                                           *)
(***************************************************************************)
EXTENDS Naturals

CONSTANTS Plates, MaxRetries

VARIABLES
    stage,      \* plate -> its state, "gone" once its job is deleted
    failures,   \* plate -> failed attempts since a user last queued it
    replaced    \* plate -> the failures the last queueing has set aside

vars == <<stage, failures, replaced>>

Busy   == {"starting", "printing", "awaiting_review"}
Stages == Busy \cup {"not_queued", "failed", "waiting", "completed", "gone"}

\* No plate counts more failures than it has retries.
TypeOK ==
    /\ stage \in [Plates -> Stages]
    /\ failures \in [Plates -> 0..MaxRetries]
    /\ replaced \in [Plates -> 0..MaxRetries]

Init ==
    /\ stage = [pl \in Plates |-> "not_queued"]
    /\ failures = [pl \in Plates |-> 0]
    /\ replaced = [pl \in Plates |-> 0]

\* The plates S go on as described, the others stay as they are.
Update(f, S, New(_)) == f' = [pl \in Plates |-> IF pl \in S THEN New(pl) ELSE f[pl]]

Unqueued(n) == IF n >= MaxRetries THEN "failed" ELSE "not_queued"

\* A user queues plates: their retry budget starts anew.
Queue(S) ==
    /\ \A pl \in S : stage[pl] \in {"not_queued", "failed"}
    /\ Update(stage, S, LAMBDA pl : "waiting")
    /\ Update(failures, S, LAMBDA pl : 0)
    /\ Update(replaced, S, LAMBDA pl : failures[pl])

\* Waiting plates leave the queue; a queueing that printed nothing is undone.
Dequeue(S) ==
    /\ \A pl \in S : stage[pl] = "waiting"
    /\ Update(failures, S, LAMBDA pl : IF failures[pl] = 0 THEN replaced[pl] ELSE failures[pl])
    /\ Update(stage, S, LAMBDA pl : Unqueued(failures'[pl]))
    /\ Update(replaced, S, LAMBDA pl : 0)

Step(pl, from, to) ==
    /\ stage[pl] \in from
    /\ stage' = [stage EXCEPT ![pl] = to]

Start(pl)   == Step(pl, {"waiting"}, "starting") /\ UNCHANGED <<failures, replaced>>
Release(pl) == Step(pl, {"starting"}, "waiting") /\ UNCHANGED <<failures, replaced>>
Begin(pl)   == Step(pl, {"starting", "waiting"}, "printing") /\ UNCHANGED <<failures, replaced>>
End(pl)     == Step(pl, {"printing"}, "awaiting_review") /\ UNCHANGED <<failures, replaced>>

Cancel(pl) ==
    /\ Step(pl, {"printing", "awaiting_review"}, "not_queued")
    /\ replaced' = [replaced EXCEPT ![pl] = 0]
    /\ UNCHANGED failures

Pass(pl) ==
    /\ Step(pl, {"awaiting_review"}, "completed")
    /\ failures' = [failures EXCEPT ![pl] = 0]
    /\ replaced' = [replaced EXCEPT ![pl] = 0]

\* Another try while the budget lasts.
Fail(pl) ==
    /\ Step(pl, {"awaiting_review"}, IF failures[pl] + 1 < MaxRetries THEN "waiting" ELSE "failed")
    /\ failures' = [failures EXCEPT ![pl] = @ + 1]
    /\ replaced' = [replaced EXCEPT ![pl] = 0]

\* Plates go with their job, unless they keep a printer busy.
Delete(S) ==
    /\ \A pl \in S : stage[pl] \notin Busy
    /\ Update(stage, S, LAMBDA pl : "gone")
    /\ Update(failures, S, LAMBDA pl : 0)
    /\ Update(replaced, S, LAMBDA pl : 0)

Next ==
    \/ \E S \in SUBSET Plates : Queue(S) \/ Dequeue(S) \/ Delete(S)
    \/ \E pl \in Plates : \/ Start(pl) \/ Release(pl) \/ Begin(pl) \/ End(pl)
                          \/ Cancel(pl) \/ Pass(pl) \/ Fail(pl)

Spec == Init /\ [][Next]_vars
=============================================================================
