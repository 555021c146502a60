-------------------------- MODULE PrintQueueProofs --------------------------
(***************************************************************************)
(* Proofs about the print queue, for any number of plates, printers,       *)
(* starters and attempts: types; the safety invariants that hold however   *)
(* long an upload takes (Consistent); and those about starts in progress   *)
(* (Exclusive): the claim that a start holds on its entry keeps every      *)
(* other start, adoption and removal away from the entry and from its      *)
(* printer, provided that no upload outlasts the claim.                    *)
(* Then the attempts of a plate, from one queueing by a user to the next   *)
(* (Cycles): they are why lists and pages agree about every derived state, *)
(* and why the table implements the life cycle of plates.                  *)
(***************************************************************************)
EXTENDS JobStatus, FiniteSetTheorems, TLAPS

Table == [Pk -> Attempt \cup {NoRow}]

(***************************************************************************)
(* Rows and the table.                                                     *)
(***************************************************************************)

\* A row of the table is an attempt.
LEMMA RowIsAttempt ==
  ASSUME queue \in Table, NEW a \in Rows
  PROVE  a \in Pk /\ queue[a] \in Attempt
BY DEF Table, Rows

\* Stamping or clearing a column keeps the row an attempt.
LEMMA StampedRow ==
  ASSUME NEW r \in Attempt, NEW v \in Timestamp, NEW w \in Timestamp
  PROVE  /\ [r EXCEPT !.claim = v] \in Attempt
         /\ [r EXCEPT !.completed = v] \in Attempt
         /\ [r EXCEPT !.started = v, !.claim = w] \in Attempt
BY DEF Attempt

LEMMA ResolvedRow ==
  ASSUME NEW r \in Attempt, NEW v \in Results
  PROVE  [r EXCEPT !.result = v] \in Attempt
BY DEF Attempt

LEMMA NewRow ==
  ASSUME NEW pl \in Plates, NEW p \in Printers, NEW prio \in Priorities, NEW n \in Nat, NEW retry \in BOOLEAN
  PROVE  NewAttempt(pl, p, prio, n, retry) \in Attempt
BY DEF Attempt, NewAttempt, Timestamp, Null, Stamp

LEMMA RowUpdates ==
  ASSUME queue \in Table, NEW a \in Rows, NEW v \in Timestamp, NEW w \in Timestamp, NEW res \in Results
  PROVE  /\ [queue EXCEPT ![a].claim = v] \in Table
         /\ [queue EXCEPT ![a].completed = v] \in Table
         /\ [queue EXCEPT ![a].started = v, ![a].claim = w] \in Table
         /\ [queue EXCEPT ![a].result = res] \in Table
BY RowIsAttempt, StampedRow, ResolvedRow DEF Table

\* The waiting entries of a printer are finitely many.
LEMMA FiniteRows ==
  ASSUME NEW S \in SUBSET Pk
  PROVE  IsFiniteSet(S) /\ Cardinality(S) \in Nat
<1>1. IsFiniteSet(Pk)
  BY BoundsAssumption, FS_Interval DEF Pk
<1>2. IsFiniteSet(S)
  BY <1>1, FS_Subset
<1> QED BY <1>2, FS_CardinalityType

\* An entry counted by Index is another one, so the index is below the number of entries.
LEMMA IndexType ==
  ASSUME NEW q, NEW W \in SUBSET Pk, NEW a \in Pk
  PROVE  Index(q, W, a) \in Nat
BY FiniteRows DEF Index

LEMMA ClampIndexType ==
  ASSUME NEW W \in SUBSET Pk, NEW t \in Int
  PROVE  ClampIndex(W, t) \in Nat
<1>1. Cardinality(W) \in Nat /\ (Cardinality(W) = 0 => W = {})
  BY FiniteRows, FS_EmptySet
<1> QED BY <1>1 DEF ClampIndex

LEMMA PositionsType ==
  ASSUME queue \in Table, NEW p, NEW n \in Positions(p)
  PROVE  n \in Nat
<1>1. \A a \in Open \cap On(p) : queue[a] \in Attempt
  BY RowIsAttempt DEF Open
<1>2. \A a \in Open \cap On(p) : queue[a].position \in Nat
  BY <1>1 DEF Attempt
<1> QED BY <1>2 DEF Positions

\* Moving an entry keeps every row an attempt and every row where it was: only the
\* position of waiting rows and the priority of the moved one may change.
SameButOrder(r, q) ==
    /\ r.plate = q.plate /\ r.printer = q.printer
    /\ r.result = q.result /\ r.is_retry = q.is_retry
    /\ r.started = q.started /\ r.completed = q.completed /\ r.claim = q.claim

LEMMA MovedRows ==
  ASSUME queue \in Table, NEW W \in SUBSET Rows, NEW a \in W, NEW t \in Nat
  PROVE  /\ Moved(queue, W, a, t) \in Table
         /\ \A b \in Pk \ W : Moved(queue, W, a, t)[b] = queue[b]
         /\ \A b \in W : SameButOrder(Moved(queue, W, a, t)[b], queue[b]) /\ Moved(queue, W, a, t)[b] \in Attempt
<1> DEFINE N == Moved(queue, W, a, t)
           At(i) == {b \in W \ {a} : IndexAfterMove(Index(queue, W, a), t, Index(queue, W, b)) = i}
           Lowered == {queue[b].priority : b \in {c \in At(t - 1) : queue[a].priority > queue[c].priority}}
           first == IF Lowered = {} THEN queue[a].priority ELSE CHOOSE p \in Lowered : TRUE
           Raised == {queue[b].priority : b \in {c \in At(t + 1) : first < queue[c].priority}}
<1>1. \A b \in W : b \in Pk /\ queue[b] \in Attempt
  BY RowIsAttempt
<1>2. \A b \in W : queue[b].priority \in Priorities
  BY <1>1 DEF Attempt
<1>3. AdoptedPriority(queue, W, a, t) \in Priorities
  <2>1. Lowered \subseteq Priorities
    BY <1>2
  <2>2. first \in Priorities
    BY <1>2, <2>1
  <2>3. Raised \subseteq Priorities
    BY <1>2
  <2>4. AdoptedPriority(queue, W, a, t) = IF Raised = {} THEN first ELSE CHOOSE p \in Raised : TRUE
    BY DEF AdoptedPriority
  <2> QED BY <2>2, <2>3, <2>4
<1>4. \A b \in W : 1 + IndexAfterMove(Index(queue, W, a), t, Index(queue, W, b)) \in Nat
  BY <1>1, IndexType DEF IndexAfterMove
<1>5. DOMAIN queue = Pk
  BY DEF Table
<1>6. \A b \in Pk \ W : N[b] = queue[b]
  BY <1>5 DEF Moved
<1>7. \A b \in W : \E pos \in Nat, prio \in Priorities :
         N[b] = [queue[b] EXCEPT !.position = pos, !.priority = prio]
  BY <1>1, <1>2, <1>3, <1>4, <1>5 DEF Moved
<1>8. \A b \in W : N[b] \in Attempt
  BY <1>1, <1>7 DEF Attempt
<1>9. N \in [Pk -> Attempt \cup {NoRow}]
  BY <1>1, <1>5, <1>6, <1>8 DEF Moved, Table
<1>10. \A b \in W : SameButOrder(N[b], queue[b])
  BY <1>1, <1>7 DEF SameButOrder, Attempt
<1> QED BY <1>6, <1>8, <1>9, <1>10 DEF Table

(***************************************************************************)
(* Type correctness.                                                       *)
(***************************************************************************)

LEMMA TypeInit == Init => TypeOK
BY BoundsAssumption DEF Init, TypeOK, Attempt

\* The actions that only write stamps or results into one row.
LEMMA TypeRowSteps ==
  ASSUME TypeOK, NEW a \in Rows,
         \/ \E v \in Timestamp : queue' = [queue EXCEPT ![a].claim = v]
         \/ \E v \in Timestamp : queue' = [queue EXCEPT ![a].completed = v]
         \/ \E v, w \in Timestamp : queue' = [queue EXCEPT ![a].started = v, ![a].claim = w]
         \/ \E res \in Results : queue' = [queue EXCEPT ![a].result = res]
  PROVE  queue' \in Table
<1>1. Null \in Timestamp /\ "passed" \in Results /\ queue \in Table
  BY DEF Timestamp, Results, TypeOK, Table
<1>2. CASE \E v \in Timestamp : queue' = [queue EXCEPT ![a].claim = v]
  BY <1>1, <1>2, RowUpdates
<1>3. CASE \E v \in Timestamp : queue' = [queue EXCEPT ![a].completed = v]
  BY <1>1, <1>3, RowUpdates
<1>4. CASE \E v, w \in Timestamp : queue' = [queue EXCEPT ![a].started = v, ![a].claim = w]
  <2>1. PICK v \in Timestamp, w \in Timestamp : queue' = [queue EXCEPT ![a].started = v, ![a].claim = w]
    BY <1>4
  <2>2. [queue EXCEPT ![a].started = v, ![a].claim = w] \in Table
    BY <1>1, RowUpdates
  <2> QED BY <2>1, <2>2
<1>5. CASE \E res \in Results : queue' = [queue EXCEPT ![a].result = res]
  BY <1>1, <1>5, RowUpdates
<1> QED BY <1>2, <1>3, <1>4, <1>5

LEMMA TypeStep == TypeOK /\ [Next]_vars => TypeOK'
<1> SUFFICES ASSUME TypeOK, [Next]_vars
             PROVE  TypeOK'
  OBVIOUS
<1> USE DEF Table
<1>0. /\ Open \subseteq Rows /\ Waiting \subseteq Rows /\ Printing \subseteq Rows /\ InReview \subseteq Rows
      /\ Claimed \subseteq Rows /\ Rows \subseteq Pk
  BY DEF Open, Waiting, Printing, InReview, Claimed, Rows
<1>s. Null \in Timestamp /\ Stamp \in Timestamp
  BY DEF Timestamp
<1>1. ASSUME NEW pl \in Plates, NEW p \in Printers, ValidateForm(pl, p)
      PROVE  TypeOK'
  BY <1>1 DEF ValidateForm, TypeOK, table, starts
<1>2. ASSUME NEW pl \in Plates, NEW p \in Printers, NEW prio \in Priorities, SubmitForm(pl, p, prio)
      PROVE  TypeOK'
  <2>1. CASE MaySave(pl)
    <3>1. PICK n \in Positions(p) : queue' = [queue EXCEPT ![nextPk] = NewAttempt(pl, p, prio, n + 1, FALSE)]
      BY <1>2, <2>1 DEF SubmitForm, Enqueue
    <3>2. n + 1 \in Nat
      BY PositionsType DEF TypeOK
    <3>3. NewAttempt(pl, p, prio, n + 1, FALSE) \in Attempt
      BY <3>2, NewRow
    <3>4. nextPk <= MaxAttempts /\ nextPk' = nextPk + 1
      BY <1>2, <2>1 DEF SubmitForm, Enqueue
    <3>5. queue' \in Table
      BY <3>1, <3>3 DEF TypeOK
    <3>6. nextPk' \in 1..(MaxAttempts + 1)
      BY <3>4, BoundsAssumption DEF TypeOK
    <3> QED BY <1>2, <3>5, <3>6 DEF SubmitForm, TypeOK, starts
  <2>2. CASE ~MaySave(pl)
    BY <1>2, <2>2 DEF SubmitForm, TypeOK, table, starts
  <2> QED BY <2>1, <2>2
<1>3. ASSUME NEW j \in Jobs, NEW p \in Printers, NEW prio \in Priorities, EnqueuePlates(j, p, prio)
      PROVE  TypeOK'
  <2> DEFINE todo == {pl \in PlatesOf(j) : Queueable(pl)}
             rows == nextPk..(nextPk + Cardinality(todo) - 1)
  <2>1. PICK n \in Positions(p), plateOf \in [rows -> todo] :
           queue' = [a \in Pk |-> IF a \in rows
                                  THEN NewAttempt(plateOf[a], p, prio, n + 1 + a - nextPk, FALSE)
                                  ELSE queue[a]]
    BY <1>3 DEF EnqueuePlates
  <2>2. n \in Nat
    BY PositionsType DEF TypeOK
  <2>3. Cardinality(todo) \in Nat
    BY PlatesAssumption, FS_Subset, FS_CardinalityType DEF PlatesOf
  <2>4. \A a \in rows : n + 1 + a - nextPk \in Nat
    BY <2>2, <2>3 DEF TypeOK
  <2>5. \A a \in rows : NewAttempt(plateOf[a], p, prio, n + 1 + a - nextPk, FALSE) \in Attempt
    BY <2>4, NewRow DEF PlatesOf
  <2>6. queue' \in Table
    BY <2>1, <2>5 DEF TypeOK
  <2>7. nextPk' \in 1..(MaxAttempts + 1)
    <3>1. rows \subseteq Pk /\ nextPk' = nextPk + Cardinality(todo)
      BY <1>3 DEF EnqueuePlates
    <3>2. CASE Cardinality(todo) = 0
      BY <3>1, <3>2 DEF TypeOK
    <3>3. CASE Cardinality(todo) # 0
      <4>1. nextPk + Cardinality(todo) - 1 \in rows
        BY <2>3, <3>3, BoundsAssumption DEF TypeOK
      <4> QED BY <2>3, <3>1, <4>1, BoundsAssumption DEF TypeOK, Pk
    <3> QED BY <3>2, <3>3
  <2> QED BY <1>3, <2>6, <2>7 DEF EnqueuePlates, TypeOK, starts
<1>4. ASSUME NEW s \in Starters, NEW p \in Printers, StartNext(s, p)
      PROVE  TypeOK'
  <2>1. PICK a \in Waiting \cap On(p) : queue' = [queue EXCEPT ![a].claim = Stamp] /\ Go(s, "uploading", a)
    BY <1>4 DEF StartNext, ClaimNext
  <2>2. queue' \in Table
    BY <1>0, <1>s, <2>1, TypeRowSteps
  <2> QED BY <1>0, <1>4, <2>1, <2>2 DEF StartNext, ClaimNext, Go, TypeOK
<1>5. ASSUME NEW s \in Starters, StartFails(s)
      PROVE  TypeOK'
  <2>1. queue' \in Table
    BY <1>5, <1>s, TypeRowSteps DEF StartFails, ReleaseClaim, TypeOK
  <2> QED BY <1>5, <2>1 DEF StartFails, Go, TypeOK
<1>6. ASSUME NEW s \in Starters, PrinterAccepts(s)
      PROVE  TypeOK'
  BY <1>6 DEF PrinterAccepts, Go, TypeOK, table
<1>7. ASSUME NEW s \in Starters, RecordStarted(s)
      PROVE  TypeOK'
  <2>1. queue' \in Table
    BY <1>7, <1>s, TypeRowSteps DEF RecordStarted, TypeOK
  <2> QED BY <1>7, <2>1 DEF RecordStarted, Go, TypeOK
<1>8. ASSUME NEW s \in Starters, RecordRemoteName(s)
      PROVE  TypeOK'
  BY <1>8 DEF RecordRemoteName, Go, TypeOK, table
<1>9. ASSUME NEW s \in Starters, Crash(s)
      PROVE  TypeOK'
  BY <1>9 DEF Crash, Go, TypeOK, table
<1>10. ASSUME NEW a \in Pk, ClaimExpires(a)
       PROVE  TypeOK'
  <2>1. queue' \in Table
    BY <1>0, <1>10, <1>s, TypeRowSteps DEF ClaimExpires
  <2> QED BY <1>10, <2>1 DEF ClaimExpires, TypeOK, starts
<1>11. ASSUME NEW a \in Pk, AttemptEnds(a)
       PROVE  TypeOK'
  <2>1. queue' \in Table
    BY <1>0, <1>11, <1>s, TypeRowSteps DEF AttemptEnds, Finish
  <2> QED BY <1>11, <2>1 DEF AttemptEnds, Finish, TypeOK, starts
<1>12. ASSUME NEW a \in Pk, AdoptExternalPrint(a)
       PROVE  TypeOK'
  <2>1. queue' \in Table
    BY <1>0, <1>12, <1>s, TypeRowSteps DEF AdoptExternalPrint
  <2> QED BY <1>12, <2>1 DEF AdoptExternalPrint, TypeOK, starts
<1>13. ASSUME NEW a \in Pk, NEW passed \in BOOLEAN, Review(a, passed)
       PROVE  TypeOK'
  <2>1. CASE passed
    <3>1. queue' = [queue EXCEPT ![a].result = "passed"] /\ UNCHANGED nextPk
      BY <1>13, <2>1 DEF Review
    <3>2. queue' \in Table
      BY <1>0, <1>13, <3>1, TypeRowSteps DEF Review, Results
    <3> QED BY <1>13, <3>1, <3>2 DEF Review, TypeOK, starts
  <2>2. CASE ~passed /\ MayRetry(a)
    <3>1. /\ nextPk <= MaxAttempts /\ nextPk' = nextPk + 1 /\ a \in Rows
          /\ queue' = [queue EXCEPT ![a].result = "failed", ![nextPk] = Retry(a)]
      BY <1>0, <1>13, <2>2 DEF Review
    <3>2. [queue EXCEPT ![a].result = "failed"] \in Table
      BY <3>1, RowUpdates, <1>s DEF TypeOK, Results
    <3>3. Retry(a) \in Attempt
      <4>1. queue[a] \in Attempt
        BY <3>1, RowIsAttempt DEF TypeOK
      <4> QED BY <4>1, NewRow DEF Retry, Attempt
    <3>4. nextPk \in Pk
      BY <3>1, BoundsAssumption DEF TypeOK, Pk
    <3>5. queue' \in Table
      BY <3>1, <3>2, <3>3, <3>4 DEF TypeOK
    <3>6. nextPk' \in 1..(MaxAttempts + 1)
      BY <3>1, BoundsAssumption DEF TypeOK
    <3> QED BY <1>13, <3>5, <3>6 DEF Review, TypeOK, starts
  <2>3. CASE ~passed /\ ~MayRetry(a)
    <3>1. queue' = [queue EXCEPT ![a].result = "failed"] /\ UNCHANGED nextPk
      BY <1>13, <2>3 DEF Review
    <3>2. queue' \in Table
      BY <1>0, <1>13, <3>1, TypeRowSteps DEF Review, Results
    <3> QED BY <1>13, <3>1, <3>2 DEF Review, TypeOK, starts
  <2> QED BY <2>1, <2>2, <2>3
<1>14. ASSUME NEW a \in Pk, RemoveAttempt(a)
       PROVE  TypeOK'
  <2>1. a \in Rows /\ queue[a] \in Attempt
    BY <1>0, <1>14, RowIsAttempt DEF RemoveAttempt, Remove, TypeOK
  <2>2. AfterRemoval(a) \in Attempt \cup {NoRow}
    BY <2>1, ResolvedRow DEF AfterRemoval, Results
  <2>3. queue' \in Table
    BY <1>14, <2>2 DEF RemoveAttempt, Remove, TypeOK
  <2> QED BY <1>14, <2>3 DEF RemoveAttempt, Remove, TypeOK, starts
<1>15. ASSUME NEW a \in Pk, NEW t \in -1..MaxAttempts, MoveQueueEntry(a, t)
       PROVE  TypeOK'
  <2> DEFINE W == Waiting \cap On(queue[a].printer)
  <2>1. W \in SUBSET Rows /\ W \in SUBSET Pk /\ a \in W
    BY <1>0, <1>15 DEF MoveQueueEntry, On
  <2>2. ClampIndex(W, t) \in Nat
    BY <2>1, BoundsAssumption, ClampIndexType
  <2>3. queue' = Moved(queue, W, a, ClampIndex(W, t))
    BY <1>15 DEF MoveQueueEntry
  <2>4. queue' \in Table
    BY <2>1, <2>2, <2>3, MovedRows DEF TypeOK
  <2> QED BY <1>15, <2>4 DEF MoveQueueEntry, TypeOK, starts
<1>16. ASSUME NEW j \in Jobs, CloseJob(j)
       PROVE  TypeOK'
  BY <1>16 DEF CloseJob, TypeOK, starts
<1>17. ASSUME NEW j \in Jobs, ReopenJob(j)
       PROVE  TypeOK'
  BY <1>17 DEF ReopenJob, TypeOK, table, starts
<1>18. ASSUME NEW j \in Jobs, DeleteJob(j)
       PROVE  TypeOK'
  BY <1>18 DEF DeleteJob, TypeOK, starts
<1>19. ASSUME NEW p \in Printers, SetActive(p)
       PROVE  TypeOK'
  BY <1>19 DEF SetActive, TypeOK, table, starts
<1>20. CASE UNCHANGED vars
  BY <1>20 DEF vars, TypeOK
<1> QED
  BY <1>1, <1>2, <1>3, <1>4, <1>5, <1>6, <1>7, <1>8, <1>9, <1>10, <1>11, <1>12, <1>13, <1>14, <1>15,
     <1>16, <1>17, <1>18, <1>19, <1>20
     DEF Next, Enqueueing, Starting, StarterStep, Tracking, Managing

\* Every reachable table holds attempts (or nothing) under its primary keys, whatever
\* requests, starters, printers and operators do in which order.
THEOREM TypeCorrect == Spec => []TypeOK
BY TypeInit, TypeStep, PTL DEF Spec

-----------------------------------------------------------------------------
(* The table and the jobs.                                                 *)

\* What RowsConsistent says of one row.
RowFacts(r) ==
    /\ r.completed = Stamp => r.started = Stamp
    /\ r.result # "" => r.started = Stamp /\ (r.completed = Stamp \/ r.result = "cancelled")
    /\ r.claim = Stamp => r.result = "" /\ r.started = Null /\ r.completed = Null

\* The inductive invariant: each of the first two conjuncts is needed to show that a
\* retry finds neither another open attempt of its plate nor a closed job.
Consistent == RowsConsistent /\ OneOpenAttemptPerPlate /\ ClosedJobQueuesNothing

LEMMA RowsConsistentByRow ==
  RowsConsistent <=> \A a \in Rows : a < nextPk /\ RowFacts(queue[a])
BY DEF RowsConsistent, RowFacts, Waiting, Open

\* A row that was there before the step: it stays on its plate and is not reopened.
Kept(a) ==
    /\ a \in Rows
    /\ queue'[a].plate = queue[a].plate
    /\ queue'[a].result = "" => queue[a].result = ""
    /\ RowFacts(queue'[a])

\* A row the step inserts: the only open one of a plate of an open job.
Fresh(a) ==
    /\ nextPk <= a /\ a < nextPk'
    /\ RowFacts(queue'[a])
    /\ job'[JobOf[queue'[a].plate]] = "open"
    /\ \A b \in Open' : queue'[b].plate = queue'[a].plate => b = a

\* A step that rewrites and inserts rows like this, and closes or deletes jobs only
\* when nothing of them is left, keeps the invariant.
LEMMA ConsistentByRow ==
  ASSUME TypeOK, TypeOK', Consistent, nextPk <= nextPk',
         \A a \in Rows' : Kept(a) \/ Fresh(a),
         \A j \in Jobs : \/ job'[j] \in {job[j], "open"}
                         \/ /\ (OfJob(j) \cap Open)' = {}
                            /\ job'[j] = "deleted" => OfJob(j)' = {}
  PROVE  Consistent'
<1>1. \A a \in Rows : a < nextPk /\ RowFacts(queue[a])
  BY RowsConsistentByRow DEF Consistent
<1>2. RowsConsistent'
  <2>1. nextPk \in Int /\ nextPk' \in Int /\ \A a \in Pk : a \in Int
    BY DEF TypeOK, Pk
  <2>2. \A a \in Rows : a < nextPk'
    BY <1>1, <2>1 DEF Rows
  <2>3. \A a \in Rows' : a < nextPk' /\ RowFacts(queue'[a])
    BY <2>2 DEF Kept, Fresh
  <2> QED BY <2>3 DEF RowsConsistent, RowFacts, Waiting, Open
<1>3. OneOpenAttemptPerPlate'
  <2> SUFFICES ASSUME NEW a \in Open', NEW b \in Open', queue'[a].plate = queue'[b].plate
               PROVE  a = b
    BY DEF OneOpenAttemptPerPlate
  <2>1. (Kept(a) \/ Fresh(a)) /\ (Kept(b) \/ Fresh(b))
    BY DEF Open
  <2>2. CASE Fresh(a) \/ Fresh(b)
    BY <2>2 DEF Fresh
  <2>3. CASE Kept(a) /\ Kept(b)
    <3>1. a \in Open /\ b \in Open /\ queue[a].plate = queue[b].plate
      BY <2>3 DEF Kept, Open
    <3> QED BY <3>1 DEF Consistent, OneOpenAttemptPerPlate
  <2> QED BY <2>1, <2>2, <2>3
<1>4. ClosedJobQueuesNothing'
  <2> SUFFICES ASSUME NEW j \in Jobs
               PROVE  /\ job'[j] # "open" => (OfJob(j) \cap Open)' = {}
                      /\ job'[j] = "deleted" => OfJob(j)' = {}
    BY DEF ClosedJobQueuesNothing
  <2>1. CASE job'[j] = job[j] /\ job[j] # "open"
    <3>1. \A a \in OfJob(j)' : Kept(a)
      BY <2>1 DEF OfJob, Fresh
    <3>2. \A a \in OfJob(j)' : a \in OfJob(j) /\ (a \in Open' => a \in Open)
      BY <3>1 DEF OfJob, Kept, Open
    <3> QED BY <2>1, <3>2 DEF Consistent, ClosedJobQueuesNothing
  <2> QED BY <2>1
<1> QED BY <1>2, <1>3, <1>4 DEF Consistent

\* The usual step: one row is rewritten or deleted.
LEMMA ConsistentOneRow ==
  ASSUME TypeOK, TypeOK', Consistent, NEW a \in Rows, NEW r,
         queue' = [queue EXCEPT ![a] = r], nextPk' = nextPk, job' = job,
         r # NoRow => /\ r.plate = queue[a].plate
                      /\ r.result = "" => queue[a].result = ""
                      /\ RowFacts(r)
  PROVE  Consistent'
<1>1. \A b \in Rows : RowFacts(queue[b])
  BY RowsConsistentByRow DEF Consistent
<1>2. \A b \in Rows' : Kept(b)
  BY <1>1 DEF Kept, Rows, TypeOK
<1>3. nextPk <= nextPk'
  BY ONLY TypeOK, nextPk' = nextPk, BoundsAssumption DEF TypeOK
<1> QED BY <1>2, <1>3, ConsistentByRow

\* A step that leaves the table alone may reopen jobs.
LEMMA ConsistentSameTable ==
  ASSUME TypeOK, TypeOK', Consistent, queue' = queue, nextPk' = nextPk,
         \A j \in Jobs : job'[j] \in {job[j], "open"}
  PROVE  Consistent'
<1>1. \A b \in Rows : RowFacts(queue[b])
  BY RowsConsistentByRow DEF Consistent
<1>2. \A b \in Rows' : Kept(b)
  BY <1>1 DEF Kept, Rows
<1>3. nextPk <= nextPk'
  BY ONLY TypeOK, nextPk' = nextPk, BoundsAssumption DEF TypeOK
<1> QED BY <1>2, <1>3, ConsistentByRow

LEMMA NewRowFacts ==
  ASSUME NEW pl, NEW p, NEW prio, NEW n, NEW retry \in BOOLEAN
  PROVE  /\ RowFacts(NewAttempt(pl, p, prio, n, retry))
         /\ NewAttempt(pl, p, prio, n, retry).plate = pl
         /\ NewAttempt(pl, p, prio, n, retry).result = ""
BY DEF NewAttempt, RowFacts, Null, Stamp

LEMMA ConsistentInit == Init => Consistent
BY DEF Init, Consistent, RowsConsistent, OneOpenAttemptPerPlate, ClosedJobQueuesNothing, Rows, Open, OfJob

LEMMA ConsistentStep == TypeOK /\ Consistent /\ [Next]_vars => Consistent'
<1> SUFFICES ASSUME TypeOK, Consistent, [Next]_vars
             PROVE  Consistent'
  OBVIOUS
<1>a. TypeOK'
  BY TypeStep
<1>b. /\ Open \subseteq Rows /\ Waiting \subseteq Open /\ Printing \subseteq Open /\ InReview \subseteq Open
      /\ Claimed \subseteq Waiting /\ Rows \subseteq Pk
  BY DEF Open, Waiting, Printing, InReview, Claimed, Rows
<1>c. \A a \in Rows : queue[a] \in Attempt /\ RowFacts(queue[a]) /\ a < nextPk
  BY RowIsAttempt, RowsConsistentByRow DEF Consistent, TypeOK, Table
<1>1. ASSUME NEW pl \in Plates, NEW p \in Printers, ValidateForm(pl, p)
      PROVE  Consistent'
  BY <1>1, <1>a, ConsistentSameTable DEF ValidateForm, table
<1>4. ASSUME NEW s \in Starters, NEW p \in Printers, StartNext(s, p)
      PROVE  Consistent'
  <2>1. PICK a \in Waiting : queue' = [queue EXCEPT ![a].claim = Stamp]
    BY <1>4 DEF StartNext, ClaimNext
  <2> DEFINE r == [queue[a] EXCEPT !.claim = Stamp]
  <2>2. r.plate = queue[a].plate /\ r.result = queue[a].result /\ RowFacts(r)
    BY <1>b, <1>c DEF RowFacts, Attempt, Waiting, Open
  <2> QED BY <1>4, <1>a, <1>b, <2>1, <2>2, ConsistentOneRow DEF StartNext, ClaimNext
<1>5. ASSUME NEW s \in Starters, StartFails(s)
      PROVE  Consistent'
  <2>1. CASE target[s] \in Rows
    <3> DEFINE r == [queue[target[s]] EXCEPT !.claim = Null]
    <3>1. r.plate = queue[target[s]].plate /\ r.result = queue[target[s]].result /\ RowFacts(r)
      BY <1>c, <2>1 DEF RowFacts, Attempt, Stamp, Null
    <3> QED BY <1>5, <1>a, <2>1, <3>1, ConsistentOneRow DEF StartFails, ReleaseClaim
  <2>2. CASE target[s] \notin Rows
    BY <1>5, <1>a, <2>2, ConsistentSameTable DEF StartFails, ReleaseClaim
  <2> QED BY <2>1, <2>2
<1>6. ASSUME NEW s \in Starters, PrinterAccepts(s) \/ RecordRemoteName(s) \/ Crash(s)
      PROVE  Consistent'
  BY <1>6, <1>a, ConsistentSameTable DEF PrinterAccepts, RecordRemoteName, Crash, table
<1>7. ASSUME NEW s \in Starters, RecordStarted(s)
      PROVE  Consistent'
  <2>1. CASE target[s] \in Rows
    <3> DEFINE r == [queue[target[s]] EXCEPT !.started = Stamp, !.claim = Null]
    <3>1. r.plate = queue[target[s]].plate /\ r.result = queue[target[s]].result /\ RowFacts(r)
      BY <1>c, <2>1 DEF RowFacts, Attempt, Stamp, Null
    <3>2. queue' = [queue EXCEPT ![target[s]] = r] /\ nextPk' = nextPk /\ job' = job
      BY <1>7, <2>1 DEF RecordStarted, TypeOK
    <3> QED BY <1>a, <2>1, <3>1, <3>2, ConsistentOneRow
  <2>2. CASE target[s] \notin Rows
    BY <1>7, <1>a, <2>2, ConsistentSameTable DEF RecordStarted
  <2> QED BY <2>1, <2>2
<1>10. ASSUME NEW a \in Pk, ClaimExpires(a)
       PROVE  Consistent'
  <2> DEFINE r == [queue[a] EXCEPT !.claim = Null]
  <2>1. a \in Rows /\ r.plate = queue[a].plate /\ r.result = queue[a].result /\ RowFacts(r)
    BY <1>10, <1>b, <1>c DEF ClaimExpires, RowFacts, Attempt, Stamp, Null
  <2> QED BY <1>10, <1>a, <2>1, ConsistentOneRow DEF ClaimExpires
<1>11. ASSUME NEW a \in Pk, AttemptEnds(a)
       PROVE  Consistent'
  <2> DEFINE r == [queue[a] EXCEPT !.completed = Stamp]
  <2>1. a \in Rows /\ r.plate = queue[a].plate /\ r.result = queue[a].result /\ RowFacts(r)
    BY <1>11, <1>b, <1>c DEF AttemptEnds, Finish, RowFacts, Attempt, Stamp, Null, Printing
  <2> QED BY <1>11, <1>a, <2>1, ConsistentOneRow DEF AttemptEnds, Finish
<1>12. ASSUME NEW a \in Pk, AdoptExternalPrint(a)
       PROVE  Consistent'
  <2> DEFINE r == [queue[a] EXCEPT !.started = Stamp, !.claim = Null]
  <2>1. a \in Rows /\ r.plate = queue[a].plate /\ r.result = queue[a].result /\ RowFacts(r)
    BY <1>12, <1>b, <1>c DEF AdoptExternalPrint, RowFacts, Attempt, Stamp, Null
  <2> QED BY <1>12, <1>a, <2>1, ConsistentOneRow DEF AdoptExternalPrint
<1>14. ASSUME NEW a \in Pk, RemoveAttempt(a)
       PROVE  Consistent'
  <2>1. a \in Open
    BY <1>14 DEF RemoveAttempt, Remove
  <2>2. CASE a \in Waiting
    BY <1>14, <1>a, <1>b, <2>2, ConsistentOneRow DEF RemoveAttempt, Remove, AfterRemoval
  <2>3. CASE a \notin Waiting
    <3> DEFINE r == [queue[a] EXCEPT !.result = "cancelled"]
    <3>1. a \in Rows /\ r.plate = queue[a].plate /\ r.result # "" /\ RowFacts(r)
      BY <1>b, <1>c, <2>1, <2>3 DEF RowFacts, Attempt, Waiting, Timestamp, Stamp, Null
    <3> QED BY <1>14, <1>a, <2>3, <3>1, ConsistentOneRow DEF RemoveAttempt, Remove, AfterRemoval
  <2> QED BY <2>2, <2>3
<1>17. ASSUME NEW j \in Jobs, ReopenJob(j)
       PROVE  Consistent'
  BY <1>17, <1>a, ConsistentSameTable DEF ReopenJob, table, TypeOK
<1>19. ASSUME NEW p \in Printers, SetActive(p)
       PROVE  Consistent'
  BY <1>19, <1>a, ConsistentSameTable DEF SetActive, table
<1>20. CASE UNCHANGED vars
  BY <1>20, <1>a, ConsistentSameTable DEF vars
<1>2. ASSUME NEW pl \in Plates, NEW p \in Printers, NEW prio \in Priorities, SubmitForm(pl, p, prio)
      PROVE  Consistent'
  <2>1. CASE MaySave(pl)
    <3>1. PICK n : queue' = [queue EXCEPT ![nextPk] = NewAttempt(pl, p, prio, n + 1, FALSE)]
      BY <1>2, <2>1 DEF SubmitForm, Enqueue
    <3>2. nextPk' = nextPk + 1 /\ job' = job /\ nextPk <= MaxAttempts
      BY <1>2, <2>1 DEF SubmitForm, Enqueue
    <3>3. nextPk \in Pk /\ nextPk \notin Rows
      BY <3>2, <1>c, BoundsAssumption DEF TypeOK, Pk
    <3>4. \A b \in Rows' \ {nextPk} : queue'[b] = queue[b] /\ b \in Rows
      BY <3>1 DEF Rows, TypeOK
    <3>5. queue'[nextPk] = NewAttempt(pl, p, prio, n + 1, FALSE)
      BY <3>1, <3>3 DEF TypeOK
    <3>6. \A b \in Rows' \ {nextPk} : Kept(b)
      BY <1>c, <3>4 DEF Kept
    <3>7. Fresh(nextPk)
      <4>1. RowFacts(queue'[nextPk]) /\ queue'[nextPk].plate = pl
        <5>1. RowFacts(NewAttempt(pl, p, prio, n + 1, FALSE)) /\ NewAttempt(pl, p, prio, n + 1, FALSE).plate = pl
          BY NewRowFacts
        <5> QED BY <3>5, <5>1
      <4>2. \A b \in Open' : queue'[b].plate = pl => b = nextPk
        BY <2>1, <3>4 DEF MaySave, NoOpenAttempt, Of, Open
      <4> QED BY <2>1, <3>2, <4>1, <4>2 DEF Fresh, MaySave, JobStillOpen, TypeOK
    <3>8. nextPk <= nextPk'
      BY <3>2 DEF TypeOK
    <3> QED BY <1>a, <3>2, <3>6, <3>7, <3>8, ConsistentByRow
  <2>2. CASE ~MaySave(pl)
    BY <1>2, <2>2, <1>a, ConsistentSameTable DEF SubmitForm, table
  <2> QED BY <2>1, <2>2
<1>3. ASSUME NEW j \in Jobs, NEW p \in Printers, NEW prio \in Priorities, EnqueuePlates(j, p, prio)
      PROVE  Consistent'
  <2> DEFINE todo == {pl \in PlatesOf(j) : Queueable(pl)}
             rows == nextPk..(nextPk + Cardinality(todo) - 1)
  <2>1. PICK n \in Positions(p), plateOf \in [rows -> todo] :
           /\ \A a, b \in rows : a < b => plateOf[a] < plateOf[b]
           /\ queue' = [a \in Pk |-> IF a \in rows
                                     THEN NewAttempt(plateOf[a], p, prio, n + 1 + a - nextPk, FALSE)
                                     ELSE queue[a]]
    BY <1>3 DEF EnqueuePlates
  <2>2. nextPk' = nextPk + Cardinality(todo) /\ job' = job /\ rows \subseteq Pk
    BY <1>3 DEF EnqueuePlates
  <2>3. nextPk \in Nat /\ Cardinality(todo) \in Nat
    BY PlatesAssumption, FS_Subset, FS_CardinalityType DEF PlatesOf, TypeOK
  <2>4. \A a \in rows : a \in Nat /\ nextPk <= a /\ a < nextPk' /\ a \notin Rows
    BY <2>2, <2>3, <1>c
  <2>5. \A b \in Rows' \ rows : queue'[b] = queue[b] /\ b \in Rows
    BY <2>1 DEF Rows
  <2>6. \A b \in Rows' \ rows : Kept(b)
    BY <1>c, <2>5 DEF Kept
  <2>7. ASSUME NEW a \in rows
        PROVE  Fresh(a)
    <3>1. queue'[a] = NewAttempt(plateOf[a], p, prio, n + 1 + a - nextPk, FALSE)
      BY <2>1, <2>2
    <3>2. RowFacts(queue'[a]) /\ queue'[a].plate = plateOf[a]
      <4> DEFINE r == NewAttempt(plateOf[a], p, prio, n + 1 + a - nextPk, FALSE)
      <4>1. RowFacts(r) /\ r.plate = plateOf[a]
        BY NewRowFacts
      <4> QED BY <3>1, <4>1
    <3>3. plateOf[a] \in todo
      BY <2>1
    <3>4. ASSUME NEW b \in Open', queue'[b].plate = plateOf[a]
          PROVE  b = a
      <4>1. CASE b \in rows
        <5>1. plateOf[b] = plateOf[a]
          BY <2>1, <2>2, <3>4, <4>1 DEF NewAttempt
        <5>2. plateOf[a] \in Nat
          BY <3>3, PlatesAssumption DEF PlatesOf
        <5> QED BY <2>1, <2>4, <4>1, <5>1, <5>2
      <4>2. CASE b \notin rows
        BY <2>5, <3>3, <3>4, <4>2 DEF Queueable, Of, Open
      <4> QED BY <4>1, <4>2
    <3> QED BY <2>2, <2>4, <3>2, <3>3, <3>4 DEF Fresh, Queueable
  <2>8. nextPk <= nextPk'
    BY <2>2, <2>3
  <2>9. \A a \in Rows' : Kept(a) \/ Fresh(a)
    BY <2>6, <2>7
  <2> QED BY <1>a, <2>2, <2>8, <2>9, ConsistentByRow
<1>13. ASSUME NEW a \in Pk, NEW passed \in BOOLEAN, Review(a, passed)
       PROVE  Consistent'
  <2>1. a \in Open /\ a \in Rows /\ queue[a].completed = Stamp /\ job' = job
    BY <1>13, <1>b DEF Review, InReview
  <2>2. ASSUME NEW res \in {"passed", "failed"}
        PROVE  LET r == [queue[a] EXCEPT !.result = res]
               IN  r.plate = queue[a].plate /\ r.result = res /\ RowFacts(r)
    BY <1>c, <2>1 DEF RowFacts, Attempt, Open, Stamp, Null
  <2>3. CASE passed
    BY <1>13, <1>a, <2>1, <2>2, <2>3, ConsistentOneRow DEF Review
  <2>4. CASE ~passed /\ ~MayRetry(a)
    BY <1>13, <1>a, <2>1, <2>2, <2>4, ConsistentOneRow DEF Review
  <2>5. CASE ~passed /\ MayRetry(a)
    <3>1. /\ nextPk <= MaxAttempts /\ nextPk' = nextPk + 1
          /\ queue' = [queue EXCEPT ![a].result = "failed", ![nextPk] = Retry(a)]
      BY <1>13, <2>5 DEF Review
    <3>2. nextPk \in Pk /\ nextPk \notin Rows
      BY <3>1, <1>c, BoundsAssumption DEF TypeOK, Pk
    <3>3. /\ queue'[nextPk] = Retry(a)
          /\ queue'[a] = [queue[a] EXCEPT !.result = "failed"]
          /\ \A b \in Rows' \ {a, nextPk} : queue'[b] = queue[b] /\ b \in Rows
      BY <2>1, <3>1, <3>2 DEF TypeOK, Rows
    <3>4. \A b \in Rows' \ {nextPk} : Kept(b)
      BY <1>c, <2>1, <2>2, <3>3 DEF Kept
    <3>5. Fresh(nextPk)
      <4>1. RowFacts(queue'[nextPk]) /\ queue'[nextPk].plate = queue[a].plate
        <5> DEFINE r == NewAttempt(queue[a].plate, queue[a].printer, queue[a].priority, 0, TRUE)
        <5>1. RowFacts(r) /\ r.plate = queue[a].plate
          BY DEF NewAttempt, RowFacts, Null, Stamp
        <5>2. queue'[nextPk] = r
          BY <3>3 DEF Retry
        <5> QED BY <5>1, <5>2
      <4>2. ASSUME NEW b \in Open', queue'[b].plate = queue[a].plate
            PROVE  b = nextPk
        <5>1. b # a
          BY <2>2, <3>3 DEF Open
        <5>2. CASE b # nextPk
          <6>1. b \in Open /\ queue[b].plate = queue[a].plate
            BY <3>3, <4>2, <5>1, <5>2 DEF Open
          <6> QED BY <2>1, <5>1, <6>1 DEF Consistent, OneOpenAttemptPerPlate
        <5> QED BY <5>2
      <4>3. job[JobOf[queue[a].plate]] = "open"
        <5>1. JobOf[queue[a].plate] \in Jobs
          BY <1>c, <2>1, JobsAssumption DEF Attempt
        <5> QED BY <2>1, <5>1 DEF Consistent, ClosedJobQueuesNothing, OfJob
      <4>4. nextPk <= nextPk /\ nextPk < nextPk'
        BY <3>1, BoundsAssumption DEF TypeOK
      <4>5. job'[JobOf[queue'[nextPk].plate]] = "open"
        BY <2>1, <4>1, <4>3
      <4> QED BY <4>1, <4>2, <4>4, <4>5 DEF Fresh
    <3>6. nextPk <= nextPk'
      BY <3>1 DEF TypeOK
    <3> QED BY <1>a, <2>1, <3>4, <3>5, <3>6, ConsistentByRow
  <2> QED BY <2>3, <2>4, <2>5
<1>15. ASSUME NEW a \in Pk, NEW t \in -1..MaxAttempts, MoveQueueEntry(a, t)
       PROVE  Consistent'
  <2> DEFINE W == Waiting \cap On(queue[a].printer)
  <2>1. W \in SUBSET Rows /\ W \in SUBSET Pk /\ a \in W
    BY <1>15, <1>b DEF MoveQueueEntry, On
  <2>2. ClampIndex(W, t) \in Nat
    BY <2>1, BoundsAssumption, ClampIndexType
  <2>3. queue' = Moved(queue, W, a, ClampIndex(W, t)) /\ nextPk' = nextPk /\ job' = job
    BY <1>15 DEF MoveQueueEntry
  <2>4. /\ \A b \in Pk \ W : queue'[b] = queue[b]
        /\ \A b \in W : SameButOrder(queue'[b], queue[b])
    <3>1. queue \in Table
      BY DEF TypeOK, Table
    <3> QED BY <2>1, <2>2, <2>3, <3>1, MovedRows
  <2>5. \A b \in Rows' : Kept(b)
    <3>1. \A b \in Rows' \ W : Kept(b)
      BY <1>c, <2>4 DEF Kept, Rows
    <3>2. \A b \in W : Kept(b)
      BY <1>c, <2>1, <2>4 DEF Kept, RowFacts, SameButOrder
    <3> QED BY <3>1, <3>2
  <2>6. nextPk <= nextPk'
    BY <2>3 DEF TypeOK
  <2> QED BY <1>a, <2>3, <2>5, <2>6, ConsistentByRow
<1>16. ASSUME NEW j \in Jobs, CloseJob(j)
       PROVE  Consistent'
  <2>1. \A b \in Rows' : queue'[b] = queue[b] /\ b \in Rows /\ b \notin OfJob(j) \cap Waiting
    BY <1>16 DEF CloseJob, Rows
  <2>2. \A b \in Rows' : Kept(b)
    BY <1>c, <2>1 DEF Kept
  <2>3. (OfJob(j) \cap Open)' = {}
    <3>1. \A b \in OfJob(j)' : b \in OfJob(j) /\ queue'[b] = queue[b] /\ b \notin Waiting
      BY <2>1 DEF OfJob
    <3>2. Open \subseteq Waiting \cup Busy
      BY <1>c DEF Open, Waiting, Busy, Printing, InReview, Attempt, Timestamp
    <3>3. OfJob(j) \cap Busy = {}
      BY <1>16 DEF CloseJob
    <3>4. \A b \in OfJob(j)' \cap Open' : b \in Open
      BY <3>1 DEF Open, OfJob
    <3> QED BY <3>1, <3>2, <3>3, <3>4
  <2>4. \A i \in Jobs : job'[i] = job[i] \/ (i = j /\ job'[i] = "closed")
    BY <1>16 DEF CloseJob, TypeOK
  <2>5. nextPk <= nextPk'
    BY <1>16 DEF CloseJob, TypeOK
  <2> QED BY <1>a, <2>2, <2>3, <2>4, <2>5, ConsistentByRow
<1>18. ASSUME NEW j \in Jobs, DeleteJob(j)
       PROVE  Consistent'
  <2>1. \A b \in Rows' : queue'[b] = queue[b] /\ b \in Rows /\ b \notin OfJob(j)
    BY <1>18 DEF DeleteJob, Rows
  <2>2. \A b \in Rows' : Kept(b)
    BY <1>c, <2>1 DEF Kept
  <2>3. OfJob(j)' = {}
    BY <2>1 DEF OfJob
  <2>4. \A i \in Jobs : job'[i] = job[i] \/ i = j
    BY <1>18 DEF DeleteJob, TypeOK
  <2>5. nextPk <= nextPk'
    BY <1>18 DEF DeleteJob, TypeOK
  <2>6. (OfJob(j) \cap Open)' = {}
    BY <2>3
  <2> QED BY <1>a, <2>2, <2>3, <2>4, <2>5, <2>6, ConsistentByRow
<1> QED
  BY <1>1, <1>2, <1>3, <1>4, <1>5, <1>6, <1>7, <1>10, <1>11, <1>12, <1>13, <1>14, <1>15,
     <1>16, <1>17, <1>18, <1>19, <1>20
     DEF Next, Enqueueing, Starting, StarterStep, Tracking, Managing

LEMMA AlwaysConsistent == Spec => [](TypeOK /\ Consistent)
BY TypeInit, TypeStep, ConsistentInit, ConsistentStep, PTL DEF Spec

\* The facts of a row never contradict each other, even when a start is recorded long
\* after its entry was cancelled, moved or started a second time.
THEOREM RowsAlwaysConsistent == Spec => []RowsConsistent
BY AlwaysConsistent, PTL DEF Consistent

\* No plate ever has two open attempts: forms, bulk queueing and retries never collide.
THEOREM AtMostOneOpenAttempt == Spec => []OneOpenAttemptPerPlate
BY AlwaysConsistent, PTL DEF Consistent

\* Nothing is queued for a closed job and nothing is left of a deleted one, although a
\* form, a review or a start may have been under way when it was closed or deleted.
THEOREM ClosedJobsStayClosed == Spec => []ClosedJobQueuesNothing
BY AlwaysConsistent, PTL DEF Consistent

-----------------------------------------------------------------------------
(* The history.                                                            *)

\* What HistoryIsPermanent says of one attempt and one step.
HistoryKept(a) ==
    \/ job'[JobOf[queue[a].plate]] = "deleted"
    \/ /\ a \in History'
       /\ queue'[a].plate = queue[a].plate /\ queue'[a].printer = queue[a].printer
       /\ queue[a].result # "" => queue'[a] = queue[a]

\* One row is rewritten: an unfinished attempt of the history stays in it, a resolved one
\* is written as it was.
LEMMA HistoryOneRow ==
  ASSUME TypeOK, NEW a \in Rows, NEW r \in Attempt,
         \A b \in Rows \ {a} : queue'[b] = queue[b],
         queue'[a] = r, r.plate = queue[a].plate, r.printer = queue[a].printer,
         queue[a].result # "" => r = queue[a],
         a \in History => r.result # "" \/ r.started = Stamp \/ r.completed = Stamp
  PROVE  \A b \in History : HistoryKept(b)
<1>1. \A b \in Rows : queue'[b] # NoRow
  BY NoRowAssumption DEF Rows
<1>2. \A b \in History \ {a} : HistoryKept(b)
  BY <1>1 DEF HistoryKept, History, Rows
<1>3. a \in History => HistoryKept(a)
  BY <1>1 DEF HistoryKept, History, Rows
<1> QED BY <1>2, <1>3

\* The rows of the history are left alone.
LEMMA HistorySameRows ==
  ASSUME \A b \in History : queue'[b] = queue[b]
  PROVE  \A b \in History : HistoryKept(b)
BY DEF HistoryKept, History, Rows

LEMMA HistoryStep == TypeOK /\ Consistent /\ [Next]_vars => \A a \in History : HistoryKept(a)
<1> SUFFICES ASSUME TypeOK, Consistent, [Next]_vars
             PROVE  \A a \in History : HistoryKept(a)
  OBVIOUS
<1>b. /\ Open \subseteq Rows /\ Waiting \subseteq Open /\ Printing \subseteq Open /\ InReview \subseteq Open
      /\ Claimed \subseteq Waiting /\ Rows \subseteq Pk /\ History \subseteq Rows
      /\ Waiting \cap History = {}
  BY DEF Open, Waiting, Printing, InReview, Claimed, Rows, History, Null, Stamp
<1>c. \A a \in Rows : queue[a] \in Attempt /\ RowFacts(queue[a]) /\ a < nextPk
  BY RowIsAttempt, RowsConsistentByRow DEF Consistent, TypeOK, Table
<1>d. Null \in Timestamp /\ Stamp \in Timestamp /\ Null # Stamp
  BY DEF Timestamp, Null, Stamp
<1>1. ASSUME UNCHANGED queue
      PROVE  \A a \in History : HistoryKept(a)
  BY <1>1, HistorySameRows
<1>2. ASSUME NEW pl \in Plates, NEW p \in Printers, NEW prio \in Priorities, SubmitForm(pl, p, prio)
      PROVE  \A a \in History : HistoryKept(a)
  <2>1. nextPk \notin Rows
    BY ONLY TypeOK, <1>b, <1>c, BoundsAssumption DEF TypeOK, Pk
  <2>2. \A a \in Rows : queue'[a] = queue[a]
    BY <1>2, <1>b, <2>1 DEF SubmitForm, Enqueue, table, TypeOK
  <2> QED BY <2>2, <1>b, HistorySameRows
<1>3. ASSUME NEW j \in Jobs, NEW p \in Printers, NEW prio \in Priorities, EnqueuePlates(j, p, prio)
      PROVE  \A a \in History : HistoryKept(a)
  <2> DEFINE rows == nextPk..(nextPk + Cardinality({pl \in PlatesOf(j) : Queueable(pl)}) - 1)
  <2>1. \A a \in Pk \ rows : queue'[a] = queue[a]
    BY <1>3 DEF EnqueuePlates
  <2>2. nextPk \in Int /\ \A a \in Pk : a \in Int
    BY BoundsAssumption DEF TypeOK, Pk
  <2>3. \A a \in Rows : a \notin rows
    BY <1>b, <1>c, <2>2
  <2> QED BY <2>1, <2>3, <1>b, HistorySameRows
<1>4. ASSUME NEW s \in Starters, NEW p \in Printers, StartNext(s, p)
      PROVE  \A a \in History : HistoryKept(a)
  <2>1. PICK a \in Waiting : queue' = [queue EXCEPT ![a].claim = Stamp]
    BY <1>4 DEF StartNext, ClaimNext
  <2> QED BY <1>b, <2>1, HistorySameRows DEF TypeOK
<1>5. ASSUME NEW s \in Starters, StartFails(s), target[s] \in Rows
      PROVE  \A a \in History : HistoryKept(a)
  <2> DEFINE r == [queue[target[s]] EXCEPT !.claim = Null]
  <2>1. queue' = [queue EXCEPT ![target[s]] = r]
    BY <1>5 DEF StartFails, ReleaseClaim, TypeOK
  <2>2. r \in Attempt /\ r.plate = queue[target[s]].plate /\ r.printer = queue[target[s]].printer
        /\ r.result = queue[target[s]].result /\ r.started = queue[target[s]].started
        /\ r.completed = queue[target[s]].completed
    BY <1>5, <1>c, <1>d DEF Attempt
  <2>3. queue[target[s]].claim = Null => r = queue[target[s]]
    BY <1>5, <1>c DEF Attempt
  <2>4. queue[target[s]].result # "" => r = queue[target[s]]
    BY <1>5, <1>c, <2>3 DEF RowFacts, Attempt, Timestamp
  <2>5. \A b \in Rows : queue'[b] = IF b = target[s] THEN r ELSE queue[b]
    BY <2>1, <1>b DEF TypeOK
  <2> QED BY <1>5, <2>2, <2>4, <2>5, HistoryOneRow DEF History
<1>7. ASSUME NEW s \in Starters, RecordStarted(s), target[s] \in Rows
      PROVE  \A a \in History : HistoryKept(a)
  <2> DEFINE r == [queue[target[s]] EXCEPT !.started = Stamp, !.claim = Null]
  <2>1. queue' = [queue EXCEPT ![target[s]] = r]
    BY <1>7 DEF RecordStarted, TypeOK
  <2>2. r \in Attempt /\ r.plate = queue[target[s]].plate /\ r.printer = queue[target[s]].printer
        /\ r.started = Stamp
    BY <1>7, <1>c, <1>d DEF Attempt
  <2>3. queue[target[s]].claim = Null /\ queue[target[s]].started = Stamp => r = queue[target[s]]
    BY <1>7, <1>c DEF Attempt
  <2>4. queue[target[s]].result # "" => r = queue[target[s]]
    BY <1>7, <1>c, <2>3 DEF RowFacts, Attempt, Timestamp
  <2>5. \A b \in Rows : queue'[b] = IF b = target[s] THEN r ELSE queue[b]
    BY <2>1, <1>b DEF TypeOK
  <2> QED BY <1>7, <2>2, <2>4, <2>5, HistoryOneRow
<1>10. ASSUME NEW a \in Pk, ClaimExpires(a)
       PROVE  \A b \in History : HistoryKept(b)
  BY <1>10, <1>b, HistorySameRows DEF ClaimExpires, TypeOK
<1>11. ASSUME NEW a \in Pk, AttemptEnds(a)
       PROVE  \A b \in History : HistoryKept(b)
  <2> DEFINE r == [queue[a] EXCEPT !.completed = Stamp]
  <2>1. a \in Rows /\ r \in Attempt /\ r.plate = queue[a].plate /\ r.printer = queue[a].printer
        /\ r.completed = Stamp /\ queue[a].result = ""
    BY <1>11, <1>b, <1>c, <1>d DEF AttemptEnds, Finish, Attempt, Printing, Open
  <2>2. \A b \in Rows : queue'[b] = IF b = a THEN r ELSE queue[b]
    BY <1>11, <1>b DEF AttemptEnds, Finish, TypeOK
  <2> QED BY <2>1, <2>2, HistoryOneRow
<1>12. ASSUME NEW a \in Pk, AdoptExternalPrint(a)
       PROVE  \A b \in History : HistoryKept(b)
  BY <1>12, <1>b, HistorySameRows DEF AdoptExternalPrint, TypeOK
<1>13. ASSUME NEW a \in Pk, NEW passed \in BOOLEAN, Review(a, passed)
       PROVE  \A b \in History : HistoryKept(b)
  <2>1. PICK res \in {"passed", "failed"} : \A b \in Rows : queue'[b] = IF b = a THEN [queue[a] EXCEPT !.result = res] ELSE queue[b]
    <3>1. a \in Rows /\ nextPk \notin Rows
      BY <1>13, <1>b, <1>c DEF Review, TypeOK
    <3> QED BY <1>13, <1>b, <3>1 DEF Review, TypeOK
  <2> DEFINE r == [queue[a] EXCEPT !.result = res]
  <2>2. a \in Rows /\ r \in Attempt /\ r.plate = queue[a].plate /\ r.printer = queue[a].printer
        /\ r.result # "" /\ queue[a].result = ""
    BY <1>13, <1>b, <1>c DEF Review, Attempt, InReview, Open, Results
  <2> QED BY <2>1, <2>2, HistoryOneRow
<1>14. ASSUME NEW a \in Pk, RemoveAttempt(a)
       PROVE  \A b \in History : HistoryKept(b)
  <2>1. a \in Open /\ \A b \in Rows : queue'[b] = IF b = a THEN AfterRemoval(a) ELSE queue[b]
    BY <1>14, <1>b DEF RemoveAttempt, Remove, TypeOK
  <2>2. CASE a \in Waiting
    BY <1>b, <2>1, <2>2, HistorySameRows
  <2>3. CASE a \notin Waiting
    <3> DEFINE r == [queue[a] EXCEPT !.result = "cancelled"]
    <3>1. a \in Rows /\ r \in Attempt /\ r.plate = queue[a].plate /\ r.printer = queue[a].printer
          /\ r.result # "" /\ queue[a].result = ""
      BY <1>b, <1>c, <2>1 DEF Attempt, Open, Results
    <3>2. \A b \in Rows : queue'[b] = IF b = a THEN r ELSE queue[b]
      BY <2>1, <2>3 DEF AfterRemoval
    <3> QED BY <3>1, <3>2, HistoryOneRow
  <2> QED BY <2>2, <2>3
<1>15. ASSUME NEW a \in Pk, NEW t \in -1..MaxAttempts, MoveQueueEntry(a, t)
       PROVE  \A b \in History : HistoryKept(b)
  BY <1>15, <1>b, HistorySameRows DEF MoveQueueEntry, Moved, TypeOK
<1>16. ASSUME NEW j \in Jobs, CloseJob(j)
       PROVE  \A b \in History : HistoryKept(b)
  BY <1>16, <1>b, HistorySameRows DEF CloseJob
<1>18. ASSUME NEW j \in Jobs, DeleteJob(j)
       PROVE  \A b \in History : HistoryKept(b)
  <2>1. \A b \in History : JobOf[queue[b].plate] = j => HistoryKept(b)
    BY <1>18 DEF DeleteJob, TypeOK, HistoryKept
  <2>2. \A b \in History : JobOf[queue[b].plate] # j => HistoryKept(b)
    BY <1>18, <1>b DEF DeleteJob, HistoryKept, OfJob, History, Rows
  <2> QED BY <2>1, <2>2
<1> QED
  BY <1>1, <1>2, <1>3, <1>4, <1>5, <1>7, <1>10, <1>11, <1>12, <1>13, <1>14, <1>15, <1>16, <1>18
     DEF Next, Enqueueing, Starting, StarterStep, Tracking, Managing, vars, table, ValidateForm,
         StartFails, ReleaseClaim, PrinterAccepts, RecordStarted, RecordRemoteName, Crash, ReopenJob, SetActive

\* A started attempt is never lost and a verdict never rewritten, not even by a start
\* that is recorded after its entry was cancelled meanwhile.
THEOREM HistoryStays == Spec => HistoryIsPermanent
<1>1. TypeOK /\ Consistent /\ [Next]_vars => [\A a \in History : HistoryKept(a)]_vars
  BY HistoryStep
<1>2. Spec => [][\A a \in History : HistoryKept(a)]_vars
  BY <1>1, AlwaysConsistent, PTL DEF Spec
<1> QED BY <1>2 DEF HistoryIsPermanent, HistoryKept

-----------------------------------------------------------------------------
(* Starts in progress.                                                     *)

\* What a starter remembers about its entry once the entry is started.
TargetsKnown ==
    \A s \in Starters :
        /\ pc[s] = "idle" => target[s] = 0
        /\ pc[s] # "idle" => target[s] \in Pk /\ target[s] < nextPk
        /\ pc[s] = "recorded" => target[s] \notin Waiting

\* The inductive invariant.  LiveStartsProtected is what makes recording a start and
\* releasing a claim harmless; BedReviewedBeforeStart needs OneStartPerPrinter when a
\* print ends.
Exclusive == OneStartPerPrinter /\ BedReviewedBeforeStart /\ LiveStartsProtected /\ TargetsKnown

LEMMA BusyParts ==
  /\ Printing \subseteq Open /\ InReview \subseteq Open /\ Claimed \subseteq Waiting /\ Waiting \subseteq Open
  /\ Open \subseteq Rows /\ Rows \subseteq Pk
  /\ Printing \cap Claimed = {} /\ InReview \cap Claimed = {} /\ Printing \cap Waiting = {}
BY DEF Printing, InReview, Claimed, Waiting, Open, Rows, Null, Stamp

\* A busy entry that was as busy before the step, or was being started.
Calm(b) ==
    /\ b \in Rows /\ queue'[b].printer = queue[b].printer
    /\ b \in Printing' => b \in Printing \cup Claimed
    /\ b \in Claimed' => b \in Claimed
    /\ b \in InReview' => b \in InReview

\* Steps that make no entry busier and leave the claims of running starts alone.
LEMMA ExclusiveQuiet ==
  ASSUME TypeOK, TypeOK', Exclusive, pc' = pc, target' = target, nextPk <= nextPk',
         \A b \in Printing' \cup Claimed' \cup InReview' : Calm(b),
         \A b \in Waiting' : b \in Waiting \/ nextPk <= b,
         \A s \in Starters : pc[s] \in {"uploading", "accepted"} => target[s] \in Claimed'
  PROVE  Exclusive'
<1>1. OneStartPerPrinter'
  BY DEF Exclusive, OneStartPerPrinter, Calm
<1>2. BedReviewedBeforeStart'
  BY DEF Exclusive, BedReviewedBeforeStart, Calm
<1>3. LiveStartsProtected'
  BY DEF Exclusive, LiveStartsProtected
<1>4. TargetsKnown'
  <2>1. nextPk \in Int /\ nextPk' \in Int /\ \A b \in Pk : b \in Int
    BY ONLY TypeOK, TypeOK', BoundsAssumption DEF TypeOK, Pk
  <2>2. ASSUME NEW s \in Starters
        PROVE  /\ pc[s] = "idle" => target[s] = 0
               /\ pc[s] # "idle" => target[s] \in Pk /\ target[s] < nextPk'
               /\ pc[s] = "recorded" => target[s] \notin Waiting'
    BY <2>1 DEF Exclusive, TargetsKnown
  <2> QED BY <2>2 DEF TargetsKnown
<1> QED BY <1>1, <1>2, <1>3, <1>4 DEF Exclusive

\* The table and the starters are left alone.
LEMMA ExclusiveSameTable ==
  ASSUME TypeOK, TypeOK', Exclusive, queue' = queue, nextPk' = nextPk, pc' = pc, target' = target
  PROVE  Exclusive'
<1>1. /\ Printing' = Printing /\ Claimed' = Claimed /\ InReview' = InReview /\ Waiting' = Waiting
  BY DEF Printing, Claimed, InReview, Waiting, Open, Rows
<1>2. \A b \in Printing' \cup Claimed' \cup InReview' : Calm(b)
  BY <1>1, BusyParts DEF Calm
<1>3. nextPk <= nextPk'
  BY ONLY TypeOK, nextPk' = nextPk, BoundsAssumption DEF TypeOK
<1>4. \A s \in Starters : pc[s] \in {"uploading", "accepted"} => target[s] \in Claimed'
  BY <1>1 DEF Exclusive, LiveStartsProtected
<1> QED BY <1>1, <1>2, <1>3, <1>4, ExclusiveQuiet

LEMMA ExclusiveInit == Init => Exclusive
BY DEF Init, Exclusive, OneStartPerPrinter, BedReviewedBeforeStart, LiveStartsProtected, TargetsKnown,
       Printing, Claimed, InReview, Waiting, Open, Rows

LEMMA BusyPartsNext ==
  /\ Printing' \subseteq Pk /\ InReview' \subseteq Pk /\ Claimed' \subseteq Waiting' /\ Waiting' \subseteq Pk
BY DEF Printing, InReview, Claimed, Waiting, Open, Rows

SameStatus(b) ==
    /\ b \in Printing' <=> b \in Printing
    /\ b \in InReview' <=> b \in InReview
    /\ b \in Claimed' <=> b \in Claimed
    /\ b \in Waiting' <=> b \in Waiting

\* The derived states after row a was rewritten to r.
LEMMA StatusOneRow ==
  ASSUME NEW a \in Rows, NEW r, r # NoRow, queue'[a] = r, \A b \in Pk \ {a} : queue'[b] = queue[b]
  PROVE  /\ \A b \in Pk \ {a} : SameStatus(b)
         /\ a \in Printing' <=> r.result = "" /\ r.started = Stamp /\ r.completed = Null
         /\ a \in InReview' <=> r.result = "" /\ r.completed = Stamp
         /\ a \in Waiting' <=> r.result = "" /\ r.started = Null /\ r.completed = Null
         /\ a \in Claimed' <=> a \in Waiting' /\ r.claim = Stamp
<1>1. a \in Pk /\ Rows \subseteq Pk
  BY DEF Rows
<1>2. Rows' = Rows
  BY <1>1 DEF Rows
<1>3. \A b \in Pk \ {a} : /\ b \in Open' <=> b \in Open
                          /\ b \in Waiting' <=> b \in Waiting
                          /\ b \in Printing' <=> b \in Printing
                          /\ b \in InReview' <=> b \in InReview
  BY <1>2 DEF Open, Waiting, Printing, InReview
<1>4. \A b \in Pk \ {a} : b \in Claimed' <=> b \in Claimed
  BY <1>3 DEF Claimed
<1>5. a \in Open' <=> r.result = ""
  BY <1>2 DEF Open
<1>6. /\ a \in Printing' <=> r.result = "" /\ r.started = Stamp /\ r.completed = Null
      /\ a \in InReview' <=> r.result = "" /\ r.completed = Stamp
      /\ a \in Waiting' <=> r.result = "" /\ r.started = Null /\ r.completed = Null
  BY <1>5 DEF Printing, InReview, Waiting
<1>7. a \in Claimed' <=> a \in Waiting' /\ r.claim = Stamp
  BY DEF Claimed
<1> QED BY <1>3, <1>4, <1>6, <1>7 DEF SameStatus

\* Row by row: deleted, unchanged as far as starting is concerned, or not busy.
Settled(b) ==
    \/ b \notin Rows'
    \/ b \in Rows /\ SameStatus(b) /\ queue'[b].printer = queue[b].printer
    \/ /\ b \notin Printing' \cup Claimed' \cup InReview'
       /\ b \in Waiting' => b \in Waiting \/ nextPk <= b

LEMMA SameRow ==
  ASSUME NEW b \in Rows, queue'[b] = queue[b]
  PROVE  Settled(b)
BY DEF Settled, SameStatus, Printing, InReview, Claimed, Waiting, Open, Rows

LEMMA IdleRow ==
  ASSUME NEW b \in Pk, nextPk <= b,
         queue'[b].started = Null, queue'[b].completed = Null, queue'[b].claim = Null
  PROVE  Settled(b)
BY DEF Settled, Printing, InReview, Claimed, Waiting, Open, Null, Stamp

LEMMA ResolvedIsIdle ==
  ASSUME NEW b \in Pk, queue'[b].result # ""
  PROVE  Settled(b)
BY DEF Settled, Printing, InReview, Claimed, Waiting, Open

LEMMA ExclusiveSettled ==
  ASSUME TypeOK, TypeOK', Exclusive, UNCHANGED starts, nextPk <= nextPk',
         \A b \in Pk : Settled(b),
         \A b \in Claimed : (\E s \in Starters : target[s] = b) => b \in Claimed'
  PROVE  Exclusive'
<1>1. \A b \in Printing' \cup Claimed' \cup InReview' : Calm(b)
  BY BusyPartsNext DEF Settled, SameStatus, Calm, Printing, InReview, Claimed, Waiting, Open
<1>2. \A b \in Waiting' : b \in Waiting \/ nextPk <= b
  BY BusyPartsNext DEF Settled, SameStatus, Waiting, Open
<1>3. \A s \in Starters : pc[s] \in {"uploading", "accepted"} => target[s] \in Claimed'
  BY DEF Exclusive, LiveStartsProtected
<1> QED BY <1>1, <1>2, <1>3, ExclusiveQuiet DEF starts

\* Only starter s moves, and no row is inserted.
OnlyStarter(s, label, a) ==
    /\ pc' = [pc EXCEPT ![s] = label]
    /\ target' = [target EXCEPT ![s] = a]
    /\ nextPk' = nextPk

\* Steps of one starter that make no entry busier.
LEMMA ExclusiveStarter ==
  ASSUME TypeOK, TypeOK', Exclusive, NEW s \in Starters, NEW label, NEW a, OnlyStarter(s, label, a),
         \A b \in Printing' \cup Claimed' \cup InReview' : Calm(b),
         Waiting' \subseteq Waiting \cup {target[s]},
         \A r \in Starters \ {s} : pc[r] \in {"uploading", "accepted"} => target[r] \in Claimed',
         \/ label = "idle" /\ a = 0
         \/ /\ pc[s] # "idle" /\ a = target[s]
            /\ label \in {"uploading", "accepted"} /\ a \in Claimed'
         \/ /\ pc[s] # "idle" /\ a = target[s]
            /\ label = "recorded" /\ a \notin Waiting'
  PROVE  Exclusive'
<1>1. /\ pc'[s] = label /\ target'[s] = a /\ nextPk' = nextPk
      /\ \A r \in Starters \ {s} : pc'[r] = pc[r] /\ target'[r] = target[r]
  BY DEF OnlyStarter, TypeOK
<1>2. OneStartPerPrinter'
  BY DEF Exclusive, OneStartPerPrinter, Calm
<1>3. BedReviewedBeforeStart'
  BY DEF Exclusive, BedReviewedBeforeStart, Calm
<1>4. 0 \notin Pk /\ \A b \in Pk : b \in Int
  BY DEF Pk
<1>5. LiveStartsProtected'
  <2>1. ASSUME NEW r \in Starters, pc'[r] \in {"uploading", "accepted"}
        PROVE  target'[r] \in Claimed'
    BY <1>1, <2>1
  <2>2. ASSUME NEW r \in Starters, NEW q \in Starters \ {r}, pc'[r] # "idle"
        PROVE  target'[q] # target'[r]
    <3>1. target'[r] = target[r] /\ pc[r] # "idle" /\ target[r] \in Pk
      BY <1>1, <2>2 DEF Exclusive, TargetsKnown
    <3>2. target'[q] = target[q] \/ target'[q] = 0
      BY <1>1
    <3>3. target[q] # target[r]
      BY <3>1 DEF Exclusive, LiveStartsProtected
    <3> QED BY <1>4, <3>1, <3>2, <3>3
  <2> QED BY <2>1, <2>2 DEF LiveStartsProtected
<1>6. TargetsKnown'
  <2>1. ASSUME NEW r \in Starters \ {s}, pc[r] = "recorded"
        PROVE  target[r] \notin Waiting'
    <3>1. pc[s] # "idle" => target[r] # target[s]
      BY DEF Exclusive, LiveStartsProtected
    <3>2. target[r] \in Pk /\ target[r] \notin Waiting /\ target[s] # target[r]
      BY <1>4, <2>1, <3>1 DEF Exclusive, TargetsKnown
    <3> QED BY <3>2
  <2>2. ASSUME NEW r \in Starters
        PROVE  /\ pc'[r] = "idle" => target'[r] = 0
               /\ pc'[r] # "idle" => target'[r] \in Pk /\ target'[r] < nextPk'
               /\ pc'[r] = "recorded" => target'[r] \notin Waiting'
    BY <1>1, <2>1 DEF Exclusive, TargetsKnown
  <2> QED BY <2>2 DEF TargetsKnown
<1> QED BY <1>2, <1>3, <1>5, <1>6 DEF Exclusive

LEMMA ExclusiveStep ==
  ASSUME SlowUploads = FALSE
  PROVE  TypeOK /\ Consistent /\ Exclusive /\ [Next]_vars => Exclusive'
<1> SUFFICES ASSUME TypeOK, Consistent, Exclusive, [Next]_vars
             PROVE  Exclusive'
  OBVIOUS
<1>a. TypeOK' /\ Consistent'
  BY TypeStep, ConsistentStep
<1>c. \A a \in Rows : queue[a] \in Attempt /\ RowFacts(queue[a]) /\ a < nextPk
  BY RowIsAttempt, RowsConsistentByRow DEF Consistent, TypeOK, Table
<1>n. nextPk \in Int /\ nextPk' \in Int /\ 0 \notin Pk /\ \A a \in Pk : a \in Int
  BY ONLY <1>a, TypeOK, BoundsAssumption DEF TypeOK, Pk
<1>l. \A s \in Starters : pc[s] \in {"uploading", "accepted"} => target[s] \in Claimed /\ target[s] \in Rows
  BY BusyParts DEF Exclusive, LiveStartsProtected
<1>1. ASSUME UNCHANGED <<queue, nextPk, pc, target>>
      PROVE  Exclusive'
  BY <1>1, <1>a, ExclusiveSameTable
<1>4. ASSUME NEW s \in Starters, NEW p \in Printers, StartNext(s, p)
      PROVE  Exclusive'
  <2>1. PICK a \in Waiting \cap On(p) : /\ queue' = [queue EXCEPT ![a].claim = Stamp]
                                        /\ OnlyStarter(s, "uploading", a)
    BY <1>4 DEF StartNext, ClaimNext, Go, OnlyStarter
  <2>2. pc[s] = "idle" /\ On(p) \cap Busy = {} /\ a \in Rows /\ a \in Open /\ queue[a].printer = p
    BY <1>4, <2>1, BusyParts DEF StartNext, ClaimNext, On
  <2>3. /\ queue'[a] = [queue[a] EXCEPT !.claim = Stamp]
        /\ \A b \in Pk \ {a} : queue'[b] = queue[b]
    BY <2>1, <2>2, BusyParts DEF TypeOK
  <2>4. /\ Printing' = Printing /\ InReview' = InReview /\ Claimed' = Claimed \cup {a} /\ Waiting' = Waiting
        /\ \A b \in Rows : queue'[b].printer = queue[b].printer
    <3> DEFINE r == [queue[a] EXCEPT !.claim = Stamp]
    <3>1. /\ r # NoRow /\ r.claim = Stamp /\ r.printer = queue[a].printer
          /\ r.result = "" /\ r.started = Null /\ r.completed = Null
      BY <1>c, <2>1, <2>2, StampedRow, NoRowAssumption DEF Waiting, Open, Attempt, Timestamp
    <3>2. a \notin Printing /\ a \notin InReview
      BY <2>1, <2>2 DEF Printing, InReview, Waiting, Null, Stamp
    <3>3. /\ \A b \in Pk \ {a} : SameStatus(b)
          /\ a \notin Printing' /\ a \notin InReview' /\ a \in Waiting' /\ a \in Claimed'
      BY <2>2, <2>3, <3>1, StatusOneRow DEF Null, Stamp
    <3>5. Printing' = Printing /\ InReview' = InReview
      BY <3>2, <3>3, BusyParts, BusyPartsNext DEF SameStatus
    <3>6. Claimed' = Claimed \cup {a} /\ Waiting' = Waiting
      BY <2>1, <3>3, BusyParts, BusyPartsNext DEF SameStatus
    <3>7. \A b \in Rows : queue'[b].printer = queue[b].printer
      BY <2>3, <3>1, BusyParts
    <3> QED BY <3>5, <3>6, <3>7
  <2>5. \A b \in Printing \cup InReview \cup Claimed : queue[b].printer # p
    BY <2>2, BusyParts DEF On, Busy
  <2>6. OneStartPerPrinter' /\ BedReviewedBeforeStart'
    BY <2>2, <2>4, <2>5, BusyParts DEF Exclusive, OneStartPerPrinter, BedReviewedBeforeStart
  <2>7. \A r \in Starters \ {s} : pc[r] # "idle" => target[r] # a
    BY <1>l, <2>1, <2>2, <2>5 DEF Exclusive, TargetsKnown, TypeOK
  <2>8. /\ pc'[s] = "uploading" /\ target'[s] = a
        /\ \A r \in Starters \ {s} : pc'[r] = pc[r] /\ target'[r] = target[r]
    BY <2>1 DEF OnlyStarter, TypeOK
  <2>9. LiveStartsProtected'
    BY <1>n, <2>2, <2>4, <2>7, <2>8, BusyParts DEF Exclusive, LiveStartsProtected, TargetsKnown, TypeOK
  <2>10. TargetsKnown'
    BY <1>c, <1>n, <2>1, <2>2, <2>4, <2>8, BusyParts DEF Exclusive, TargetsKnown, OnlyStarter
  <2> QED BY <2>6, <2>9, <2>10 DEF Exclusive
<1>5. ASSUME NEW s \in Starters, StartFails(s)
      PROVE  Exclusive'
  <2> DEFINE a == target[s]
             r == [queue[a] EXCEPT !.claim = Null]
  <2>1. pc[s] = "uploading" /\ a \in Claimed /\ a \in Rows /\ a \in Waiting
    BY <1>5, <1>l, BusyParts DEF StartFails
  <2>2. OnlyStarter(s, "idle", 0) /\ queue' = [queue EXCEPT ![a] = r]
    BY <1>5, <2>1 DEF StartFails, ReleaseClaim, Go, OnlyStarter, TypeOK
  <2>3. queue'[a] = r /\ \A b \in Pk \ {a} : queue'[b] = queue[b]
    BY <2>1, <2>2, BusyParts DEF TypeOK
  <2>4. /\ r # NoRow /\ r.claim = Null /\ r.printer = queue[a].printer
        /\ r.result = "" /\ r.started = Null /\ r.completed = Null
    BY <1>c, <2>1, StampedRow, NoRowAssumption DEF Waiting, Open, Attempt, Timestamp
  <2>5. /\ \A b \in Pk \ {a} : SameStatus(b)
        /\ a \notin Printing' /\ a \notin InReview' /\ a \notin Claimed'
    BY <2>1, <2>3, <2>4, StatusOneRow DEF Null, Stamp
  <2>6. \A b \in Printing' \cup Claimed' \cup InReview' : Calm(b)
    BY <2>3, <2>5, BusyParts, BusyPartsNext DEF Calm, SameStatus
  <2>7. Waiting' \subseteq Waiting \cup {target[s]}
    BY <2>5, BusyPartsNext DEF SameStatus
  <2>8. \A q \in Starters \ {s} : pc[q] \in {"uploading", "accepted"} => target[q] \in Claimed'
    <3>1. \A q \in Starters \ {s} : pc[q] \in {"uploading", "accepted"} => target[q] # a
      BY <2>1 DEF Exclusive, LiveStartsProtected
    <3> QED BY <1>l, <2>5, <3>1, BusyParts DEF SameStatus
  <2> QED BY <1>a, <2>2, <2>6, <2>7, <2>8, ExclusiveStarter
<1>6. ASSUME NEW s \in Starters, PrinterAccepts(s) \/ RecordRemoteName(s) \/ Crash(s)
      PROVE  Exclusive'
  <2>1. queue' = queue
    BY <1>6 DEF PrinterAccepts, RecordRemoteName, Crash, table
  <2>2. \A b \in Pk : SameStatus(b)
    BY <2>1 DEF SameStatus, Printing, InReview, Claimed, Waiting, Open, Rows
  <2>3. \A b \in Printing' \cup Claimed' \cup InReview' : Calm(b)
    BY <2>1, <2>2, BusyParts, BusyPartsNext DEF Calm, SameStatus
  <2>4. Waiting' \subseteq Waiting \cup {target[s]}
    BY <2>2, BusyPartsNext DEF SameStatus
  <2>5. \A q \in Starters : pc[q] \in {"uploading", "accepted"} => target[q] \in Claimed'
    BY <1>l, <2>2, BusyParts DEF SameStatus
  <2>6. CASE PrinterAccepts(s)
    <3>1. OnlyStarter(s, "accepted", target[s]) /\ pc[s] = "uploading"
      BY <2>6 DEF PrinterAccepts, Go, OnlyStarter, table
    <3> QED BY <1>a, <2>3, <2>4, <2>5, <3>1, ExclusiveStarter
  <2>7. CASE RecordRemoteName(s) \/ Crash(s)
    <3>1. OnlyStarter(s, "idle", 0)
      BY <2>7 DEF RecordRemoteName, Crash, Go, OnlyStarter, table
    <3> QED BY <1>a, <2>3, <2>4, <2>5, <3>1, ExclusiveStarter
  <2> QED BY <1>6, <2>6, <2>7
<1>7. ASSUME NEW s \in Starters, RecordStarted(s)
      PROVE  Exclusive'
  <2> DEFINE a == target[s]
             r == [queue[a] EXCEPT !.started = Stamp, !.claim = Null]
  <2>1. pc[s] = "accepted" /\ a \in Claimed /\ a \in Rows /\ a \in Waiting
    BY <1>7, <1>l, BusyParts DEF RecordStarted
  <2>2. OnlyStarter(s, "recorded", a) /\ queue' = [queue EXCEPT ![a] = r]
    BY <1>7, <2>1 DEF RecordStarted, Go, OnlyStarter, TypeOK
  <2>3. queue'[a] = r /\ \A b \in Pk \ {a} : queue'[b] = queue[b]
    BY <2>1, <2>2, BusyParts DEF TypeOK
  <2>4. /\ r # NoRow /\ r.claim = Null /\ r.printer = queue[a].printer
        /\ r.result = "" /\ r.started = Stamp /\ r.completed = Null
    BY <1>c, <2>1, StampedRow, NoRowAssumption DEF Waiting, Open, Attempt, Timestamp
  <2>5. /\ \A b \in Pk \ {a} : SameStatus(b)
        /\ a \notin Waiting' /\ a \notin InReview' /\ a \notin Claimed'
    BY <2>1, <2>3, <2>4, StatusOneRow DEF Null, Stamp
  <2>6. \A b \in Printing' \cup Claimed' \cup InReview' : Calm(b)
    BY <2>1, <2>3, <2>4, <2>5, BusyParts, BusyPartsNext DEF Calm, SameStatus
  <2>7. Waiting' \subseteq Waiting \cup {target[s]}
    BY <2>5, BusyPartsNext DEF SameStatus
  <2>8. \A q \in Starters \ {s} : pc[q] \in {"uploading", "accepted"} => target[q] \in Claimed'
    <3>1. \A q \in Starters \ {s} : pc[q] \in {"uploading", "accepted"} => target[q] # a
      BY <2>1 DEF Exclusive, LiveStartsProtected
    <3> QED BY <1>l, <2>5, <3>1, BusyParts DEF SameStatus
  <2> QED BY <1>a, <2>1, <2>2, <2>5, <2>6, <2>7, <2>8, ExclusiveStarter
<1>11. ASSUME NEW a \in Pk, AttemptEnds(a)
       PROVE  Exclusive'
  <2> DEFINE r == [queue[a] EXCEPT !.completed = Stamp]
  <2>1. a \in Printing /\ a \in Rows /\ a \notin Waiting /\ a \notin Claimed
    BY <1>11, BusyParts DEF AttemptEnds, Finish
  <2>2. queue' = [queue EXCEPT ![a] = r] /\ UNCHANGED <<nextPk, starts>>
    BY <1>11 DEF AttemptEnds, Finish, TypeOK
  <2>3. queue'[a] = r /\ \A b \in Pk \ {a} : queue'[b] = queue[b]
    BY <2>1, <2>2, BusyParts DEF TypeOK
  <2>4. r # NoRow /\ r.printer = queue[a].printer /\ r.completed = Stamp
    <3>1. r \in Attempt
      BY <1>c, <2>1 DEF Attempt, Timestamp
    <3> QED BY <1>c, <2>1, <3>1, NoRowAssumption DEF Attempt
  <2>5. /\ \A b \in Pk \ {a} : SameStatus(b)
        /\ a \notin Waiting' /\ a \notin Printing' /\ a \notin Claimed'
    BY <2>1, <2>3, <2>4, StatusOneRow DEF Null, Stamp
  <2>6. /\ \A b \in Rows : queue'[b].printer = queue[b].printer
        /\ Printing' \subseteq Printing /\ Claimed' = Claimed /\ Waiting' = Waiting
        /\ InReview' \subseteq InReview \cup {a}
    <3>1. \A b \in Rows : queue'[b].printer = queue[b].printer
      BY <2>3, <2>4, BusyParts
    <3>2. Printing' \subseteq Printing /\ Claimed' = Claimed
      BY <2>1, <2>5, BusyParts, BusyPartsNext DEF SameStatus
    <3>3. Waiting' = Waiting /\ InReview' \subseteq InReview \cup {a}
      BY <2>1, <2>5, BusyParts, BusyPartsNext DEF SameStatus
    <3> QED BY <3>1, <3>2, <3>3
  <2>7. OneStartPerPrinter'
    BY <2>6, BusyParts DEF Exclusive, OneStartPerPrinter
  <2>8. BedReviewedBeforeStart'
    <3>1. \A b \in Claimed : queue[b].printer # queue[a].printer
      BY <2>1 DEF Exclusive, OneStartPerPrinter
    <3> QED BY <2>1, <2>6, <3>1, BusyParts DEF Exclusive, BedReviewedBeforeStart
  <2>9. LiveStartsProtected' /\ TargetsKnown'
    BY <2>2, <2>6 DEF Exclusive, LiveStartsProtected, TargetsKnown, starts
  <2> QED BY <2>7, <2>8, <2>9 DEF Exclusive
<1>12. ASSUME NEW a \in Pk, AdoptExternalPrint(a)
       PROVE  Exclusive'
  <2> DEFINE r == [queue[a] EXCEPT !.started = Stamp, !.claim = Null]
  <2>1. /\ a \in Waiting /\ a \in Open /\ a \in Rows
        /\ On(queue[a].printer) \cap (Printing \cup Claimed) = {}
    BY <1>12, BusyParts DEF AdoptExternalPrint
  <2>2. queue' = [queue EXCEPT ![a] = r] /\ UNCHANGED <<nextPk, starts>>
    BY <1>12 DEF AdoptExternalPrint, TypeOK
  <2>3. queue'[a] = r /\ \A b \in Pk \ {a} : queue'[b] = queue[b]
    BY <2>1, <2>2, BusyParts DEF TypeOK
  <2>4. /\ r # NoRow /\ r.claim = Null /\ r.printer = queue[a].printer
        /\ r.result = "" /\ r.started = Stamp /\ r.completed = Null
    BY <1>c, <2>1, StampedRow, NoRowAssumption DEF Waiting, Open, Attempt, Timestamp
  <2>5. /\ \A b \in Pk \ {a} : SameStatus(b)
        /\ a \notin Waiting' /\ a \notin InReview' /\ a \notin Claimed'
    BY <2>1, <2>3, <2>4, StatusOneRow DEF Null, Stamp
  <2>6. a \notin Claimed /\ \A b \in Printing \cup Claimed : queue[b].printer # queue[a].printer
    BY <2>1, BusyParts DEF On
  <2>7. /\ \A b \in Rows : queue'[b].printer = queue[b].printer
        /\ Printing' \subseteq Printing \cup {a} /\ Claimed' = Claimed
        /\ InReview' \subseteq InReview /\ Waiting' \subseteq Waiting
    <3>1. \A b \in Rows : queue'[b].printer = queue[b].printer
      BY <2>3, <2>4, BusyParts
    <3>2. Printing' \subseteq Printing \cup {a} /\ Claimed' = Claimed
      BY <2>5, <2>6, BusyParts, BusyPartsNext DEF SameStatus
    <3>3. InReview' \subseteq InReview /\ Waiting' \subseteq Waiting
      BY <2>5, BusyParts, BusyPartsNext DEF SameStatus
    <3> QED BY <3>1, <3>2, <3>3
  <2>8. OneStartPerPrinter'
    BY <2>1, <2>6, <2>7, BusyParts DEF Exclusive, OneStartPerPrinter
  <2>9. BedReviewedBeforeStart'
    BY <2>7, BusyParts DEF Exclusive, BedReviewedBeforeStart
  <2>10. LiveStartsProtected' /\ TargetsKnown'
    BY <2>2, <2>7 DEF Exclusive, LiveStartsProtected, TargetsKnown, starts
  <2> QED BY <2>8, <2>9, <2>10 DEF Exclusive
<1>2. ASSUME NEW pl \in Plates, NEW p \in Printers, NEW prio \in Priorities, SubmitForm(pl, p, prio)
      PROVE  Exclusive'
  <2>1. CASE MaySave(pl)
    <3>1. PICK n \in Positions(p) : queue' = [queue EXCEPT ![nextPk] = NewAttempt(pl, p, prio, n + 1, FALSE)]
      BY <1>2, <2>1 DEF SubmitForm, Enqueue
    <3>2. UNCHANGED starts /\ nextPk' = nextPk + 1 /\ nextPk <= MaxAttempts
      BY <1>2, <2>1 DEF SubmitForm, Enqueue
    <3>3. nextPk \in Pk /\ nextPk \notin Rows
      BY <3>2, <1>c, <1>n, BoundsAssumption DEF TypeOK, Pk
    <3>4. /\ queue'[nextPk] = NewAttempt(pl, p, prio, n + 1, FALSE)
          /\ \A b \in Pk \ {nextPk} : queue'[b] = queue[b]
      BY <3>1, <3>3 DEF TypeOK
    <3>5. Settled(nextPk)
      <4>1. queue'[nextPk].started = Null /\ queue'[nextPk].completed = Null /\ queue'[nextPk].claim = Null
        <5> DEFINE r == NewAttempt(pl, p, prio, n + 1, FALSE)
        <5>1. r.started = Null /\ r.completed = Null /\ r.claim = Null
          BY DEF NewAttempt
        <5> QED BY <3>4, <5>1
      <4>2. nextPk <= nextPk
        BY <1>n
      <4> QED BY <3>3, <4>1, <4>2, IdleRow
    <3>6. \A b \in Pk \ {nextPk} : Settled(b)
      BY <3>4, SameRow DEF Settled, Rows
    <3>7. \A b \in Claimed : b \in Claimed'
      BY <3>3, <3>4, BusyParts DEF Claimed, Waiting, Open, Rows
    <3>8. nextPk <= nextPk'
      BY <1>n, <3>2
    <3> QED BY <1>a, <3>2, <3>5, <3>6, <3>7, <3>8, ExclusiveSettled
  <2>2. CASE ~MaySave(pl)
    BY <1>1, <1>2, <2>2 DEF SubmitForm, table, starts
  <2> QED BY <2>1, <2>2
<1>3. ASSUME NEW j \in Jobs, NEW p \in Printers, NEW prio \in Priorities, EnqueuePlates(j, p, prio)
      PROVE  Exclusive'
  <2> DEFINE todo == {pl \in PlatesOf(j) : Queueable(pl)}
             rows == nextPk..(nextPk + Cardinality(todo) - 1)
  <2>1. PICK n \in Positions(p), plateOf \in [rows -> todo] :
           queue' = [a \in Pk |-> IF a \in rows
                                  THEN NewAttempt(plateOf[a], p, prio, n + 1 + a - nextPk, FALSE)
                                  ELSE queue[a]]
    BY <1>3 DEF EnqueuePlates
  <2>2. nextPk' = nextPk + Cardinality(todo) /\ rows \subseteq Pk /\ UNCHANGED starts
    BY <1>3 DEF EnqueuePlates
  <2>3. Cardinality(todo) \in Nat
    BY PlatesAssumption, FS_Subset, FS_CardinalityType DEF PlatesOf
  <2>4. \A a \in rows : nextPk <= a /\ a \notin Rows
    BY <1>c, <1>n
  <2>5. ASSUME NEW a \in rows
        PROVE  Settled(a)
    <3>1. queue'[a] = NewAttempt(plateOf[a], p, prio, n + 1 + a - nextPk, FALSE)
      BY <2>1, <2>2
    <3>2. queue'[a].started = Null /\ queue'[a].completed = Null /\ queue'[a].claim = Null
      <4> DEFINE r == NewAttempt(plateOf[a], p, prio, n + 1 + a - nextPk, FALSE)
      <4>1. r.started = Null /\ r.completed = Null /\ r.claim = Null
        BY DEF NewAttempt
      <4> QED BY <3>1, <4>1
    <3>3. a \in Pk /\ nextPk <= a
      BY <2>2, <2>4
    <3> QED BY <3>2, <3>3, IdleRow
  <2>6. \A b \in Pk \ rows : queue'[b] = queue[b]
    BY <2>1
  <2>7. \A b \in Pk \ rows : Settled(b)
    BY <2>6, SameRow DEF Settled, Rows
  <2>8. \A b \in Claimed : b \in Claimed'
    BY <2>4, <2>6, BusyParts DEF Claimed, Waiting, Open, Rows
  <2>9. nextPk <= nextPk'
    BY <1>n, <2>2, <2>3
  <2> QED BY <1>a, <2>2, <2>5, <2>7, <2>8, <2>9, ExclusiveSettled
<1>10. ASSUME NEW a \in Pk, ClaimExpires(a)
       PROVE  Exclusive'
  <2> DEFINE r == [queue[a] EXCEPT !.claim = Null]
  <2>1. a \in Claimed /\ a \in Waiting /\ a \in Rows /\ \A s \in Starters : target[s] # a
    BY <1>10, BusyParts DEF ClaimExpires
  <2>2. queue' = [queue EXCEPT ![a] = r] /\ UNCHANGED <<nextPk, starts>>
    BY <1>10 DEF ClaimExpires, TypeOK
  <2>3. queue'[a] = r /\ \A b \in Pk \ {a} : queue'[b] = queue[b]
    BY <2>1, <2>2, BusyParts DEF TypeOK
  <2>4. /\ r # NoRow /\ r.claim = Null /\ r.printer = queue[a].printer
        /\ r.result = "" /\ r.started = Null /\ r.completed = Null
    BY <1>c, <2>1, StampedRow, NoRowAssumption DEF Waiting, Open, Attempt, Timestamp
  <2>5. /\ \A b \in Pk \ {a} : SameStatus(b)
        /\ a \notin Printing' /\ a \notin InReview' /\ a \notin Claimed'
    BY <2>1, <2>3, <2>4, StatusOneRow DEF Null, Stamp
  <2>6. Settled(a)
    BY <2>1, <2>5 DEF Settled
  <2>7. \A b \in Pk \ {a} : Settled(b)
    BY <2>3, SameRow DEF Settled, Rows
  <2>8. \A b \in Claimed : (\E s \in Starters : target[s] = b) => b \in Claimed'
    BY <2>1, <2>5, BusyParts DEF SameStatus
  <2>9. nextPk <= nextPk'
    BY <1>n, <2>2
  <2> QED BY <1>a, <2>2, <2>6, <2>7, <2>8, <2>9, ExclusiveSettled
<1>13. ASSUME NEW a \in Pk, NEW passed \in BOOLEAN, Review(a, passed)
       PROVE  Exclusive'
  <2>1. a \in InReview /\ a \in Rows /\ a \notin Claimed
    BY <1>13, BusyParts DEF Review
  <2>2. UNCHANGED starts
    BY <1>13 DEF Review
  <2>3. PICK res \in {"passed", "failed"} :
           \/ queue' = [queue EXCEPT ![a].result = res] /\ nextPk' = nextPk
           \/ /\ queue' = [queue EXCEPT ![a].result = res, ![nextPk] = Retry(a)]
              /\ nextPk <= MaxAttempts /\ nextPk' = nextPk + 1
    BY <1>13 DEF Review
  <2>4. nextPk <= nextPk' /\ nextPk \notin Rows
    BY <1>c, <1>n, <2>3
  <2>5. \A b \in Pk \ {a, nextPk} : queue'[b] = queue[b]
    BY <2>3 DEF TypeOK
  <2>6. queue'[a].result # ""
    BY <1>c, <2>1, <2>3, <2>4, BusyParts DEF TypeOK, Attempt
  <2>7. nextPk \in Pk => queue'[nextPk] = queue[nextPk] \/ queue'[nextPk] = Retry(a)
    BY <2>1, <2>3, <2>4 DEF TypeOK
  <2>8. nextPk \in Pk => Settled(nextPk)
    <3>1. CASE nextPk \in Pk /\ queue'[nextPk] = queue[nextPk]
      BY <2>4, <3>1 DEF Settled, Rows
    <3>2. CASE nextPk \in Pk /\ queue'[nextPk] = Retry(a)
      <4>1. queue'[nextPk].started = Null /\ queue'[nextPk].completed = Null /\ queue'[nextPk].claim = Null
        <5>1. Retry(a).started = Null /\ Retry(a).completed = Null /\ Retry(a).claim = Null
          BY DEF Retry, NewAttempt
        <5> QED BY <3>2, <5>1
      <4>2. nextPk <= nextPk
        BY <1>n
      <4> QED BY <3>2, <4>1, <4>2, IdleRow
    <3> QED BY <2>7, <3>1, <3>2
  <2>9. Settled(a)
    BY <2>1, <2>6, ResolvedIsIdle, BusyParts
  <2>10. \A b \in Pk \ {a, nextPk} : Settled(b)
    BY <2>5, SameRow DEF Settled, Rows
  <2>11. \A b \in Claimed : b \in Claimed'
    <3>1. \A b \in Claimed : b \in Rows /\ b \in Pk \ {a, nextPk}
      BY <2>1, <2>4, BusyParts
    <3> QED BY <2>5, <3>1 DEF Claimed, Waiting, Open, Rows
  <2> QED BY <1>a, <2>2, <2>4, <2>8, <2>9, <2>10, <2>11, ExclusiveSettled
<1>14. ASSUME NEW a \in Pk, RemoveAttempt(a)
       PROVE  Exclusive'
  <2>1. a \in Open /\ a \notin Claimed /\ a \in Rows /\ UNCHANGED <<nextPk, starts>>
    BY <1>14, BusyParts DEF RemoveAttempt, Remove
  <2>2. queue'[a] = AfterRemoval(a) /\ \A b \in Pk \ {a} : queue'[b] = queue[b]
    BY <1>14 DEF RemoveAttempt, Remove, TypeOK
  <2>3. Settled(a)
    <3>1. CASE a \in Waiting
      BY <2>2, <3>1 DEF AfterRemoval, Settled, Rows
    <3>2. CASE a \notin Waiting
      <4>1. queue'[a].result # ""
        BY <1>c, <2>1, <2>2, <3>2 DEF AfterRemoval, Attempt
      <4> QED BY <4>1, ResolvedIsIdle
    <3> QED BY <3>1, <3>2
  <2>4. \A b \in Pk \ {a} : Settled(b)
    BY <2>2, SameRow DEF Settled, Rows
  <2>5. \A b \in Claimed : b \in Claimed'
    BY <2>1, <2>2, BusyParts DEF Claimed, Waiting, Open, Rows
  <2>6. nextPk <= nextPk'
    BY <1>n, <2>1
  <2> QED BY <1>a, <2>1, <2>3, <2>4, <2>5, <2>6, ExclusiveSettled
<1>15. ASSUME NEW a \in Pk, NEW t \in -1..MaxAttempts, MoveQueueEntry(a, t)
       PROVE  Exclusive'
  <2> DEFINE W == Waiting \cap On(queue[a].printer)
  <2>1. W \in SUBSET Rows /\ W \in SUBSET Pk /\ a \in W
    BY <1>15, BusyParts DEF MoveQueueEntry, On
  <2>2. ClampIndex(W, t) \in Nat
    BY <2>1, BoundsAssumption, ClampIndexType
  <2>3. queue' = Moved(queue, W, a, ClampIndex(W, t)) /\ UNCHANGED <<nextPk, starts>>
    BY <1>15 DEF MoveQueueEntry
  <2>4. /\ \A b \in Pk \ W : queue'[b] = queue[b]
        /\ \A b \in W : SameButOrder(queue'[b], queue[b]) /\ queue'[b] \in Attempt
    <3>1. queue \in Table
      BY DEF TypeOK, Table
    <3> QED BY <2>1, <2>2, <2>3, <3>1, MovedRows
  <2>5. ASSUME NEW b \in W
        PROVE  Settled(b) /\ (b \in Claimed => b \in Claimed')
    <3>1. queue'[b] # NoRow
      BY <2>4, NoRowAssumption
    <3>2. SameStatus(b) /\ queue'[b].printer = queue[b].printer /\ b \in Rows
      BY <2>1, <2>4, <3>1 DEF SameButOrder, SameStatus, Printing, InReview, Claimed, Waiting, Open, Rows
    <3> QED BY <3>2 DEF Settled, SameStatus
  <2>6. \A b \in Pk \ W : Settled(b)
    BY <2>4, SameRow DEF Settled, Rows
  <2>7. \A b \in Claimed : b \in Claimed'
    BY <2>4, <2>5, BusyParts DEF Claimed, Waiting, Open, Rows
  <2>8. nextPk <= nextPk'
    BY <1>n, <2>3
  <2> QED BY <1>a, <2>3, <2>5, <2>6, <2>7, <2>8, ExclusiveSettled
<1>16. ASSUME NEW j \in Jobs, CloseJob(j)
       PROVE  Exclusive'
  <2>1. UNCHANGED <<nextPk, starts>> /\ OfJob(j) \cap Busy = {}
    BY <1>16 DEF CloseJob
  <2>2. \A b \in Pk : queue'[b] = queue[b] \/ (b \in OfJob(j) \cap Waiting /\ queue'[b] = NoRow)
    BY <1>16 DEF CloseJob
  <2>3. \A b \in Pk : Settled(b)
    BY <2>2, SameRow DEF Settled, Rows
  <2>4. \A b \in Claimed : b \in Claimed'
    BY <2>1, <2>2, BusyParts DEF Busy, Claimed, Waiting, Open, Rows
  <2>5. nextPk <= nextPk'
    BY <1>n, <2>1
  <2> QED BY <1>a, <2>1, <2>3, <2>4, <2>5, ExclusiveSettled
<1>18. ASSUME NEW j \in Jobs, DeleteJob(j)
       PROVE  Exclusive'
  <2>1. UNCHANGED <<nextPk, starts>> /\ OfJob(j) \cap Busy = {}
    BY <1>18 DEF DeleteJob
  <2>2. \A b \in Pk : queue'[b] = queue[b] \/ (b \in OfJob(j) /\ queue'[b] = NoRow)
    BY <1>18 DEF DeleteJob
  <2>3. \A b \in Pk : Settled(b)
    BY <2>2, SameRow DEF Settled, Rows
  <2>4. \A b \in Claimed : b \in Claimed'
    BY <2>1, <2>2, BusyParts DEF Busy, Claimed, Waiting, Open, Rows
  <2>5. nextPk <= nextPk'
    BY <1>n, <2>1
  <2> QED BY <1>a, <2>1, <2>3, <2>4, <2>5, ExclusiveSettled
<1> QED
  BY SlowAssumption, <1>1, <1>2, <1>3, <1>4, <1>5, <1>6, <1>7, <1>10, <1>11, <1>12, <1>13, <1>14, <1>15, <1>16, <1>18
     DEF Next, Enqueueing, Starting, StarterStep, Tracking, Managing, vars, table, starts,
         ValidateForm, ReopenJob, SetActive

LEMMA AlwaysExclusive ==
  ASSUME SlowUploads = FALSE
  PROVE  Spec => [](TypeOK /\ Consistent /\ Exclusive)
<1>1. Init => TypeOK /\ Consistent /\ Exclusive
  BY TypeInit, ConsistentInit, ExclusiveInit
<1>2. TypeOK /\ Consistent /\ Exclusive /\ [Next]_vars => (TypeOK /\ Consistent /\ Exclusive)'
  BY TypeStep, ConsistentStep, ExclusiveStep
<1> QED BY <1>1, <1>2, PTL DEF Spec

\* A printer never has two starts, or a start and a running print, at once: whoever
\* started them (web, scheduler or the printer's display) and whatever crashed meanwhile.
THEOREM OneStartAtATime ==
  ASSUME SlowUploads = FALSE
  PROVE  Spec => []OneStartPerPrinter
BY AlwaysExclusive, PTL DEF Exclusive

\* No start is under way on a printer whose last print still awaits its review.
THEOREM StartsOnReviewedBed ==
  ASSUME SlowUploads = FALSE
  PROVE  Spec => []BedReviewedBeforeStart
BY AlwaysExclusive, PTL DEF Exclusive

\* As long as a process uploads an entry, the entry is claimed for it alone.
THEOREM LiveStartsStayProtected ==
  ASSUME SlowUploads = FALSE
  PROVE  Spec => []LiveStartsProtected
BY AlwaysExclusive, PTL DEF Exclusive

-----------------------------------------------------------------------------
(* Cycles: the attempts of a plate between two queueings by a user.        *)

\* A set of rows has a last one.
LEMMA LastRow ==
  ASSUME NEW M \in SUBSET Pk, M # {}
  PROVE  \E x \in M : \A y \in M : y <= x
<1> DEFINE From(x) == {y \in M : x <= y}
           R == StrictSubsetOrdering(Pk)
           T == {From(x) : x \in M}
<1>1. IsFiniteSet(Pk)
  BY BoundsAssumption, FS_Interval DEF Pk
<1>2. IsWellFoundedOn(R, FiniteSubsetsOf(Pk))
  BY FS_StrictSubsetOrderingWellFounded
<1>3. T \subseteq FiniteSubsetsOf(Pk) /\ T # {}
  <2>1. ASSUME NEW S \in SUBSET Pk
        PROVE  S \in FiniteSubsetsOf(Pk)
    BY <1>1, FS_Subset DEF FiniteSubsetsOf
  <2>2. \A x \in M : From(x) \in SUBSET Pk
    OBVIOUS
  <2> QED BY <2>1, <2>2
<1> HIDE DEF R
<1>4. PICK S \in T : \A U \in T : <<U, S>> \notin R
  BY <1>2, <1>3, WFMin
<1>5. PICK x \in M : S = From(x)
  OBVIOUS
<1>6. ASSUME NEW y \in M, ~(y <= x)
      PROVE  FALSE
  <2>1. x \in Int /\ y \in Int /\ \A z \in M : z \in Int
    BY DEF Pk
  <2>2. From(y) \subseteq From(x) /\ x \in From(x) /\ x \notin From(y)
    <3>1. \A z \in M : y <= z => x <= z
      BY <1>6, <2>1
    <3>2. x <= x /\ ~(y <= x)
      BY <1>6, <2>1
    <3> QED BY <3>1, <3>2
  <2>3. From(y) \in SUBSET Pk /\ From(x) \in SUBSET Pk /\ From(y) # From(x)
    BY <2>2
  <2>4. <<From(y), From(x)>> \in R
    BY <2>2, <2>3 DEF R, StrictSubsetOrdering
  <2> QED BY <1>4, <1>5, <2>4
<1> QED BY <1>6

\* An open attempt is the newest of its plate.
OpenIsNewest == \A a \in Open, b \in Rows : queue[b].plate = queue[a].plate => b <= a

\* A retry comes after a resolved attempt that a user queued.
RetriesFollow ==
    \A r \in Rows : queue[r].is_retry =>
        \E m \in Rows : /\ m < r /\ queue[m].plate = queue[r].plate
                       /\ ~queue[m].is_retry /\ queue[m].result # ""

\* A plate with an open attempt has retries left.
BudgetLeft ==
    \A pl \in Plates : Of(pl) \cap Open # {} => Cardinality(CycleFailures(pl)) < MaxRetries

\* The inductive invariant about the attempts of a plate: OpenIsNewest makes a failure
\* that is recorded now count, which BudgetLeft needs.
Cycles == OpenIsNewest /\ RetriesFollow /\ BudgetLeft

(***************************************************************************)
(* What a step can do to the attempts of plates.                           *)
(***************************************************************************)

SameAttempt(b) ==
    /\ queue'[b].plate = queue[b].plate
    /\ queue'[b].is_retry = queue[b].is_retry
    /\ queue'[b].result = queue[b].result

SameAttempts == Rows' = Rows /\ \A b \in Rows : SameAttempt(b)

\* The rows D are deleted, of plates that keep rows only waiting ones.
Deletes(D) ==
    /\ D \subseteq Rows /\ Rows' = Rows \ D
    /\ \A b \in Rows' : queue'[b] = queue[b]
    /\ \A d \in D, b \in Rows' : queue[b].plate = queue[d].plate => d \in Waiting

\* A row just inserted: nobody has started it yet.
Untried(r) == r.result = "" /\ r.started = Null /\ r.completed = Null /\ r.claim = Null

\* A new attempt is untried.
LEMMA NewIsUntried ==
  ASSUME NEW pl, NEW p, NEW prio, NEW n, NEW retry
  PROVE  Untried(NewAttempt(pl, p, prio, n, retry))
BY DEF Untried, NewAttempt

\* Attempts queued by a user are inserted, for different plates without an open attempt.
Inserts(N) ==
    /\ Rows' = Rows \cup N
    /\ \A b \in Rows : queue'[b] = queue[b]
    /\ \A n \in N : /\ nextPk <= n /\ n \in Pk
                    /\ queue'[n].plate \in Plates
                    /\ queue'[n].result = "" /\ ~queue'[n].is_retry /\ Untried(queue'[n])
                    /\ NoOpenAttempt(queue'[n].plate) /\ job[JobOf[queue'[n].plate]] = "open"
    /\ \A n, m \in N : queue'[n].plate = queue'[m].plate => n = m

\* An open attempt gets a result ...
Resolves(a, res) ==
    /\ a \in Open
    /\ Rows' = Rows
    /\ \A b \in Rows \ {a} : queue'[b] = queue[b]
    /\ queue'[a].plate = queue[a].plate /\ queue'[a].is_retry = queue[a].is_retry
    /\ queue'[a].result = res

\* ... or fails and is retried.
Retries(a) ==
    /\ a \in Open /\ MayRetry(a)
    /\ nextPk \in Pk /\ Rows' = Rows \cup {nextPk}
    /\ \A b \in Rows \ {a} : queue'[b] = queue[b]
    /\ queue'[a].plate = queue[a].plate /\ queue'[a].is_retry = queue[a].is_retry
    /\ queue'[a].result = "failed"
    /\ queue'[nextPk].plate = queue[a].plate
    /\ queue'[nextPk].result = "" /\ queue'[nextPk].is_retry /\ Untried(queue'[nextPk])

\* A rewritten row is a row.
LEMMA RewrittenRow ==
  ASSUME TypeOK, NEW a \in Rows, NEW r \in Attempt, queue' = [queue EXCEPT ![a] = r],
         r.plate = queue[a].plate, r.is_retry = queue[a].is_retry
  PROVE  /\ Rows' = Rows
         /\ \A b \in Rows \ {a} : queue'[b] = queue[b]
         /\ r.result = queue[a].result => SameAttempts
         /\ a \in Open => Resolves(a, r.result)
<1>1. queue'[a] = r /\ a \in Pk /\ \A b \in Pk \ {a} : queue'[b] = queue[b]
  BY DEF Rows, TypeOK
<1>2. Rows' = Rows /\ \A b \in Rows \ {a} : queue'[b] = queue[b]
  BY <1>1, NoRowAssumption DEF Rows
<1>3. r.result = queue[a].result => SameAttempts
  BY <1>1, <1>2 DEF SameAttempts, SameAttempt
<1> QED BY <1>1, <1>2, <1>3 DEF Resolves

\* Steps of starters and forms leave the table alone.
LEMMA UntouchedRows ==
  ASSUME queue' = queue
  PROVE  SameAttempts
BY DEF SameAttempts, SameAttempt, Rows

\* Rows that are deleted from the table, the others kept.
LEMMA DeletedRows ==
  ASSUME NEW D \in SUBSET Rows, queue' = [a \in Pk |-> IF a \in D THEN NoRow ELSE queue[a]],
         \A d \in D, b \in Rows \ D : queue[b].plate = queue[d].plate => d \in Waiting
  PROVE  Deletes(D)
<1>1. \A b \in Pk : queue'[b] = IF b \in D THEN NoRow ELSE queue[b]
  OBVIOUS
<1>2. Rows' = Rows \ D
  BY <1>1 DEF Rows
<1> QED BY <1>1, <1>2 DEF Deletes, Rows

\* No job is deleted (or was, before).
SameGone == \A j \in Jobs : job'[j] = "deleted" <=> job[j] = "deleted"

\* How the open attempt of a plate goes on.
GoesOn(a) ==
    \/ a \in Waiting \ Claimed /\ a \in Claimed'
    \/ a \in Claimed /\ a \in Waiting' /\ a \notin Claimed'
    \/ a \in Waiting /\ a \in Printing'
    \/ a \in Printing /\ a \in InReview'

\* Every step of the queue, by what it does to the attempts of plates.
AttemptStep ==
    \/ SameAttempts /\ SameGone /\ \A b \in Rows : SameStatus(b)
    \/ \E a \in Open : SameAttempts /\ SameGone /\ GoesOn(a) /\ \A b \in Rows \ {a} : SameStatus(b)
    \/ \E D \in SUBSET (Waiting \ Claimed) : Deletes(D) /\ SameGone
    \/ \E j \in Jobs : /\ OfJob(j) \cap Busy = {} /\ Deletes(OfJob(j))
                       /\ \A i \in Jobs : job'[i] = IF i = j THEN "deleted" ELSE job[i]
    \/ \E N \in SUBSET Pk : Inserts(N) /\ SameGone
    \/ \E a \in Open, res \in Results : /\ Resolves(a, res) /\ SameGone
                                        /\ res = "cancelled" => a \notin Waiting
                                        /\ res # "cancelled" => a \in InReview
                                        /\ res = "failed" => ~MayRetry(a)
    \/ \E a \in InReview : Retries(a) /\ SameGone

\* How each action reads as a step of attempts: the table is left alone ...
LEMMA QuietStep ==
  ASSUME queue' = queue, SameGone
  PROVE  AttemptStep
BY UntouchedRows DEF AttemptStep, SameStatus, Printing, InReview, Claimed, Waiting, Open, Rows

\* The row of an open attempt is stamped, or written as it was.
LEMMA StampStep ==
  ASSUME TypeOK, job' = job, NEW a \in Rows, NEW r \in Attempt, queue' = [queue EXCEPT ![a] = r],
         r.plate = queue[a].plate, r.is_retry = queue[a].is_retry, r.result = queue[a].result,
         \/ r.started = queue[a].started /\ r.completed = queue[a].completed /\ r.claim = queue[a].claim
         \/ a \in Waiting \ Claimed /\ r.started = Null /\ r.completed = Null /\ r.claim = Stamp
         \/ a \in Claimed /\ r.started = Null /\ r.completed = Null /\ r.claim = Null
         \/ a \in Waiting /\ r.started = Stamp /\ r.completed = Null
         \/ a \in Printing /\ r.completed = Stamp
  PROVE  AttemptStep
<1>1. SameAttempts /\ SameGone
  BY RewrittenRow DEF SameGone
<1>2. queue'[a] = r /\ \A b \in Pk \ {a} : queue'[b] = queue[b]
  BY DEF TypeOK, Rows
<1>3. /\ \A b \in Rows \ {a} : SameStatus(b)
      /\ a \in Printing' <=> r.result = "" /\ r.started = Stamp /\ r.completed = Null
      /\ a \in InReview' <=> r.result = "" /\ r.completed = Stamp
      /\ a \in Waiting' <=> r.result = "" /\ r.started = Null /\ r.completed = Null
      /\ a \in Claimed' <=> a \in Waiting' /\ r.claim = Stamp
  BY <1>2, StatusOneRow, BusyParts, NoRowAssumption
<1>4. CASE r.started = queue[a].started /\ r.completed = queue[a].completed /\ r.claim = queue[a].claim
  <2>1. SameStatus(a)
    BY <1>3, <1>4 DEF SameStatus, Printing, InReview, Waiting, Claimed, Open
  <2> QED BY <1>1, <1>3, <2>1 DEF AttemptStep
<1>5. CASE \/ a \in Waiting \ Claimed /\ r.started = Null /\ r.completed = Null /\ r.claim = Stamp
           \/ a \in Claimed /\ r.started = Null /\ r.completed = Null /\ r.claim = Null
           \/ a \in Waiting /\ r.started = Stamp /\ r.completed = Null
           \/ a \in Printing /\ r.completed = Stamp
  <2>1. a \in Open /\ r.result = ""
    BY <1>5, BusyParts DEF Open
  <2>2. GoesOn(a)
    BY <1>3, <1>5, <2>1 DEF GoesOn, Null, Stamp
  <2> QED BY <1>1, <1>3, <2>1, <2>2 DEF AttemptStep
<1> QED BY <1>4, <1>5

\* ... a validated form queues a plate ...
LEMMA SubmitStep ==
  ASSUME TypeOK, Consistent, NEW pl \in Plates, NEW p \in Printers, NEW prio \in Priorities,
         SubmitForm(pl, p, prio), MaySave(pl)
  PROVE  AttemptStep
<1>b. \A a \in Rows : a < nextPk
  BY RowsConsistentByRow DEF Consistent
<1>1. PICK n : queue' = [queue EXCEPT ![nextPk] = NewAttempt(pl, p, prio, n + 1, FALSE)] /\ n \in Nat
  BY PositionsType DEF SubmitForm, Enqueue, TypeOK, Table
<1>2. nextPk \in Pk /\ nextPk \notin Rows
  <2>1. nextPk <= MaxAttempts
    BY DEF SubmitForm, Enqueue
  <2> QED BY <1>b, <2>1, BoundsAssumption DEF TypeOK, Pk
<1> DEFINE r == NewAttempt(pl, p, prio, n + 1, FALSE)
<1>3. r \in Attempt /\ r.plate = pl /\ r.result = "" /\ ~r.is_retry /\ Untried(r)
  <2>1. n + 1 \in Nat
    BY <1>1
  <2>2. r \in Attempt /\ Untried(r)
    BY <2>1, NewRow, NewIsUntried
  <2> QED BY <2>2 DEF NewAttempt
<1>4. queue'[nextPk] = r /\ \A b \in Pk \ {nextPk} : queue'[b] = queue[b]
  BY <1>1, <1>2 DEF TypeOK
<1> HIDE DEF r
<1>5. Rows' = Rows \cup {nextPk} /\ \A b \in Rows : queue'[b] = queue[b]
  BY <1>2, <1>3, <1>4, NoRowAssumption DEF Rows
<1>6. nextPk <= nextPk
  BY DEF TypeOK
<1>7. Inserts({nextPk})
  BY <1>2, <1>3, <1>4, <1>5, <1>6 DEF Inserts, MaySave, JobStillOpen
<1>8. SameGone
  BY DEF SubmitForm, SameGone
<1> QED BY <1>2, <1>7, <1>8 DEF AttemptStep

\* ... a job queues every plate that may be queued ...
LEMMA EnqueueStep ==
  ASSUME TypeOK, Consistent, NEW j \in Jobs, NEW p \in Printers, NEW prio \in Priorities, EnqueuePlates(j, p, prio)
  PROVE  AttemptStep
<1>b. \A a \in Rows : a < nextPk
  BY RowsConsistentByRow DEF Consistent
<1> DEFINE todo == {pl \in PlatesOf(j) : Queueable(pl)}
           rows == nextPk..(nextPk + Cardinality(todo) - 1)
<1>1. PICK n \in Positions(p), plateOf \in [rows -> todo] :
         /\ \A a, b \in rows : a < b => plateOf[a] < plateOf[b]
         /\ queue' = [a \in Pk |-> IF a \in rows
                                   THEN NewAttempt(plateOf[a], p, prio, n + 1 + a - nextPk, FALSE)
                                   ELSE queue[a]]
  BY DEF EnqueuePlates
<1>2. rows \subseteq Pk
  BY DEF EnqueuePlates
<1>3. nextPk \in Nat /\ Cardinality(todo) \in Nat /\ n \in Nat
  BY PlatesAssumption, PositionsType, FS_Subset, FS_CardinalityType DEF PlatesOf, TypeOK, Table
<1>4. \A a \in rows : a \in Nat /\ nextPk <= a /\ a \notin Rows
  BY <1>2, <1>3, <1>b
<1>5. \A b \in Pk \ rows : queue'[b] = queue[b]
  BY <1>1
<1>6. ASSUME NEW a \in rows
      PROVE  /\ queue'[a] \in Attempt
             /\ queue'[a].plate = plateOf[a] /\ queue'[a].result = "" /\ ~queue'[a].is_retry
             /\ Untried(queue'[a])
             /\ plateOf[a] \in Plates /\ NoOpenAttempt(plateOf[a]) /\ job[JobOf[plateOf[a]]] = "open"
  <2> DEFINE r == NewAttempt(plateOf[a], p, prio, n + 1 + a - nextPk, FALSE)
  <2>1. queue'[a] = r
    BY <1>1, <1>2
  <2>2. plateOf[a] \in todo /\ n + 1 + a - nextPk \in Nat
    BY <1>3, <1>4
  <2>3. plateOf[a] \in Plates /\ NoOpenAttempt(plateOf[a]) /\ job[JobOf[plateOf[a]]] = "open"
    BY <2>2 DEF PlatesOf, Queueable, NoOpenAttempt
  <2>4. r \in Attempt /\ Untried(r)
    BY <2>2, <2>3, NewRow, NewIsUntried
  <2>5. r.plate = plateOf[a] /\ r.result = "" /\ ~r.is_retry
    BY DEF NewAttempt
  <2> HIDE DEF r
  <2> QED BY <2>1, <2>3, <2>4, <2>5
<1>7. Rows' = Rows \cup rows /\ \A b \in Rows : queue'[b] = queue[b]
  <2>1. \A a \in rows : queue'[a] # NoRow
    BY <1>6, NoRowAssumption
  <2> QED BY <1>2, <1>4, <1>5, <2>1 DEF Rows
<1>8. ASSUME NEW a \in rows, NEW b \in rows, queue'[a].plate = queue'[b].plate
      PROVE  a = b
  <2>1. plateOf[a] = plateOf[b] /\ plateOf[a] \in Nat
    BY <1>6, <1>8, PlatesAssumption
  <2>2. a \in Nat /\ b \in Nat
    BY <1>4
  <2>3. ~(a < b) /\ ~(b < a)
    BY <1>1, <2>1
  <2> QED BY <2>2, <2>3
<1> HIDE DEF rows
<1>9. Inserts(rows)
  BY <1>2, <1>4, <1>6, <1>7, <1>8 DEF Inserts
<1>10. SameGone
  BY DEF EnqueuePlates, SameGone
<1> QED BY <1>2, <1>9, <1>10 DEF AttemptStep

\* ... a review resolves an attempt, with or without a retry ...
LEMMA ReviewStep ==
  ASSUME TypeOK, Consistent, NEW a \in Pk, NEW passed \in BOOLEAN, Review(a, passed)
  PROVE  AttemptStep
<1>a. a \in Open /\ a \in Rows /\ a \in InReview /\ SameGone
  BY BusyParts DEF Review, SameGone
<1>b. queue[a] \in Attempt /\ \A b \in Rows : b < nextPk
  BY <1>a, RowIsAttempt, RowsConsistentByRow DEF Consistent, TypeOK, Table
<1>1. CASE passed \/ ~MayRetry(a)
  <2>1. PICK res \in {"passed", "failed"} : /\ queue' = [queue EXCEPT ![a].result = res]
                                            /\ res = "failed" => ~MayRetry(a)
    BY <1>1 DEF Review
  <2> DEFINE r == [queue[a] EXCEPT !.result = res]
  <2>2. r \in Attempt /\ r.plate = queue[a].plate /\ r.is_retry = queue[a].is_retry /\ r.result = res
    BY <1>b DEF Attempt, Results
  <2>3. Resolves(a, res)
    BY <1>a, <2>1, <2>2, RewrittenRow
  <2> QED BY <1>a, <2>1, <2>3 DEF AttemptStep, Results
<1>2. CASE ~passed /\ MayRetry(a)
  <2>1. nextPk <= MaxAttempts /\ queue' = [queue EXCEPT ![a].result = "failed", ![nextPk] = Retry(a)]
    BY <1>2 DEF Review
  <2>2. nextPk \in Pk /\ nextPk \notin Rows
    BY <1>b, <2>1, BoundsAssumption DEF TypeOK, Pk
  <2> DEFINE r == [queue[a] EXCEPT !.result = "failed"]
             t == Retry(a)
  <2>3. r \in Attempt /\ r.plate = queue[a].plate /\ r.is_retry = queue[a].is_retry /\ r.result = "failed"
    BY <1>a, <1>b DEF Attempt, Results
  <2>4. t \in Attempt /\ t.plate = queue[a].plate /\ t.result = "" /\ t.is_retry /\ Untried(t)
    <3>1. queue[a] \in Attempt
      BY <1>a, <1>b
    <3>2. t \in Attempt /\ Untried(t)
      BY <3>1, NewRow, NewIsUntried DEF Retry, Attempt
    <3> QED BY <3>2 DEF Retry, NewAttempt
  <2>5. queue'[a] = r /\ queue'[nextPk] = t /\ \A b \in Pk \ {a, nextPk} : queue'[b] = queue[b]
    BY <1>a, <2>1, <2>2, BusyParts DEF TypeOK
  <2> HIDE DEF r, t
  <2>6. Rows' = Rows \cup {nextPk} /\ \A b \in Rows \ {a} : queue'[b] = queue[b]
    BY <1>a, <2>2, <2>3, <2>4, <2>5, BusyParts, NoRowAssumption DEF Rows
  <2>7. Retries(a)
    BY <1>a, <1>2, <2>2, <2>3, <2>4, <2>5, <2>6 DEF Retries
  <2> QED BY <1>a, <2>7 DEF AttemptStep
<1> QED BY <1>1, <1>2

\* ... an entry is removed or cancelled ...
LEMMA RemoveStep ==
  ASSUME TypeOK, Consistent, NEW a \in Pk, RemoveAttempt(a)
  PROVE  AttemptStep
<1>a. a \in Open /\ a \in Rows /\ a \notin Claimed /\ SameGone
  BY BusyParts DEF RemoveAttempt, Remove, SameGone
<1>b. queue[a] \in Attempt
  BY <1>a, RowIsAttempt DEF TypeOK, Table
<1>1. CASE a \notin Waiting
  <2> DEFINE r == [queue[a] EXCEPT !.result = "cancelled"]
  <2>1. r \in Attempt /\ r.plate = queue[a].plate /\ r.is_retry = queue[a].is_retry /\ r.result = "cancelled"
    BY <1>b DEF Attempt, Results
  <2>2. queue' = [queue EXCEPT ![a] = r]
    BY <1>1 DEF RemoveAttempt, Remove, AfterRemoval
  <2>3. Resolves(a, "cancelled")
    BY <1>a, <2>1, <2>2, RewrittenRow
  <2> QED BY <1>a, <1>1, <2>3 DEF AttemptStep, Results
<1>2. CASE a \in Waiting
  <2>1. queue' = [b \in Pk |-> IF b \in {a} THEN NoRow ELSE queue[b]]
    BY <1>2 DEF RemoveAttempt, Remove, AfterRemoval, TypeOK
  <2>2. Deletes({a})
    BY <1>a, <1>2, <2>1, DeletedRows
  <2>3. {a} \in SUBSET (Waiting \ Claimed)
    BY <1>a, <1>2
  <2> QED BY <1>a, <2>2, <2>3 DEF AttemptStep
<1> QED BY <1>1, <1>2

\* ... entries swap their positions ...
LEMMA MoveStep ==
  ASSUME TypeOK, Consistent, NEW a \in Pk, NEW t \in -1..MaxAttempts, MoveQueueEntry(a, t)
  PROVE  AttemptStep
<1> DEFINE W == Waiting \cap On(queue[a].printer)
<1>1. W \in SUBSET Rows /\ W \in SUBSET Pk /\ a \in W
  BY BusyParts DEF MoveQueueEntry, On
<1>2. ClampIndex(W, t) \in Nat
  BY <1>1, BoundsAssumption, ClampIndexType
<1>3. queue' = Moved(queue, W, a, ClampIndex(W, t)) /\ queue \in Table /\ SameGone
  BY DEF MoveQueueEntry, TypeOK, Table, SameGone
<1>4. /\ \A b \in Pk \ W : queue'[b] = queue[b]
      /\ \A b \in W : SameButOrder(queue'[b], queue[b]) /\ queue'[b] \in Attempt
  BY <1>1, <1>2, <1>3, MovedRows
<1>5. Rows' = Rows
  BY <1>1, <1>4, NoRowAssumption DEF Rows
<1>6. \A b \in Rows : SameButOrder(queue'[b], queue[b])
  BY <1>1, <1>4, BusyParts DEF SameButOrder
<1>7. \A b \in Rows : SameAttempt(b) /\ SameStatus(b)
  BY <1>5, <1>6 DEF SameAttempt, SameButOrder, SameStatus, Printing, InReview, Claimed, Waiting, Open
<1> QED BY <1>3, <1>5, <1>7 DEF SameAttempts, AttemptStep

\* ... a job is closed, with what waits of it ...
LEMMA CloseStep ==
  ASSUME TypeOK, Consistent, NEW j \in Jobs, CloseJob(j)
  PROVE  AttemptStep
<1> DEFINE D == OfJob(j) \cap Waiting
<1>1. D \in SUBSET Rows /\ D \in SUBSET (Waiting \ Claimed)
  BY BusyParts DEF CloseJob, Busy
<1>2. queue' = [b \in Pk |-> IF b \in D THEN NoRow ELSE queue[b]]
  BY DEF CloseJob
<1>3. Deletes(D)
  BY <1>1, <1>2, DeletedRows
<1>4. SameGone
  BY DEF CloseJob, SameGone, TypeOK
<1> QED BY <1>1, <1>3, <1>4 DEF AttemptStep

\* ... or deleted, with all its attempts.
LEMMA DeleteStep ==
  ASSUME TypeOK, Consistent, NEW j \in Jobs, DeleteJob(j)
  PROVE  AttemptStep
<1> DEFINE D == OfJob(j)
<1>1. D \in SUBSET Rows /\ \A d \in D, b \in Rows \ D : queue[b].plate # queue[d].plate
  BY DEF OfJob
<1>2. queue' = [b \in Pk |-> IF b \in D THEN NoRow ELSE queue[b]]
  BY DEF DeleteJob
<1>3. Deletes(D)
  BY <1>1, <1>2, DeletedRows
<1>4. \A i \in Jobs : job'[i] = IF i = j THEN "deleted" ELSE job[i]
  BY DEF DeleteJob, TypeOK
<1>5. OfJob(j) \cap Busy = {}
  BY DEF DeleteJob
<1> QED BY <1>3, <1>4, <1>5 DEF AttemptStep

\* The attempts of plates have no other steps.
LEMMA AttemptSteps == TypeOK /\ Consistent /\ [Next]_vars => AttemptStep
<1> SUFFICES ASSUME TypeOK, Consistent, [Next]_vars
             PROVE  AttemptStep
  OBVIOUS
<1>a. \A a \in Rows : queue[a] \in Attempt /\ RowFacts(queue[a]) /\ a \in Pk
  BY RowIsAttempt, RowsConsistentByRow DEF Consistent, TypeOK, Table
<1>b. Null \in Timestamp /\ Stamp \in Timestamp /\ Null # Stamp /\ Timestamp = {Null, Stamp}
  BY DEF Timestamp, Null, Stamp
<1>c. UNCHANGED job => SameGone
  BY DEF SameGone
<1>1. CASE UNCHANGED <<queue, job>>
  BY <1>1, <1>c, QuietStep
<1>2. ASSUME NEW j \in Jobs, ReopenJob(j)
      PROVE  AttemptStep
  <2>1. SameGone /\ queue' = queue
    BY <1>2 DEF ReopenJob, SameGone, TypeOK, table
  <2> QED BY <2>1, QuietStep
<1>3. ASSUME NEW pl \in Plates, NEW p \in Printers, NEW prio \in Priorities, SubmitForm(pl, p, prio)
      PROVE  AttemptStep
  BY <1>1, <1>3, SubmitStep DEF SubmitForm, table
<1>4. ASSUME NEW s \in Starters, NEW p \in Printers, StartNext(s, p)
      PROVE  AttemptStep
  <2>1. PICK a \in Waiting \cap On(p) : queue' = [queue EXCEPT ![a].claim = Stamp]
    BY <1>4 DEF StartNext, ClaimNext
  <2> DEFINE r == [queue[a] EXCEPT !.claim = Stamp]
  <2>2. a \in Rows /\ a \in Waiting \ Claimed /\ job' = job
    BY <1>4, <2>1, BusyParts DEF StartNext, ClaimNext, Busy
  <2>3. /\ r \in Attempt /\ r.plate = queue[a].plate /\ r.is_retry = queue[a].is_retry /\ r.result = queue[a].result
        /\ r.started = Null /\ r.completed = Null /\ r.claim = Stamp
    BY <1>a, <1>b, <2>2 DEF Attempt, Waiting
  <2> QED BY <2>1, <2>2, <2>3, StampStep
<1>5. ASSUME NEW s \in Starters, StartFails(s)
      PROVE  AttemptStep
  <2>1. CASE target[s] \in Rows
    <3> DEFINE r == [queue[target[s]] EXCEPT !.claim = Null]
    <3>1. queue' = [queue EXCEPT ![target[s]] = r] /\ job' = job
      BY <1>5, <2>1 DEF StartFails, ReleaseClaim
    <3>2. /\ r \in Attempt /\ r.plate = queue[target[s]].plate /\ r.is_retry = queue[target[s]].is_retry
          /\ r.result = queue[target[s]].result /\ r.claim = Null
          /\ r.started = queue[target[s]].started /\ r.completed = queue[target[s]].completed
      BY <1>a, <1>b, <2>1 DEF Attempt
    <3>3. CASE queue[target[s]].claim = Null
      BY <2>1, <3>1, <3>2, <3>3, StampStep
    <3>4. CASE queue[target[s]].claim # Null
      <4>1. target[s] \in Claimed /\ r.started = Null /\ r.completed = Null
        BY <1>a, <1>b, <2>1, <3>2, <3>4 DEF Attempt, RowFacts, Claimed, Waiting, Open
      <4> QED BY <2>1, <3>1, <3>2, <4>1, StampStep
    <3> QED BY <3>3, <3>4
  <2>2. CASE target[s] \notin Rows
    BY <1>1, <1>5, <2>2 DEF StartFails, ReleaseClaim
  <2> QED BY <2>1, <2>2
<1>6. ASSUME NEW s \in Starters, RecordStarted(s)
      PROVE  AttemptStep
  <2>1. CASE target[s] \in Rows
    <3> DEFINE r == [queue[target[s]] EXCEPT !.started = Stamp, !.claim = Null]
    <3>1. queue' = [queue EXCEPT ![target[s]] = r] /\ job' = job
      BY <1>6, <2>1 DEF RecordStarted, TypeOK
    <3>2. /\ r \in Attempt /\ r.plate = queue[target[s]].plate /\ r.is_retry = queue[target[s]].is_retry
          /\ r.result = queue[target[s]].result /\ r.claim = Null
          /\ r.started = Stamp /\ r.completed = queue[target[s]].completed
      BY <1>a, <1>b, <2>1 DEF Attempt
    <3>3. CASE target[s] \in Waiting
      <4>1. r.completed = Null
        BY <3>2, <3>3 DEF Waiting
      <4> QED BY <2>1, <3>1, <3>2, <3>3, <4>1, StampStep
    <3>4. CASE target[s] \notin Waiting
      <4>1. queue[target[s]].claim = Null /\ queue[target[s]].started = Stamp
        BY <1>a, <1>b, <2>1, <3>4 DEF Attempt, RowFacts, Waiting, Open
      <4> QED BY <2>1, <3>1, <3>2, <4>1, StampStep
    <3> QED BY <3>3, <3>4
  <2>2. CASE target[s] \notin Rows
    BY <1>1, <1>6, <2>2 DEF RecordStarted
  <2> QED BY <2>1, <2>2
<1>7. ASSUME NEW a \in Pk, ClaimExpires(a)
      PROVE  AttemptStep
  <2> DEFINE r == [queue[a] EXCEPT !.claim = Null]
  <2>1. a \in Rows /\ a \in Claimed /\ queue' = [queue EXCEPT ![a] = r] /\ job' = job
    BY <1>7, BusyParts DEF ClaimExpires
  <2>2. /\ r \in Attempt /\ r.plate = queue[a].plate /\ r.is_retry = queue[a].is_retry /\ r.result = queue[a].result
        /\ r.started = Null /\ r.completed = Null /\ r.claim = Null
    BY <1>a, <1>b, <2>1 DEF Attempt, Claimed, Waiting
  <2> QED BY <2>1, <2>2, StampStep
<1>8. ASSUME NEW a \in Pk, AttemptEnds(a)
      PROVE  AttemptStep
  <2> DEFINE r == [queue[a] EXCEPT !.completed = Stamp]
  <2>1. a \in Rows /\ a \in Printing /\ queue' = [queue EXCEPT ![a] = r] /\ job' = job
    BY <1>8, BusyParts DEF AttemptEnds, Finish
  <2>2. /\ r \in Attempt /\ r.plate = queue[a].plate /\ r.is_retry = queue[a].is_retry /\ r.result = queue[a].result
        /\ r.completed = Stamp
    BY <1>a, <1>b, <2>1 DEF Attempt
  <2> QED BY <2>1, <2>2, StampStep
<1>9. ASSUME NEW a \in Pk, AdoptExternalPrint(a)
      PROVE  AttemptStep
  <2> DEFINE r == [queue[a] EXCEPT !.started = Stamp, !.claim = Null]
  <2>1. a \in Rows /\ a \in Waiting /\ queue' = [queue EXCEPT ![a] = r] /\ job' = job
    BY <1>9, BusyParts DEF AdoptExternalPrint, TypeOK
  <2>2. /\ r \in Attempt /\ r.plate = queue[a].plate /\ r.is_retry = queue[a].is_retry /\ r.result = queue[a].result
        /\ r.started = Stamp /\ r.completed = Null
    BY <1>a, <1>b, <2>1 DEF Attempt, Waiting
  <2> QED BY <2>1, <2>2, StampStep
<1> QED
  BY <1>1, <1>2, <1>3, <1>4, <1>5, <1>6, <1>7, <1>8, <1>9,
     EnqueueStep, ReviewStep, RemoveStep, MoveStep, CloseStep, DeleteStep
     DEF Next, Enqueueing, Starting, StarterStep, Tracking, Managing, vars, table, ValidateForm,
         PrinterAccepts, RecordRemoteName, Crash, SetActive

-----------------------------------------------------------------------------
\* The failures that count are finitely many rows.
LEMMA CycleFailuresType ==
  ASSUME NEW pl
  PROVE  /\ CycleFailures(pl) \subseteq Pk /\ IsFiniteSet(CycleFailures(pl)) /\ Cardinality(CycleFailures(pl)) \in Nat
         /\ CycleFailures(pl)' \subseteq Pk
<1>1. CycleFailures(pl) \subseteq Pk /\ CycleFailures(pl)' \subseteq Pk
  BY DEF CycleFailures, Of, Rows
<1> QED BY <1>1, FiniteRows

\* A plate whose rows a step does not touch.
SamePlate(pl) == Of(pl)' = Of(pl) /\ \A b \in Of(pl) : SameAttempt(b)

\* They only depend on the rows of the plate.
LEMMA SameFailures ==
  ASSUME NEW pl, SamePlate(pl)
  PROVE  CycleFailures(pl)' = CycleFailures(pl)
BY DEF SamePlate, SameAttempt, CycleFailures

\* A resolved attempt fails: the newest failure of its plate.
LEMMA OneMoreFailure ==
  ASSUME TypeOK, Consistent, OpenIsNewest, NEW a \in Open, NEW pl, pl = queue[a].plate, \A b \in Rows \ {a} : queue'[b] = queue[b],
         queue'[a].plate = queue[a].plate, queue'[a].is_retry = queue[a].is_retry, queue'[a].result = "failed",
         \/ Rows' = Rows
         \/ Rows' = Rows \cup {nextPk} /\ queue'[nextPk].is_retry /\ queue'[nextPk].result = ""
  PROVE  /\ CycleFailures(pl)' = CycleFailures(pl) \cup {a}
         /\ Cardinality(CycleFailures(pl)') = Cardinality(CycleFailures(pl)) + 1
<1>1. a \in Rows /\ a \in Of(pl) /\ a \in Of(pl)' /\ \A b \in Of(pl) : b <= a
  BY BusyParts DEF OpenIsNewest, Of
<1>2. \A b \in Of(pl) : b \in Of(pl)' /\ queue'[b].is_retry = queue[b].is_retry
  BY <1>1 DEF Of
<1>3. \A b \in Of(pl)' : b \in Of(pl) \/ (queue'[b].is_retry /\ queue'[b].result = "")
  BY <1>1 DEF Of
<1>4. \A b \in Of(pl) \ {a} : queue'[b].result = queue[b].result
  BY DEF Of
<1>5. CycleFailures(pl)' = CycleFailures(pl) \cup {a}
  <2>1. \A b : b \in CycleFailures(pl)' <=>
                 /\ b \in Of(pl)' /\ queue'[b].result = "failed"
                 /\ \A m \in Of(pl)' : ~queue'[m].is_retry => m <= b
    BY DEF CycleFailures
  <2>2. \A b : (\A m \in Of(pl)' : ~queue'[m].is_retry => m <= b)
                 <=> (\A m \in Of(pl) : ~queue[m].is_retry => m <= b)
    BY <1>2, <1>3
  <2>3. a \in CycleFailures(pl)'
    BY <1>1, <2>1, <2>2
  <2>4. \A b \in Of(pl)' : queue'[b].result = "failed" => b \in Of(pl)
    BY <1>3
  <2>5. \A b \in CycleFailures(pl)' : b = a \/ b \in CycleFailures(pl)
    BY <1>4, <2>1, <2>2, <2>4 DEF CycleFailures
  <2>6. \A b \in CycleFailures(pl) : b # a
    BY DEF CycleFailures, Open
  <2>7. \A b \in CycleFailures(pl) : b \in CycleFailures(pl)'
    BY <1>2, <1>4, <2>1, <2>2, <2>6 DEF CycleFailures
  <2> QED BY <2>3, <2>5, <2>7
<1>6. a \notin CycleFailures(pl)
  BY DEF CycleFailures, Open
<1>7. IsFiniteSet(CycleFailures(pl))
  BY CycleFailuresType
<1>8. Cardinality(CycleFailures(pl) \cup {a}) = Cardinality(CycleFailures(pl)) + 1
  BY <1>6, <1>7, FS_AddElement
<1> QED BY <1>5, <1>8

\* Without rows there is nothing to show.
LEMMA CyclesInit == Init => Cycles
BY DEF Init, Cycles, OpenIsNewest, RetriesFollow, BudgetLeft, Rows, Open

\* Stamps and claims do not matter to the cycles.
LEMMA CyclesSame ==
  ASSUME Cycles, SameAttempts
  PROVE  Cycles'
<1>1. Open' = Open
  BY DEF SameAttempts, SameAttempt, Open
<1>2. \A pl : SamePlate(pl)
  BY DEF SameAttempts, SameAttempt, SamePlate, Of
<1>3. OpenIsNewest'
  BY <1>1 DEF Cycles, OpenIsNewest, SameAttempts, SameAttempt, Of, Open
<1>4. RetriesFollow'
  <2> SUFFICES ASSUME NEW r \in Rows', queue'[r].is_retry
               PROVE  \E m \in Rows' : /\ m < r /\ queue'[m].plate = queue'[r].plate
                                      /\ ~queue'[m].is_retry /\ queue'[m].result # ""
    BY DEF RetriesFollow
  <2>1. r \in Rows /\ queue[r].is_retry /\ queue'[r].plate = queue[r].plate
    BY DEF SameAttempts, SameAttempt
  <2>2. PICK m \in Rows : m < r /\ queue[m].plate = queue[r].plate /\ ~queue[m].is_retry /\ queue[m].result # ""
    BY <2>1 DEF Cycles, RetriesFollow
  <2> QED BY <2>1, <2>2 DEF SameAttempts, SameAttempt
<1>5. BudgetLeft'
  <2> SUFFICES ASSUME NEW pl \in Plates, NEW a \in Open', queue'[a].plate = pl
               PROVE  Cardinality(CycleFailures(pl)') < MaxRetries
    BY DEF BudgetLeft, Of
  <2>1. a \in Open /\ queue'[a].plate = queue[a].plate
    BY <1>1 DEF Open, SameAttempts, SameAttempt
  <2>2. CycleFailures(pl)' = CycleFailures(pl)
    BY <1>2, SameFailures
  <2>3. a \in Of(pl) \cap Open
    BY <2>1, BusyParts DEF Of
  <2> QED BY <2>2, <2>3 DEF Cycles, BudgetLeft
<1> QED BY <1>3, <1>4, <1>5 DEF Cycles

\* What is deleted waited, or leaves no row of its plate.
LEMMA CyclesDelete ==
  ASSUME TypeOK, Consistent, Cycles, NEW D, Deletes(D)
  PROVE  Cycles'
<1>1. \A b \in Rows' : b \in Rows \ D /\ queue'[b] = queue[b]
  BY DEF Deletes
<1>2. Open' \subseteq Open \ D
  BY <1>1 DEF Open
<1>3. OpenIsNewest'
  BY <1>1, <1>2 DEF Cycles, OpenIsNewest, Of, Open
<1>4. RetriesFollow'
  <2> SUFFICES ASSUME NEW r \in Rows', queue'[r].is_retry
               PROVE  \E m \in Rows' : /\ m < r /\ queue'[m].plate = queue'[r].plate
                                      /\ ~queue'[m].is_retry /\ queue'[m].result # ""
    BY DEF RetriesFollow
  <2>1. PICK m \in Rows : m < r /\ queue[m].plate = queue[r].plate /\ ~queue[m].is_retry /\ queue[m].result # ""
    BY <1>1 DEF Cycles, RetriesFollow
  <2>2. m \notin D
    BY <2>1, <1>1 DEF Deletes, Waiting, Open, Of
  <2>3. m \in Rows' /\ queue'[m] = queue[m]
    BY <2>1, <2>2 DEF Deletes, Of
  <2> QED BY <1>1, <2>1, <2>3 DEF Of
<1>5. BudgetLeft'
  <2> SUFFICES ASSUME NEW pl \in Plates, NEW a \in Open', queue'[a].plate = pl
               PROVE  Cardinality(CycleFailures(pl)') < MaxRetries
    BY DEF BudgetLeft, Of
  <2>1. a \in Open /\ a \in Rows' /\ a \notin D /\ queue'[a] = queue[a]
    BY <1>1, <1>2 DEF Open
  <2>2. \A d \in D : queue[d].plate # queue[a].plate
    BY <2>1, BusyParts DEF Deletes, Consistent, OneOpenAttemptPerPlate
  <2>3. \A b \in Rows : queue[b].plate = pl => b \in Rows' /\ queue'[b] = queue[b]
    BY <2>1, <2>2 DEF Deletes
  <2>4. a \in Of(pl) \cap Open
    BY <2>1, BusyParts DEF Of
  <2>5. SamePlate(pl)
    BY <1>1, <2>3 DEF SamePlate, SameAttempt, Of
  <2> QED BY <2>4, <2>5, SameFailures DEF Cycles, BudgetLeft
<1> QED BY <1>3, <1>4, <1>5 DEF Cycles

\* A queued attempt is newer than every row and starts a cycle without failures.
LEMMA CyclesInsert ==
  ASSUME TypeOK, Consistent, Cycles, NEW N, Inserts(N)
  PROVE  Cycles'
<1>1. \A b \in Rows' : (b \in Rows /\ queue'[b] = queue[b]) \/ b \in N
  BY DEF Inserts
<1>2. \A n \in N : n \in Int /\ nextPk <= n
  <2>1. \A n \in N : n \in Pk /\ nextPk <= n
    BY DEF Inserts
  <2> QED BY <2>1 DEF Pk
<1>3. \A b \in Rows : b \in Int /\ b < nextPk /\ nextPk \in Int
  BY RowsConsistentByRow, BoundsAssumption DEF Consistent, Rows, Pk, TypeOK
<1>4. \A b \in Rows, n \in N : b < n /\ b # n
  BY <1>2, <1>3
<1>5. ASSUME NEW a \in Open, NEW n \in N
      PROVE  queue'[n].plate # queue[a].plate
  BY <1>5, BusyParts DEF Inserts, NoOpenAttempt, Of
<1>6. OpenIsNewest'
  <2> SUFFICES ASSUME NEW a \in Open', NEW b \in Rows', queue'[b].plate = queue'[a].plate
               PROVE  b <= a
    BY DEF OpenIsNewest
  <2>1. a \in Rows' /\ b \in Rows' /\ queue'[b].plate = queue'[a].plate
    BY DEF Open, Of
  <2>2. CASE a \in N
    <3>1. CASE b \in N
      <4>1. b = a
        BY <2>1, <2>2, <3>1 DEF Inserts
      <4>2. a \in Int
        BY <1>2, <2>2
      <4> QED BY <4>1, <4>2
    <3>2. CASE b \notin N
      BY <1>1, <1>2, <1>3, <2>1, <2>2, <3>2
    <3> QED BY <3>1, <3>2
  <2>3. CASE a \notin N
    <3>1. a \in Open /\ queue'[a] = queue[a]
      BY <1>1, <2>1, <2>3 DEF Open
    <3>2. b \notin N
      BY <1>5, <2>1, <3>1
    <3> QED BY <1>1, <2>1, <3>1, <3>2 DEF Cycles, OpenIsNewest, Of
  <2> QED BY <2>2, <2>3
<1>7. RetriesFollow'
  <2> SUFFICES ASSUME NEW r \in Rows', queue'[r].is_retry
               PROVE  \E m \in Rows' : /\ m < r /\ queue'[m].plate = queue'[r].plate
                                      /\ ~queue'[m].is_retry /\ queue'[m].result # ""
    BY DEF RetriesFollow
  <2>1. r \in Rows /\ queue'[r] = queue[r]
    BY <1>1 DEF Inserts
  <2>2. PICK m \in Rows : m < r /\ queue[m].plate = queue[r].plate /\ ~queue[m].is_retry /\ queue[m].result # ""
    BY <2>1 DEF Cycles, RetriesFollow
  <2>3. m \in Rows' /\ queue'[m] = queue[m]
    BY <2>2 DEF Inserts, Of
  <2> QED BY <2>1, <2>2, <2>3 DEF Of
<1>8. BudgetLeft'
  <2> SUFFICES ASSUME NEW pl \in Plates, NEW a \in Open', queue'[a].plate = pl
               PROVE  Cardinality(CycleFailures(pl)') < MaxRetries
    BY DEF BudgetLeft, Of
  <2>1. CASE a \in N
    <3>1. a \in Of(pl)' /\ ~queue'[a].is_retry
      BY <2>1 DEF Of, Open, Inserts
    <3>2. \A f \in Of(pl)' : queue'[f].result = "failed" => f < a
      BY <1>1, <1>4, <2>1 DEF Of, Inserts
    <3>3. \A f \in Of(pl)' : f < a => ~(a <= f)
      BY <1>2, <2>1 DEF Of, Rows, Pk
    <3>4. CycleFailures(pl)' = {}
      BY <3>1, <3>2, <3>3 DEF CycleFailures
    <3> QED BY <3>4, FS_EmptySet, BoundsAssumption
  <2>2. CASE a \notin N
    <3>1. a \in Open /\ queue'[a] = queue[a]
      BY <1>1, <2>2 DEF Open
    <3>2. SamePlate(pl)
      BY <1>1, <1>5, <3>1 DEF SamePlate, SameAttempt, Of, Inserts
    <3>3. a \in Of(pl) \cap Open
      BY <3>1, BusyParts DEF Of
    <3> QED BY <3>2, <3>3, SameFailures DEF Cycles, BudgetLeft
  <2> QED BY <2>1, <2>2
<1> QED BY <1>6, <1>7, <1>8 DEF Cycles

\* The other open attempts are of other plates, which stay as they are.
LEMMA CyclesResolve ==
  ASSUME TypeOK, Consistent, Cycles, NEW a \in Open, NEW res \in Results, Resolves(a, res)
  PROVE  Cycles'
<1>1. \A b \in Rows : /\ b \in Rows' /\ queue'[b].plate = queue[b].plate /\ queue'[b].is_retry = queue[b].is_retry
                      /\ queue[b].result # "" => queue'[b].result # ""
  BY DEF Resolves, Open, Results
<1>2. Open' = Open \ {a} /\ Rows' = Rows /\ a \in Rows
  BY DEF Resolves, Open, Results
<1>3. OpenIsNewest'
  BY <1>1, <1>2 DEF Cycles, OpenIsNewest, Of, Open
<1>4. RetriesFollow'
  BY <1>1, <1>2 DEF Cycles, RetriesFollow, Of
<1>5. BudgetLeft'
  <2> SUFFICES ASSUME NEW pl \in Plates, NEW b \in Open', queue'[b].plate = pl
               PROVE  Cardinality(CycleFailures(pl)') < MaxRetries
    BY DEF BudgetLeft, Of
  <2>1. b \in Open /\ queue'[b].plate = queue[b].plate /\ queue[b].plate # queue[a].plate
    BY <1>1, <1>2, BusyParts DEF Consistent, OneOpenAttemptPerPlate
  <2>2. SamePlate(pl)
    BY <1>1, <1>2, <2>1 DEF SamePlate, SameAttempt, Of, Resolves
  <2>3. b \in Of(pl) \cap Open
    BY <2>1, BusyParts DEF Of
  <2> QED BY <2>2, <2>3, SameFailures DEF Cycles, BudgetLeft
<1> QED BY <1>3, <1>4, <1>5 DEF Cycles

\* A retry is newer than every row and is granted while the budget lasts.
LEMMA CyclesRetry ==
  ASSUME TypeOK, Consistent, Cycles, NEW a \in Open, Retries(a)
  PROVE  Cycles'
<1>1. \A b \in Rows : b \in Int /\ b < nextPk /\ nextPk \in Int
  BY RowsConsistentByRow, BoundsAssumption DEF Consistent, Rows, Pk, TypeOK
<1>2. a \in Rows /\ nextPk \notin Rows /\ Rows' = Rows \cup {nextPk}
  <2>1. nextPk \notin Rows
    BY <1>1
  <2> QED BY <2>1 DEF Open, Retries
<1>3. \A b \in Rows : /\ queue'[b].plate = queue[b].plate /\ queue'[b].is_retry = queue[b].is_retry
                      /\ queue[b].result # "" => queue'[b].result # ""
  BY DEF Retries, Open
<1>4. Open' = (Open \ {a}) \cup {nextPk}
  BY <1>2 DEF Retries, Open
<1>5. queue'[nextPk].plate = queue[a].plate
  BY DEF Retries
<1>6. ASSUME NEW b \in Open', b # nextPk
      PROVE  b \in Open /\ b \in Rows /\ queue'[b].plate = queue[b].plate /\ queue[b].plate # queue[a].plate
  BY <1>2, <1>3, <1>4, <1>6, BusyParts DEF Consistent, OneOpenAttemptPerPlate
<1>7. OpenIsNewest'
  <2> SUFFICES ASSUME NEW b \in Open', NEW c \in Rows', queue'[c].plate = queue'[b].plate
               PROVE  c <= b
    BY DEF OpenIsNewest
  <2>1. c \in Rows' /\ queue'[c].plate = queue'[b].plate
    BY DEF Of
  <2>2. CASE b = nextPk
    BY <1>1, <1>2, <2>1, <2>2
  <2>3. CASE b # nextPk
    <3>1. c \in Rows /\ queue[c].plate = queue[b].plate
      BY <1>2, <1>3, <1>5, <1>6, <2>1, <2>3
    <3> QED BY <1>6, <2>3, <3>1 DEF Cycles, OpenIsNewest, Of
  <2> QED BY <2>2, <2>3
<1>8. RetriesFollow'
  <2> SUFFICES ASSUME NEW r \in Rows', queue'[r].is_retry
               PROVE  \E m \in Rows' : /\ m < r /\ queue'[m].plate = queue'[r].plate
                                      /\ ~queue'[m].is_retry /\ queue'[m].result # ""
    BY DEF RetriesFollow
  <2>1. CASE r # nextPk
    <3>1. r \in Rows /\ queue[r].is_retry /\ queue'[r].plate = queue[r].plate
      BY <1>2, <1>3, <2>1
    <3>2. PICK m \in Rows : m < r /\ queue[m].plate = queue[r].plate /\ ~queue[m].is_retry /\ queue[m].result # ""
      BY <3>1 DEF Cycles, RetriesFollow
    <3> QED BY <1>2, <1>3, <3>1, <3>2 DEF Of
  <2>2. CASE r = nextPk /\ ~queue[a].is_retry
    BY <1>1, <1>2, <1>3, <1>5, <2>2 DEF Of, Retries
  <2>3. CASE r = nextPk /\ queue[a].is_retry
    <3>1. PICK m \in Rows : m < a /\ queue[m].plate = queue[a].plate /\ ~queue[m].is_retry /\ queue[m].result # ""
      BY <1>2, <2>3 DEF Cycles, RetriesFollow
    <3>2. m \in Rows /\ m < nextPk
      BY <1>1, <3>1 DEF Of
    <3> QED BY <1>2, <1>3, <1>5, <2>3, <3>1, <3>2 DEF Of
  <2> QED BY <2>1, <2>2, <2>3
<1>9. BudgetLeft'
  <2> SUFFICES ASSUME NEW pl \in Plates, NEW b \in Open', queue'[b].plate = pl
               PROVE  Cardinality(CycleFailures(pl)') < MaxRetries
    BY DEF BudgetLeft, Of
  <2>1. CASE b = nextPk
    <3>1. pl = queue[a].plate
      BY <1>5, <2>1
    <3>2. Cardinality(CycleFailures(pl)') = Cardinality(CycleFailures(pl)) + 1
      BY <1>2, <3>1, OneMoreFailure DEF Retries, Cycles
    <3>3. Cardinality(CycleFailures(pl)) + 1 < MaxRetries
      BY <3>1 DEF Retries, MayRetry
    <3> QED BY <3>2, <3>3
  <2>2. CASE b # nextPk
    <3>1. b \in Open /\ queue'[b].plate = queue[b].plate /\ queue[b].plate # queue[a].plate
      BY <1>6, <2>2
    <3>2. SamePlate(pl)
      BY <1>2, <1>3, <1>5, <3>1 DEF SamePlate, SameAttempt, Of, Retries
    <3>3. b \in Of(pl) \cap Open
      BY <3>1, BusyParts DEF Of
    <3> QED BY <3>2, <3>3, SameFailures DEF Cycles, BudgetLeft
  <2> QED BY <2>1, <2>2
<1> QED BY <1>7, <1>8, <1>9 DEF Cycles

\* No step breaks Cycles ...
LEMMA CyclesStep == TypeOK /\ Consistent /\ Cycles /\ [Next]_vars => Cycles'
BY AttemptSteps, CyclesSame, CyclesDelete, CyclesInsert, CyclesResolve, CyclesRetry, BusyParts DEF AttemptStep

\* ... so it always holds.
LEMMA AlwaysCycles == Spec => [](TypeOK /\ Consistent /\ Cycles)
BY TypeInit, TypeStep, ConsistentInit, ConsistentStep, CyclesInit, CyclesStep, PTL DEF Spec

-----------------------------------------------------------------------------
(* The two derivations of what is derived.                                 *)

\* The SQL compares with the last manual attempt, Python with all of them: the same.
LEMMA LastManualRow ==
  ASSUME NEW pl
  PROVE  /\ \A f \in Of(pl) : (\A m \in LastManual(pl) : m <= f)
                                 <=> (\A m \in Of(pl) : ~queue[m].is_retry => m <= f)
         /\ \A f \in Of(pl) : (\E m \in Of(pl) : ~queue[m].is_retry) =>
               ((\E m \in LastManual(pl) : m <= f) <=> (\A m \in LastManual(pl) : m <= f))
<1> DEFINE M == {m \in Of(pl) : ~queue[m].is_retry}
<1>1. M \in SUBSET Pk /\ Of(pl) \subseteq Pk /\ LastManual(pl) \subseteq M /\ \A b \in Pk : b \in Int
  BY DEF Of, Rows, LastManual, Pk
<1>2. CASE M = {}
  BY <1>1, <1>2
<1>3. CASE M # {}
  <2>1. PICK x \in M : \A y \in M : y <= x
    BY <1>1, <1>3, LastRow
  <2>2. x \in LastManual(pl)
    BY <2>1 DEF LastManual
  <2>3. \A m \in LastManual(pl) : x <= m /\ m <= x
    BY <1>1, <2>1 DEF LastManual
  <2>4. LastManual(pl) = {x}
    BY <1>1, <2>2, <2>3
  <2>5. \A f \in Of(pl), m \in M : x <= f => m <= f
    BY <1>1, <2>1
  <2> QED BY <2>1, <2>4, <2>5
<1> QED BY <1>2, <1>3

\* The failures that count, and the retries shown with an attempt.
LEMMA FailuresAgree ==
  ASSUME RetriesFollow, NEW pl
  PROVE  /\ AnnotatedFailures(pl) = CycleFailures(pl)
         /\ \A a \in Of(pl) : RetryCount(a) = Cardinality(CycleFailures(queue[a].plate))
<1>1. AnnotatedFailures(pl) = CycleFailures(pl)
  BY LastManualRow DEF AnnotatedFailures, CycleFailures
<1>2. ASSUME NEW a \in Of(pl)
      PROVE  RetryCount(a) = Cardinality(CycleFailures(queue[a].plate))
  <2>1. queue[a].plate = pl /\ \E m \in Of(pl) : ~queue[m].is_retry
    BY DEF RetriesFollow, Of
  <2>2. {f \in Of(pl) : queue[f].result = "failed" /\ \E m \in LastManual(pl) : m <= f} = CycleFailures(pl)
    BY <2>1, LastManualRow DEF CycleFailures
  <2> QED BY <2>1, <2>2 DEF RetryCount
<1> QED BY <1>1, <1>2

\* The timestamps of an open attempt, read as SQL reads them.
LEMMA OpenStatus ==
  ASSUME TypeOK, NEW a \in Open
  PROVE  /\ a \in InReview <=> queue[a].completed = Stamp
         /\ a \in Printing <=> queue[a].completed # Stamp /\ queue[a].started = Stamp
         /\ a \in Waiting <=> queue[a].completed # Stamp /\ queue[a].started # Stamp
         /\ a \in Claimed <=> a \in Waiting /\ queue[a].claim = Stamp
         /\ a \in Busy <=> queue[a].completed = Stamp \/ queue[a].started = Stamp \/ queue[a].claim = Stamp
<1>1. queue[a] \in Attempt
  BY RowIsAttempt, BusyParts DEF TypeOK, Table
<1>2. /\ queue[a].completed \in {Null, Stamp} /\ queue[a].started \in {Null, Stamp}
      /\ queue[a].claim \in {Null, Stamp}
  BY <1>1 DEF Attempt, Timestamp
<1>3. Null # Stamp
  BY DEF Null, Stamp
<1>4. /\ a \in InReview <=> queue[a].completed = Stamp
      /\ a \in Printing <=> queue[a].completed # Stamp /\ queue[a].started = Stamp
      /\ a \in Waiting <=> queue[a].completed # Stamp /\ queue[a].started # Stamp
  BY <1>2, <1>3 DEF InReview, Printing, Waiting
<1>5. a \in Claimed <=> a \in Waiting /\ queue[a].claim = Stamp
  BY DEF Claimed
<1> QED BY <1>4, <1>5 DEF Busy

\* The open attempt of a plate decides about its state ...
LEMMA StateOfOpen ==
  ASSUME TypeOK, OneOpenAttemptPerPlate, NEW pl, NEW a \in Of(pl) \cap Open, ~Passed(pl)
  PROVE  PlateState(pl) = IF a \in InReview THEN "awaiting_review"
                          ELSE IF a \in Printing THEN "printing"
                          ELSE IF a \in Claimed THEN "starting" ELSE "waiting"
<1>1. \A b \in Of(pl) \cap Open : b = a
  BY DEF OneOpenAttemptPerPlate, Of
<1>2. /\ Of(pl) \cap InReview # {} <=> a \in InReview
      /\ Of(pl) \cap Printing # {} <=> a \in Printing
      /\ Of(pl) \cap Claimed # {} <=> a \in Claimed
      /\ Of(pl) \cap (Waiting \ Claimed) # {} <=> a \in Waiting \ Claimed
      /\ Of(pl) \cap Open # {}
  BY <1>1, BusyParts
<1>3. /\ a \in InReview \/ a \in Printing \/ a \in Waiting
      /\ ~(a \in InReview /\ a \in Printing) /\ ~(a \in InReview /\ a \in Waiting) /\ ~(a \in Printing /\ a \in Waiting)
      /\ a \in Claimed => a \in Waiting
  BY OpenStatus
<1>4. CASE a \in InReview
  BY <1>2, <1>3, <1>4 DEF PlateState
<1>5. CASE a \in Printing
  BY <1>2, <1>3, <1>5 DEF PlateState
<1>6. CASE a \in Claimed
  BY <1>2, <1>3, <1>6 DEF PlateState
<1>7. CASE a \in Waiting \ Claimed
  BY <1>2, <1>3, <1>7 DEF PlateState
<1> QED BY <1>3, <1>4, <1>5, <1>6, <1>7

\* ... and without one the failures of the cycle do, unless it passed.
LEMMA StateOfRest ==
  ASSUME NEW pl
  PROVE  /\ Passed(pl) => PlateState(pl) = "completed"
         /\ ~Passed(pl) /\ Of(pl) \cap Open = {} =>
              PlateState(pl) = IF Cardinality(CycleFailures(pl)) >= MaxRetries THEN "failed" ELSE "not_queued"
BY DEF PlateState

\* What the state of a plate says of its attempts.
LEMMA StateFacts ==
  ASSUME TypeOK, OneOpenAttemptPerPlate, NEW pl
  PROVE  /\ PlateState(pl) \in {"completed", "awaiting_review", "printing", "starting", "waiting", "failed", "not_queued"}
         /\ PlateState(pl) = "completed" <=> Passed(pl)
         /\ PlateState(pl) \in {"failed", "not_queued"} <=> ~Passed(pl) /\ Of(pl) \cap Open = {}
         /\ Of(pl) = {} => PlateState(pl) = "not_queued"
<1>1. CASE Passed(pl)
  BY <1>1, StateOfRest DEF Passed
<1>2. CASE ~Passed(pl) /\ Of(pl) \cap Open = {}
  <2>1. Of(pl) = {} => CycleFailures(pl) = {}
    BY DEF CycleFailures
  <2>2. Cardinality({}) = 0 /\ ~(0 >= MaxRetries)
    BY FS_EmptySet, BoundsAssumption
  <2> QED BY <1>2, <2>1, <2>2, StateOfRest
<1>3. CASE ~Passed(pl) /\ Of(pl) \cap Open # {}
  <2>1. PICK a \in Of(pl) \cap Open : TRUE
    BY <1>3
  <2> QED BY <1>3, <2>1, StateOfOpen
<1> QED BY <1>1, <1>2, <1>3

\* The annotated state of a plate is its state.
LEMMA StatesAgree ==
  ASSUME TypeOK, Consistent, RetriesFollow, NEW pl
  PROVE  AnnotatedState(pl) = PlateState(pl)
<1>1. CASE Passed(pl)
  BY <1>1, StateOfRest DEF AnnotatedState, Passed
<1>2. CASE ~Passed(pl) /\ Of(pl) \cap Open = {}
  BY <1>2, StateOfRest, FailuresAgree DEF AnnotatedState, Passed
<1>3. CASE ~Passed(pl) /\ Of(pl) \cap Open # {}
  <2>1. PICK a \in Of(pl) \cap Open : TRUE
    BY <1>3
  <2>2. \A b \in Of(pl) \cap Open : b = a
    BY DEF Consistent, OneOpenAttemptPerPlate, Of
  <2>3. AnnotatedState(pl) = IF queue[a].completed = Stamp THEN "awaiting_review"
                             ELSE IF queue[a].started = Stamp THEN "printing"
                             ELSE IF queue[a].claim = Stamp THEN "starting" ELSE "waiting"
    BY <1>3, <2>1, <2>2 DEF AnnotatedState, Passed
  <2>4. PlateState(pl) = IF a \in InReview THEN "awaiting_review"
                         ELSE IF a \in Printing THEN "printing"
                         ELSE IF a \in Claimed THEN "starting" ELSE "waiting"
    BY <1>3, <2>1, StateOfOpen DEF Consistent
  <2> QED BY <2>1, <2>3, <2>4, OpenStatus
<1> QED BY <1>1, <1>2, <1>3

\* The oldest open attempt of a plate is its only one.
LEMMA ActiveAgree ==
  ASSUME TypeOK, Consistent, NEW j \in Jobs
  PROVE  (\E pl \in PlatesOf(j) : HasActiveAttempt(pl)) <=> OfJob(j) \cap (Printing \cup InReview) # {}
<1>1. ASSUME NEW pl \in PlatesOf(j), HasActiveAttempt(pl)
      PROVE  OfJob(j) \cap (Printing \cup InReview) # {}
  BY <1>1 DEF HasActiveAttempt, IsOpenAttempt, PlatesOf, OfJob, Of
<1>2. ASSUME NEW a \in OfJob(j) \cap (Printing \cup InReview)
      PROVE  \E pl \in PlatesOf(j) : HasActiveAttempt(pl)
  <2> DEFINE pl == queue[a].plate
  <2>1. a \in Rows /\ a \in Open /\ JobOf[pl] = j
    BY BusyParts DEF OfJob
  <2>2. pl \in Plates
    BY <2>1, RowIsAttempt DEF TypeOK, Table, Attempt
  <2>3. a \in Of(pl) \cap Open /\ a <= a
    BY <2>1 DEF Of, Rows, Pk
  <2>4. IsOpenAttempt(pl, a)
    BY <2>3 DEF IsOpenAttempt, Consistent, OneOpenAttemptPerPlate, Of
  <2> QED BY <2>1, <2>2, <2>4 DEF HasActiveAttempt, PlatesOf
<1> QED BY <1>1, <1>2

\* The plates of a job are finitely many, and at least one.
LEMMA PlatesOfFinite ==
  ASSUME NEW j \in Jobs
  PROVE  /\ IsFiniteSet(PlatesOf(j)) /\ Cardinality(PlatesOf(j)) \in Nat /\ Cardinality(PlatesOf(j)) > 0
         /\ PlatesOf(j) # {}
<1>1. IsFiniteSet(PlatesOf(j)) /\ PlatesOf(j) # {}
  BY PlatesAssumption, NoEmptyJobs, FS_Subset DEF PlatesOf
<1>2. Cardinality(PlatesOf(j)) \in Nat /\ Cardinality(PlatesOf(j)) # 0
  BY <1>1, FS_CardinalityType, FS_EmptySet
<1> QED BY <1>1, <1>2

\* The display status, by what decides it.
StatusOf(j, printing, completed, failed) ==
    IF printing                                              THEN "printing"
    ELSE IF completed = PlatesOf(j)                          THEN "completed"
    ELSE IF job[j] = "closed"                                THEN "closed"
    ELSE IF OfJob(j) = {}                                    THEN "ready"
    ELSE IF failed # {} /\ completed \cup failed = PlatesOf(j) THEN "partially_failed"
    ELSE "in_progress"

\* The annotated display status of a job is its display status.
LEMMA StatusAgrees ==
  ASSUME TypeOK, Consistent, RetriesFollow, NEW j \in Jobs
  PROVE  /\ DisplayStatus(j) = StatusOf(j, OfJob(j) \cap (Printing \cup InReview) # {}, In(j, "completed"), In(j, "failed"))
         /\ AnnotatedDisplayStatus(j) = DisplayStatus(j)
<1> DEFINE completed == In(j, "completed")
           failed == In(j, "failed")
           passed == {pl \in PlatesOf(j) : \E a \in Of(pl) : queue[a].result = "passed"}
           plates == PlatesOf(j)
           busy == OfJob(j) \cap (Printing \cup InReview) # {}
<1>1. DisplayStatus(j) = StatusOf(j, busy, completed, failed)
  BY ActiveAgree DEF DisplayStatus, StatusOf, IsClosed, PrintStarted
<1>2. passed = completed /\ {pl \in plates : AnnotatedState(pl) = "failed"} = failed
  BY StatesAgree, StateFacts DEF In, Passed, Consistent
<1>3. completed \subseteq plates /\ failed \subseteq plates /\ completed \cap failed = {}
  BY DEF In
<1>4. /\ IsFiniteSet(plates) /\ Cardinality(plates) > 0
      /\ IsFiniteSet(completed) /\ IsFiniteSet(failed) /\ IsFiniteSet(completed \cup failed)
      /\ Cardinality(completed \cup failed) = Cardinality(completed) + Cardinality(failed)
  <2>1. IsFiniteSet(plates) /\ Cardinality(plates) > 0
    BY PlatesOfFinite
  <2>2. IsFiniteSet(completed) /\ IsFiniteSet(failed)
    BY <1>3, <2>1, FS_Subset
  <2>3. /\ IsFiniteSet(completed \cup failed)
        /\ Cardinality(completed \cup failed) = Cardinality(completed) + Cardinality(failed) - Cardinality({})
    BY <1>3, <2>2, FS_Union
  <2>4. Cardinality(completed) \in Nat /\ Cardinality(failed) \in Nat /\ Cardinality({}) = 0
    BY <2>2, FS_CardinalityType, FS_EmptySet
  <2> QED BY <2>1, <2>2, <2>3, <2>4
<1>5. /\ Cardinality(completed) = Cardinality(plates) <=> completed = plates
      /\ Cardinality(plates) = Cardinality(completed) + Cardinality(failed) <=> completed \cup failed = plates
  <2>1. completed \in SUBSET plates /\ completed \cup failed \in SUBSET plates
    BY <1>3
  <2>2. Cardinality(completed) = Cardinality(plates) => completed = plates
    BY <1>4, <2>1, FS_Subset
  <2>3. Cardinality(completed \cup failed) = Cardinality(plates) => completed \cup failed = plates
    BY <1>4, <2>1, FS_Subset
  <2> QED BY <1>4, <2>2, <2>3
<1>6. AnnotatedDisplayStatus(j) =
        IF busy THEN "printing"
        ELSE IF Cardinality(plates) > 0 /\ Cardinality(completed) = Cardinality(plates) THEN "completed"
        ELSE IF job[j] = "closed" THEN "closed"
        ELSE IF OfJob(j) = {} THEN "ready"
        ELSE IF failed # {} /\ Cardinality(plates) = Cardinality(completed) + Cardinality(failed)
             THEN "partially_failed" ELSE "in_progress"
  <2> HIDE DEF completed, failed, plates
  <2>1. {pl \in PlatesOf(j) : \E a \in Of(pl) : queue[a].result = "passed"} = completed
    BY <1>2
  <2>2. {pl \in PlatesOf(j) : AnnotatedState(pl) = "failed"} = failed /\ PlatesOf(j) = plates
    BY <1>2 DEF plates
  <2> QED BY <2>1, <2>2 DEF AnnotatedDisplayStatus, IsClosed
<1>7. AnnotatedDisplayStatus(j) = StatusOf(j, busy, completed, failed)
  <2> HIDE DEF completed, failed, busy
  <2> QED BY <1>4, <1>5, <1>6 DEF StatusOf
<1> QED BY <1>1, <1>7

\* A list refuses to delete the jobs that the page of the job refuses to delete.
LEMMA DeleteAgrees ==
  ASSUME TypeOK, NEW j \in Jobs
  PROVE  CanDelete(j) <=> OfJob(j) \cap Busy = {}
<1>1. \A a \in OfJob(j) : BlocksJobDelete(a) <=> a \in Busy
  <2> SUFFICES ASSUME NEW a \in OfJob(j)
               PROVE  BlocksJobDelete(a) <=> a \in Busy
    OBVIOUS
  <2>1. CASE a \in Open
    BY <2>1, OpenStatus DEF BlocksJobDelete, Open
  <2>2. CASE a \notin Open
    BY <2>2, BusyParts DEF BlocksJobDelete, Open, OfJob, Busy
  <2> QED BY <2>1, <2>2
<1> QED BY <1>1 DEF CanDelete

\* What the properties and annotations of one job agree on.
JobAgrees(j) ==
    /\ j \in BlockingPartDelete \/ PrintStarted(j)
    /\ AnnotatedDisplayStatus(j) = DisplayStatus(j)
    /\ JobDeleteBlocked(j) <=> ~CanDelete(j)
    /\ CanClose(j) <=> job[j] = "open" /\ OfJob(j) \cap Busy = {} /\ ~Finished(j)
    /\ j \in ContentsEditable <=> CanChangeContents(j)
    /\ \A pl \in PlatesOf(j) :
          /\ AnnotatedState(pl) = PlateState(pl)
          /\ pl \in CompletedPlates <=> PlateState(pl) = "completed"
          /\ Queueable(pl) <=> IsQueueable(pl)
    /\ \A a \in OfJob(j) : RetryCount(a) = Cardinality(CycleFailures(queue[a].plate))

\* ... and the counts over all jobs.
LEMMA JobsAgree ==
  ASSUME TypeOK, Consistent, RetriesFollow, NEW j \in Jobs, job[j] # "deleted"
  PROVE  /\ JobAgrees(j)
         /\ IsFinished(j) <=> DisplayStatus(j) \in {"completed", "partially_failed"} \/ DisplayStatus(j) = "closed"
         /\ DisplayStatus(j) \in {"printing", "in_progress"} <=> ~IsFinished(j) /\ PrintStarted(j)
<1> DEFINE busy == OfJob(j) \cap (Printing \cup InReview) # {}
           completed == In(j, "completed")
           failed == In(j, "failed")
<1>1. job[j] \in {"open", "closed"}
  BY DEF TypeOK
<1>2. DisplayStatus(j) = StatusOf(j, busy, completed, failed) /\ AnnotatedDisplayStatus(j) = DisplayStatus(j)
  BY StatusAgrees
<1>3. OfJob(j) = {} => completed = {} /\ failed = {}
  <2>1. ASSUME OfJob(j) = {}, NEW pl \in PlatesOf(j)
        PROVE  PlateState(pl) = "not_queued"
    <3>1. Of(pl) = {}
      BY <2>1 DEF OfJob, Of, PlatesOf
    <3> QED BY <3>1, StateFacts DEF Consistent
  <2> QED BY <2>1 DEF In
<1>4. PlatesOf(j) # {}
  BY PlatesOfFinite
<1>5. Finished(j) <=> completed \cup failed = PlatesOf(j)
  BY DEF Finished, In
<1>6. /\ busy => OfJob(j) # {} /\ OfJob(j) \cap Busy # {}
      /\ completed \subseteq PlatesOf(j) /\ failed \subseteq PlatesOf(j)
  BY DEF Busy, In
<1> HIDE DEF busy, completed, failed
<1>7. j \in BlockingPartDelete \/ PrintStarted(j)
  BY <1>1, <1>2, <1>3, <1>4, <1>6 DEF BlockingPartDelete, PrintStarted, FinishedStatuses, StatusOf
<1>8. IsFinished(j) <=> DisplayStatus(j) \in {"completed", "partially_failed"} \/ DisplayStatus(j) = "closed"
  BY DEF IsFinished, FinishedStatuses
<1>9. DisplayStatus(j) \in {"printing", "in_progress"} <=> ~IsFinished(j) /\ PrintStarted(j)
  BY <1>2, <1>3, <1>4, <1>6, <1>8 DEF StatusOf, PrintStarted
<1>10. CanClose(j) <=> job[j] = "open" /\ OfJob(j) \cap Busy = {} /\ ~Finished(j)
  <2>1. CanDelete(j) <=> OfJob(j) \cap Busy = {}
    BY DeleteAgrees
  <2>2. job[j] = "open" /\ OfJob(j) \cap Busy = {} => (IsFinished(j) <=> Finished(j))
    BY <1>2, <1>3, <1>4, <1>5, <1>6, <1>8 DEF StatusOf
  <2> QED BY <1>1, <2>1, <2>2 DEF CanClose, IsClosed
<1>11. JobDeleteBlocked(j) <=> ~CanDelete(j)
  BY DeleteAgrees DEF JobDeleteBlocked
<1>12. j \in ContentsEditable <=> CanChangeContents(j)
  BY <1>1 DEF ContentsEditable, CanChangeContents, IsClosed, PrintStarted
<1>13. ASSUME NEW pl \in PlatesOf(j)
       PROVE  /\ AnnotatedState(pl) = PlateState(pl)
              /\ pl \in CompletedPlates <=> PlateState(pl) = "completed"
              /\ Queueable(pl) <=> IsQueueable(pl)
  <2>1. pl \in Plates /\ JobOf[pl] = j
    BY DEF PlatesOf
  <2>2. AnnotatedState(pl) = PlateState(pl)
    BY StatesAgree
  <2>3. pl \in CompletedPlates <=> PlateState(pl) = "completed"
    BY <2>1, StateFacts DEF Consistent, CompletedPlates, Passed
  <2>4. Queueable(pl) <=> IsQueueable(pl)
    BY <1>1, <2>1, StateFacts DEF Consistent, Queueable, IsQueueable, IsClosed
  <2> QED BY <2>2, <2>3, <2>4
<1>14. \A a \in OfJob(j) : RetryCount(a) = Cardinality(CycleFailures(queue[a].plate))
  BY FailuresAgree DEF OfJob, Of
<1> QED BY <1>2, <1>7, <1>8, <1>9, <1>10, <1>11, <1>12, <1>13, <1>14 DEF JobAgrees

\* Every job has a plate, and the plates are finitely many.
LEMMA JobsFinite == IsFiniteSet(Jobs)
<1>1. JobOf \in Surjection(Plates, Jobs)
  BY NoEmptyJobs, JobsAssumption DEF Surjection
<1> QED BY <1>1, PlatesAssumption, FS_Surjection

\* Cycles is what the agreement rests on.
LEMMA Agreement == TypeOK /\ Consistent /\ Cycles => DerivedStatesAgree
<1> SUFFICES ASSUME TypeOK, Consistent, RetriesFollow
             PROVE  DerivedStatesAgree
  BY DEF Cycles
<1> DEFINE Shown(S) == {j \in Jobs : job[j] # "deleted" /\ AnnotatedDisplayStatus(j) \in S}
           finished == {j \in Jobs : job[j] # "deleted" /\ IsFinished(j) /\ DisplayStatus(j) # "closed"}
           begun == {j \in Jobs : job[j] # "deleted" /\ ~IsFinished(j) /\ PrintStarted(j)}
<1>1. \A j \in Jobs : job[j] # "deleted" =>
         /\ JobAgrees(j)
         /\ AnnotatedDisplayStatus(j) = DisplayStatus(j)
         /\ IsFinished(j) <=> DisplayStatus(j) \in {"completed", "partially_failed"} \/ DisplayStatus(j) = "closed"
         /\ DisplayStatus(j) \in {"printing", "in_progress"} <=> ~IsFinished(j) /\ PrintStarted(j)
  BY JobsAgree DEF JobAgrees
<1>2. Shown({"completed"}) \cup Shown({"partially_failed"}) = finished
  BY <1>1
<1>3. Shown({"completed"}) \cap Shown({"partially_failed"}) = {}
  OBVIOUS
<1>4. Shown({"printing", "in_progress"}) = begun
  BY <1>1
<1>5. Cardinality(finished) = Cardinality(Shown({"completed"})) + Cardinality(Shown({"partially_failed"}))
  <2>1. IsFiniteSet(Shown({"completed"})) /\ IsFiniteSet(Shown({"partially_failed"}))
    BY JobsFinite, FS_Subset
  <2> DEFINE A == Shown({"completed"})
             B == Shown({"partially_failed"})
  <2> HIDE DEF A, B
  <2>2. IsFiniteSet(A) /\ IsFiniteSet(B) /\ A \cap B = {}
    BY <1>3, <2>1 DEF A, B
  <2>3. Cardinality(A \cup B) = Cardinality(A) + Cardinality(B) - Cardinality(A \cap B)
    BY <2>2, FS_Union
  <2>4. Cardinality(A) \in Nat /\ Cardinality(B) \in Nat /\ Cardinality(A \cap B) = 0
    <3>1. Cardinality(A \cap B) = 0
      BY <2>2, FS_EmptySet
    <3> QED BY <2>2, <3>1, FS_CardinalityType
  <2>5. Cardinality(A \cup B) = Cardinality(A) + Cardinality(B)
    BY <2>3, <2>4
  <2> QED BY <1>2, <2>5 DEF A, B
<1>6. /\ JobCounts.completed_jobs = Cardinality(Shown({"completed"}))
      /\ JobCounts.partially_failed_jobs = Cardinality(Shown({"partially_failed"}))
      /\ JobCounts.active_jobs = Cardinality(Shown({"printing", "in_progress"}))
  BY DEF JobCounts, JobsShown
<1> HIDE DEF Shown, finished, begun
<1>7. /\ JobCounts.completed_jobs + JobCounts.partially_failed_jobs = Cardinality(finished)
      /\ JobCounts.active_jobs = Cardinality(begun)
  BY <1>4, <1>5, <1>6
<1> QED BY <1>1, <1>7 DEF DerivedStatesAgree, JobAgrees, finished, begun

\* Lists and pages never disagree about a plate or a job: what the annotations compute in
\* SQL is what the properties compute from the loaded attempts, in every reachable table.
THEOREM ListsAndPagesAgree == Spec => []DerivedStatesAgree
BY AlwaysCycles, Agreement, PTL

-----------------------------------------------------------------------------
(* The plates, seen without the rows behind them.                          *)

Failures(pl) == IF Counts(pl) THEN Cardinality(CycleFailures(pl)) ELSE 0
Replaced(pl) == IF Counts(pl) THEN Cardinality(ReplacedFailures(pl)) ELSE 0

\* The stage of a plate with this open attempt.
StageOf(a) == IF a \in InReview THEN "awaiting_review"
              ELSE IF a \in Printing THEN "printing"
              ELSE IF a \in Claimed THEN "starting" ELSE "waiting"

Gone(pl) == job[JobOf[pl]] = "deleted"

\* What the stage of a plate says of its attempts.
StageFacts(pl) ==
    /\ Gone(pl) => Stage(pl) = "gone" /\ Of(pl) = {}
    /\ ~Gone(pl) /\ Passed(pl) => Stage(pl) = "completed"
    /\ ~Gone(pl) /\ ~Passed(pl) /\ Of(pl) \cap Open = {} =>
         Stage(pl) = IF Cardinality(CycleFailures(pl)) >= MaxRetries THEN "failed" ELSE "not_queued"
    /\ ~Gone(pl) /\ ~Passed(pl) => \A a \in Of(pl) \cap Open : Stage(pl) = StageOf(a)
    /\ Counts(pl) <=> ~Gone(pl) /\ ~Passed(pl)
    /\ ReplacedFailures(pl) # {} => \E o \in Of(pl) \cap Open : ~queue[o].is_retry
    /\ CycleFailures(pl) \subseteq Pk /\ ReplacedFailures(pl) \subseteq Pk

AllStageFacts == \A pl \in Plates : StageFacts(pl)

\* The facts hold in every state of the queue ...
LEMMA StagesKnown == TypeOK /\ Consistent => AllStageFacts
<1> SUFFICES ASSUME TypeOK, Consistent, NEW pl \in Plates
             PROVE  StageFacts(pl)
  BY DEF AllStageFacts
<1>1. JobOf[pl] \in Jobs
  BY JobsAssumption
<1>2. Gone(pl) => Stage(pl) = "gone" /\ Of(pl) = {}
  BY <1>1 DEF Gone, Stage, Consistent, ClosedJobQueuesNothing, OfJob, Of
<1>3. ~Gone(pl) => Stage(pl) = PlateState(pl)
  BY DEF Gone, Stage
<1>4. PlateState(pl) = "completed" <=> Passed(pl)
  BY StateFacts DEF Consistent
<1>5. PlateState(pl) # "gone"
  BY StateFacts DEF Consistent
<1>6. ~Passed(pl) => \A a \in Of(pl) \cap Open : PlateState(pl) = StageOf(a)
  BY StateOfOpen DEF Consistent, StageOf
<1>7. ReplacedFailures(pl) # {} => \E o \in Of(pl) \cap Open : ~queue[o].is_retry
  BY DEF ReplacedFailures
<1>8. CycleFailures(pl) \subseteq Pk /\ ReplacedFailures(pl) \subseteq Pk
  BY DEF CycleFailures, ReplacedFailures, Of, Rows
<1>9. Counts(pl) <=> ~Gone(pl) /\ ~Passed(pl)
  BY <1>2, <1>3, <1>4, <1>5 DEF Counts
<1> QED BY <1>2, <1>3, <1>4, <1>6, <1>7, <1>8, <1>9, StateOfRest DEF StageFacts

\* ... the next one included.
LEMMA StagesKnownNext == TypeOK' /\ Consistent' => AllStageFacts'
BY StagesKnown, PTL

\* What every step lemma assumes.
Settings == TypeOK /\ Consistent /\ Cycles /\ AllStageFacts /\ AllStageFacts'

StaysPut(pl) == Stage(pl)' = Stage(pl) /\ Failures(pl)' = Failures(pl) /\ Replaced(pl)' = Replaced(pl)

\* A plate is gone with its job.
LEMMA GoneNext ==
  ASSUME SameGone, NEW pl \in Plates
  PROVE  Gone(pl)' <=> Gone(pl)
BY JobsAssumption DEF SameGone, Gone

\* A plate that passed looks the same whatever its other rows do.
LEMMA PassedStays ==
  ASSUME AllStageFacts, AllStageFacts', NEW pl \in Plates, Passed(pl), Passed(pl)', Gone(pl)' <=> Gone(pl)
  PROVE  StaysPut(pl)
BY DEF AllStageFacts, StageFacts, StaysPut, Failures, Replaced, Passed

\* The counts of a plate depend on its rows, not on how far its open attempt is.
LEMMA SamePlateCounts ==
  ASSUME AllStageFacts, AllStageFacts', NEW pl \in Plates, SamePlate(pl), Gone(pl)' <=> Gone(pl)
  PROVE  /\ Passed(pl)' <=> Passed(pl)
         /\ (Of(pl) \cap Open)' = Of(pl) \cap Open
         /\ CycleFailures(pl)' = CycleFailures(pl)
         /\ Failures(pl)' = Failures(pl) /\ Replaced(pl)' = Replaced(pl)
<1>1. Passed(pl)' <=> Passed(pl)
  BY DEF SamePlate, SameAttempt, Passed
<1>2. (Of(pl) \cap Open)' = Of(pl) \cap Open
  <2>1. Of(pl) \subseteq Rows /\ Of(pl)' \subseteq Rows'
    BY DEF Of
  <2> QED BY <2>1 DEF SamePlate, SameAttempt, Open
<1>3. ReplacedFailures(pl)' = ReplacedFailures(pl)
  <2>1. (Of(pl) \ Open)' = Of(pl) \ Open
    BY <1>2 DEF SamePlate
  <2>2. \A a : a \in ReplacedFailures(pl)' <=> a \in ReplacedFailures(pl)
    BY <1>2, <2>1 DEF SamePlate, SameAttempt, ReplacedFailures
  <2> QED BY <2>2
<1>4. Counts(pl)' <=> Counts(pl)
  BY <1>1 DEF AllStageFacts, StageFacts
<1> QED BY <1>1, <1>2, <1>3, <1>4, SameFailures DEF Failures, Replaced

\* A plate whose rows stay as far as they are looks the same.
LEMMA SamePlateStaysPut ==
  ASSUME AllStageFacts, AllStageFacts', NEW pl \in Plates, SamePlate(pl), Gone(pl)' <=> Gone(pl),
         \A a \in Of(pl) \cap Open : SameStatus(a)
  PROVE  StaysPut(pl)
<1>1. /\ Passed(pl)' <=> Passed(pl)
      /\ (Of(pl) \cap Open)' = Of(pl) \cap Open
      /\ CycleFailures(pl)' = CycleFailures(pl)
      /\ Failures(pl)' = Failures(pl) /\ Replaced(pl)' = Replaced(pl)
  BY SamePlateCounts
<1>2. \A a \in Of(pl) \cap Open : StageOf(a)' = StageOf(a)
  BY DEF SameStatus, StageOf
<1>3. StageFacts(pl) /\ StageFacts(pl)'
  BY DEF AllStageFacts
<1>4. Stage(pl)' = Stage(pl)
  <2>1. CASE Gone(pl) \/ Passed(pl)
    BY <1>1, <1>3, <2>1 DEF StageFacts
  <2>2. CASE ~Gone(pl) /\ ~Passed(pl) /\ Of(pl) \cap Open = {}
    BY <1>1, <1>3, <2>2 DEF StageFacts
  <2>3. ASSUME ~Gone(pl), ~Passed(pl), NEW a \in Of(pl) \cap Open
        PROVE  Stage(pl)' = Stage(pl)
    <3>1. a \in (Of(pl) \cap Open)'
      BY <1>1
    <3>2. Stage(pl) = StageOf(a) /\ Stage(pl)' = StageOf(a)'
      BY <1>1, <1>3, <2>3, <3>1 DEF StageFacts
    <3> QED BY <1>2, <3>2
  <2> QED BY <2>1, <2>2, <2>3
<1> QED BY <1>1, <1>4 DEF StaysPut

\* Nothing that can be seen of the plates changes.
LEMMA PlatesStutter ==
  ASSUME \A pl \in Plates : StaysPut(pl)
  PROVE  UNCHANGED Lifecycle!vars
BY DEF StaysPut, Lifecycle!vars, Failures, Replaced

\* Claiming, releasing, starting and ending an attempt: Start, Release, Begin and End.
LEMMA GoesOnStep ==
  ASSUME Settings, NEW a \in Open, SameAttempts, SameGone, GoesOn(a), \A b \in Rows \ {a} : SameStatus(b)
  PROVE  [Lifecycle!Next]_(Lifecycle!vars)
<1>1. PICK pl \in Plates : pl = queue[a].plate /\ a \in Of(pl) \cap Open
  <2>1. a \in Rows /\ queue[a] \in Attempt
    BY BusyParts, RowIsAttempt DEF Settings, TypeOK, Table
  <2>2. queue[a].plate \in Plates
    BY <2>1 DEF Attempt
  <2> QED BY <2>1, <2>2 DEF Of
<1>2. \A q \in Plates : SamePlate(q) /\ (Gone(q)' <=> Gone(q))
  BY GoneNext DEF SameAttempts, SameAttempt, SamePlate, Of
<1>3. \A q \in Plates \ {pl} : StaysPut(q)
  <2> SUFFICES ASSUME NEW q \in Plates \ {pl}
               PROVE  StaysPut(q)
    OBVIOUS
  <2>1. \A b \in Of(q) \cap Open : SameStatus(b)
    BY <1>1 DEF Of
  <2> QED BY <1>2, <2>1, SamePlateStaysPut DEF Settings
<1>4. CASE Passed(pl)
  <2>1. Passed(pl)'
    BY <1>1, <1>2, <1>4, SamePlateCounts DEF Settings
  <2>2. StaysPut(pl)
    BY <1>1, <1>2, <1>4, <2>1, PassedStays DEF Settings
  <2> QED BY <1>3, <2>2, PlatesStutter
<1>5. CASE ~Passed(pl)
  <2>1. /\ ~Passed(pl)' /\ a \in (Of(pl) \cap Open)'
        /\ Failures(pl)' = Failures(pl) /\ Replaced(pl)' = Replaced(pl)
    BY <1>1, <1>2, <1>5, SamePlateCounts DEF Settings
  <2>2. ~Gone(pl) /\ ~Gone(pl)'
    BY <1>1, <1>2 DEF Settings, AllStageFacts, StageFacts
  <2>3. Stage(pl) = StageOf(a) /\ Stage(pl)' = StageOf(a)'
    BY <1>1, <1>5, <2>1, <2>2 DEF Settings, AllStageFacts, StageFacts
  <2>4. \/ Stage(pl) = "waiting" /\ Stage(pl)' = "starting"
        \/ Stage(pl) = "starting" /\ Stage(pl)' = "waiting"
        \/ Stage(pl) \in {"starting", "waiting"} /\ Stage(pl)' = "printing"
        \/ Stage(pl) = "printing" /\ Stage(pl)' = "awaiting_review"
    <3>1. /\ ~(a \in InReview /\ a \in Printing) /\ ~(a \in InReview /\ a \in Waiting) /\ ~(a \in Printing /\ a \in Waiting)
          /\ a \in Claimed => a \in Waiting
          /\ ~(a \in InReview' /\ a \in Printing') /\ ~(a \in InReview' /\ a \in Waiting') /\ ~(a \in Printing' /\ a \in Waiting')
          /\ a \in Claimed' => a \in Waiting'
      BY DEF InReview, Printing, Waiting, Claimed, Null, Stamp
    <3> QED BY <2>3, <3>1 DEF GoesOn, StageOf
  <2>5. \A q \in Plates : /\ Failures(q)' = Failures(q) /\ Replaced(q)' = Replaced(q)
                          /\ q # pl => Stage(q)' = Stage(q)
    BY <1>3, <2>1 DEF StaysPut
  <2>6. \/ Lifecycle!Start(pl) \/ Lifecycle!Release(pl) \/ Lifecycle!Begin(pl) \/ Lifecycle!End(pl)
    BY <1>1, <2>4, <2>5 DEF Lifecycle!Start, Lifecycle!Release, Lifecycle!Begin, Lifecycle!End, Lifecycle!Step,
                            Failures, Replaced
  <2> QED BY <1>1, <2>6 DEF Lifecycle!Next
<1> QED BY <1>4, <1>5


\* No row goes on: the life cycle stutters.
LEMMA QuietPlates ==
  ASSUME Settings, SameAttempts, SameGone, \A b \in Rows : SameStatus(b)
  PROVE  [Lifecycle!Next]_(Lifecycle!vars)
<1>1. \A q \in Plates : SamePlate(q) /\ (Gone(q)' <=> Gone(q)) /\ \A b \in Of(q) \cap Open : SameStatus(b)
  BY GoneNext DEF SameAttempts, SameAttempt, SamePlate, Of
<1>2. \A q \in Plates : StaysPut(q)
  BY <1>1, SamePlateStaysPut DEF Settings
<1> QED BY <1>2, PlatesStutter

\* Rows that stay as they are stay as they are seen.
LEMMA KeptRow ==
  ASSUME NEW b \in Rows, b \in Rows', queue'[b] = queue[b]
  PROVE  SameAttempt(b) /\ SameStatus(b) /\ (b \in Open' <=> b \in Open)
BY DEF SameAttempt, SameStatus, Open, Waiting, Printing, InReview, Claimed

\* A plate whose rows stay looks the same.
LEMMA KeptPlate ==
  ASSUME Settings, NEW pl \in Plates, Gone(pl)' <=> Gone(pl), Of(pl)' = Of(pl), \A b \in Of(pl) : queue'[b] = queue[b]
  PROVE  StaysPut(pl)
<1>1. \A b \in Of(pl) : SameAttempt(b) /\ SameStatus(b)
  BY KeptRow DEF Of
<1>2. SamePlate(pl)
  BY <1>1 DEF SamePlate
<1> QED BY <1>1, <1>2, SamePlateStaysPut DEF Settings

\* A plate whose waiting attempt is deleted: if a user had queued it, the failures
\* from before count again.
LEMMA DequeuedPlate ==
  ASSUME Settings, NEW pl \in Plates, ~Passed(pl), NEW d \in Of(pl), d \in Waiting \ Claimed,
         Of(pl)' = Of(pl) \ {d}, \A b \in Of(pl)' : queue'[b] = queue[b], Gone(pl)' <=> Gone(pl)
  PROVE  /\ Stage(pl) = "waiting" /\ Stage(pl)' = Lifecycle!Unqueued(Failures(pl)')
         /\ Failures(pl)' = IF Failures(pl) = 0 THEN Replaced(pl) ELSE Failures(pl)
         /\ Replaced(pl)' = 0
<1>a. StageFacts(pl) /\ StageFacts(pl)'
  BY DEF Settings, AllStageFacts
<1>b. d \in Of(pl) \cap Open /\ d \in Rows /\ queue[d].plate = pl
  BY BusyParts DEF Of
<1>c. ~Gone(pl) /\ ~Gone(pl)'
  BY <1>a, <1>b DEF StageFacts
<1>1. \A b \in Of(pl) \cap Open : b = d
  BY <1>b DEF Settings, Consistent, OneOpenAttemptPerPlate, Of
<1>2. \A b \in Of(pl)' : b \in Of(pl) /\ b \in Rows' /\ b \notin Open /\ b \notin Open'
  BY <1>1 DEF Of, Open
<1>3. Stage(pl) = "waiting"
  <2>1. d \notin InReview /\ d \notin Printing /\ d \notin Claimed
    BY <1>b, OpenStatus DEF Settings
  <2>2. Stage(pl) = StageOf(d)
    BY <1>a, <1>b, <1>c DEF StageFacts
  <2> QED BY <2>1, <2>2 DEF StageOf
<1>4. ~Passed(pl)' /\ (Of(pl) \cap Open)' = {}
  BY <1>2 DEF Passed
<1>5. Counts(pl) /\ Counts(pl)'
  BY <1>a, <1>c, <1>4 DEF StageFacts
<1>6. Replaced(pl)' = 0
  <2>1. ReplacedFailures(pl)' = {}
    BY <1>a, <1>4 DEF StageFacts
  <2> QED BY <2>1, FS_EmptySet DEF Replaced
<1>7. Failures(pl)' = Cardinality(CycleFailures(pl)')
  BY <1>5 DEF Failures
<1>8. Stage(pl)' = Lifecycle!Unqueued(Failures(pl)')
  BY <1>a, <1>c, <1>4, <1>7 DEF StageFacts, Lifecycle!Unqueued
<1>9. /\ \A b \in Of(pl) : b \in Of(pl)' <=> b # d
      /\ \A b \in Of(pl) : b # d => queue'[b].result = queue[b].result /\ queue'[b].is_retry = queue[b].is_retry
      /\ queue[d].result = ""
  BY <1>b DEF Open
<1>10. CASE ~queue[d].is_retry
  <2>1. \A f \in Of(pl) : f <= d /\ (d <= f => f = d)
    <3>1. \A f \in Of(pl) : f \in Int /\ d \in Int
      BY <1>b DEF Of, Rows, Pk
    <3>2. \A f \in Of(pl) : f <= d
      BY <1>b DEF Settings, Cycles, OpenIsNewest, Of
    <3> QED BY <3>1, <3>2
  <2>2. CycleFailures(pl) = {}
    BY <1>9, <1>10, <2>1 DEF CycleFailures
  <2>3. CycleFailures(pl)' = ReplacedFailures(pl)
    <3>1. \A m \in Of(pl) : m \in Of(pl)' <=> m \notin Open
      BY <1>b, <1>1, <1>9
    <3>2. \A f : f \in CycleFailures(pl)' <=>
                   /\ f \in Of(pl)' /\ queue'[f].result = "failed"
                   /\ \A m \in Of(pl)' : ~queue'[m].is_retry => m <= f
      BY DEF CycleFailures
    <3>3. \A f : f \in ReplacedFailures(pl) <=>
                   /\ f \in Of(pl) /\ queue[f].result = "failed"
                   /\ \A m \in Of(pl) \ Open : ~queue[m].is_retry => m <= f
      BY <1>b, <1>10 DEF ReplacedFailures
    <3>4. \A f \in Of(pl)' : (\A m \in Of(pl)' : ~queue'[m].is_retry => m <= f)
                               <=> (\A m \in Of(pl) \ Open : ~queue[m].is_retry => m <= f)
      BY <1>2, <1>9, <3>1
    <3>5. \A f \in Of(pl) : queue[f].result = "failed" => f # d
      BY <1>9
    <3>6. \A f : f \in CycleFailures(pl)' <=> f \in ReplacedFailures(pl)
      BY <1>2, <1>9, <3>2, <3>3, <3>4, <3>5
    <3> QED BY <3>6
  <2>4. Failures(pl) = 0 /\ Failures(pl)' = Replaced(pl)
    BY <1>5, <1>7, <2>2, <2>3, FS_EmptySet DEF Failures, Replaced
  <2> QED BY <1>3, <1>6, <1>8, <2>4
<1>11. CASE queue[d].is_retry
  <2>1. ReplacedFailures(pl) = {}
    BY <1>1, <1>11 DEF ReplacedFailures
  <2>2. Replaced(pl) = 0
    BY <2>1, FS_EmptySet DEF Replaced
  <2>3. CycleFailures(pl)' = CycleFailures(pl)
    <3>1. \A f : f \in CycleFailures(pl)' <=>
                   /\ f \in Of(pl)' /\ queue'[f].result = "failed"
                   /\ \A m \in Of(pl)' : ~queue'[m].is_retry => m <= f
      BY DEF CycleFailures
    <3>2. \A f : f \in CycleFailures(pl) <=>
                   /\ f \in Of(pl) /\ queue[f].result = "failed"
                   /\ \A m \in Of(pl) : ~queue[m].is_retry => m <= f
      BY DEF CycleFailures
    <3>3. \A f \in Of(pl)' : (\A m \in Of(pl)' : ~queue'[m].is_retry => m <= f)
                               <=> (\A m \in Of(pl) : ~queue[m].is_retry => m <= f)
      BY <1>2, <1>9, <1>11
    <3>4. \A f \in Of(pl) : queue[f].result = "failed" => f # d
      BY <1>9
    <3>5. \A f : f \in CycleFailures(pl)' <=> f \in CycleFailures(pl)
      BY <1>2, <1>9, <3>1, <3>2, <3>3, <3>4
    <3> QED BY <3>5
  <2>4. Failures(pl)' = Failures(pl)
    BY <1>5, <2>3 DEF Failures
  <2> QED BY <1>3, <1>6, <1>8, <2>2, <2>4
<1> QED BY <1>10, <1>11

\* Deleting waiting attempts is Dequeue of their plates, those that passed apart.
LEMMA DequeueStep ==
  ASSUME Settings, NEW D \in SUBSET (Waiting \ Claimed), Deletes(D), SameGone
  PROVE  [Lifecycle!Next]_(Lifecycle!vars)
<1> DEFINE S == {pl \in Plates : ~Passed(pl) /\ \E d \in D : queue[d].plate = pl}
<1>1. /\ Rows' = Rows \ D /\ \A b \in Rows' : b \in Rows /\ queue'[b] = queue[b]
      /\ \A d \in D : d \in Open /\ d \in Rows
  BY BusyParts DEF Deletes
<1>2. \A pl \in Plates : Gone(pl)' <=> Gone(pl)
  BY GoneNext
<1>3. ASSUME NEW pl \in S
      PROVE  /\ Stage(pl) = "waiting" /\ Stage(pl)' = Lifecycle!Unqueued(Failures(pl)')
             /\ Failures(pl)' = IF Failures(pl) = 0 THEN Replaced(pl) ELSE Failures(pl)
             /\ Replaced(pl)' = 0
  <2>1. PICK d \in D : queue[d].plate = pl
    OBVIOUS
  <2>2. d \in Of(pl)
    BY <1>1, <2>1 DEF Of
  <2>3. \A b \in Of(pl) : b \in D => b = d
    BY <1>1, <2>1 DEF Settings, Consistent, OneOpenAttemptPerPlate, Of
  <2>4. Of(pl)' = Of(pl) \ {d}
    BY <1>1, <2>3 DEF Of
  <2>5. \A b \in Of(pl)' : queue'[b] = queue[b]
    BY <1>1 DEF Of
  <2> QED BY <1>2, <2>2, <2>4, <2>5, DequeuedPlate
<1>4. ASSUME NEW pl \in Plates \ S
      PROVE  StaysPut(pl)
  <2>1. CASE Passed(pl)
    <3>1. Passed(pl)'
      BY <1>1, <2>1 DEF Passed, Of, Open
    <3> QED BY <1>2, <2>1, <3>1, PassedStays DEF Settings
  <2>2. CASE ~Passed(pl)
    <3>1. \A d \in D : queue[d].plate # pl
      BY <2>2
    <3>2. Of(pl)' = Of(pl) /\ \A b \in Of(pl) : queue'[b] = queue[b]
      BY <1>1, <3>1 DEF Of
    <3> QED BY <1>2, <3>2, KeptPlate
  <2> QED BY <2>1, <2>2
<1> HIDE DEF S
<1>5. S \in SUBSET Plates
  BY DEF S
<1>6. Lifecycle!Dequeue(S)
  BY <1>3, <1>4, <1>5 DEF Lifecycle!Dequeue, Lifecycle!Update, StaysPut, Failures, Replaced
<1> QED BY <1>5, <1>6 DEF Lifecycle!Next

\* Deleting a job is Delete of its plates.
LEMMA DeleteJobStep ==
  ASSUME Settings, NEW j \in Jobs, OfJob(j) \cap Busy = {}, Deletes(OfJob(j)),
         \A i \in Jobs : job'[i] = IF i = j THEN "deleted" ELSE job[i]
  PROVE  [Lifecycle!Next]_(Lifecycle!vars)
<1>1. \A pl \in Plates : JobOf[pl] \in Jobs /\ (pl \in PlatesOf(j) <=> JobOf[pl] = j)
  BY JobsAssumption DEF PlatesOf
<1>2. ASSUME NEW pl \in PlatesOf(j)
      PROVE  Stage(pl) \notin Lifecycle!Busy /\ Stage(pl)' = "gone" /\ Failures(pl)' = 0 /\ Replaced(pl)' = 0
  <2>1. pl \in Plates /\ Gone(pl)'
    BY <1>1 DEF PlatesOf, Gone
  <2>2. StageFacts(pl) /\ StageFacts(pl)'
    BY <2>1 DEF Settings, AllStageFacts
  <2>3. Failures(pl)' = 0 /\ Replaced(pl)' = 0 /\ Stage(pl)' = "gone"
    BY <2>1, <2>2 DEF StageFacts, Failures, Replaced
  <2>4. ASSUME ~Gone(pl), ~Passed(pl), NEW a \in Of(pl) \cap Open
        PROVE  Stage(pl) = "waiting"
    <3>1. a \notin Busy
      BY <1>1, <2>1 DEF Of, OfJob
    <3> QED BY <2>2, <2>4, <3>1 DEF StageFacts, StageOf, Busy
  <2>5. Stage(pl) \notin Lifecycle!Busy
    BY <2>2, <2>4 DEF StageFacts, Lifecycle!Busy
  <2> QED BY <2>3, <2>5
<1>3. ASSUME NEW pl \in Plates \ PlatesOf(j)
      PROVE  StaysPut(pl)
  <2>1. Gone(pl)' <=> Gone(pl)
    BY <1>1 DEF Gone
  <2>2. Of(pl)' = Of(pl) /\ \A b \in Of(pl) : queue'[b] = queue[b]
    BY <1>1 DEF Deletes, Of, OfJob
  <2> QED BY <2>1, <2>2, KeptPlate
<1>4. PlatesOf(j) \in SUBSET Plates
  BY DEF PlatesOf
<1>5. Lifecycle!Delete(PlatesOf(j))
  BY <1>2, <1>3, <1>4 DEF Lifecycle!Delete, Lifecycle!Update, StaysPut, Failures, Replaced
<1> QED BY <1>4, <1>5 DEF Lifecycle!Next


\* A queued plate: the failures so far are set aside.
LEMMA QueuedPlate ==
  ASSUME Settings, NEW pl \in Plates, ~Passed(pl), NoOpenAttempt(pl), NEW n \in Pk, n \notin Rows, n \in Rows',
         \A b \in Rows : b < n, Of(pl)' = Of(pl) \cup {n}, \A b \in Of(pl) : queue'[b] = queue[b],
         queue'[n].plate = pl, Untried(queue'[n]), ~queue'[n].is_retry, ~Gone(pl), ~Gone(pl)'
  PROVE  /\ Stage(pl) \in {"not_queued", "failed"} /\ Stage(pl)' = "waiting"
         /\ Failures(pl)' = 0 /\ Replaced(pl)' = Failures(pl)
<1>a. StageFacts(pl) /\ StageFacts(pl)'
  BY DEF Settings, AllStageFacts
<1>b. Of(pl) \cap Open = {}
  BY BusyParts DEF NoOpenAttempt, Of
<1>c. \A b \in Of(pl) : b \in Rows /\ b \in Int /\ b < n /\ b # n /\ n \in Int
  BY DEF Of, Rows, Pk
<1>1. Stage(pl) \in {"not_queued", "failed"}
  BY <1>a, <1>b DEF StageFacts
<1>2. n \in Of(pl)' /\ n \in Open' /\ n \notin InReview' /\ n \notin Printing' /\ n \notin Claimed'
  BY DEF Untried, Open, InReview, Printing, Claimed, Null, Stamp
<1>3. \A b \in Of(pl) : b \notin Open'
  BY <1>b DEF Of, Open
<1>4. ~Passed(pl)'
  BY DEF Passed, Untried
<1>5. Stage(pl)' = "waiting"
  <2>1. Stage(pl)' = StageOf(n)'
    BY <1>a, <1>2, <1>4 DEF StageFacts
  <2> QED BY <1>2, <2>1 DEF StageOf
<1>6. Counts(pl) /\ Counts(pl)'
  BY <1>a, <1>4 DEF StageFacts
<1>7. CycleFailures(pl)' = {}
  <2>1. \A f \in Of(pl) : ~(n <= f)
    BY <1>c
  <2>2. queue'[n].result # "failed"
    BY DEF Untried
  <2> QED BY <1>2, <2>1, <2>2 DEF CycleFailures
<1>8. ReplacedFailures(pl)' = CycleFailures(pl)
  <2>1. \A f : f \in ReplacedFailures(pl)' <=>
                 /\ f \in Of(pl)' /\ queue'[f].result = "failed"
                 /\ \A m \in (Of(pl) \ Open)' : ~queue'[m].is_retry => m <= f
    BY <1>2 DEF ReplacedFailures
  <2>2. \A f : f \in CycleFailures(pl) <=>
                 /\ f \in Of(pl) /\ queue[f].result = "failed"
                 /\ \A m \in Of(pl) : ~queue[m].is_retry => m <= f
    BY DEF CycleFailures
  <2>3. (Of(pl) \ Open)' = Of(pl)
    BY <1>2, <1>3, <1>c
  <2>4. \A f \in Of(pl)' : queue'[f].result = "failed" => f \in Of(pl)
    BY DEF Untried
  <2>5. \A f : f \in ReplacedFailures(pl)' <=> f \in CycleFailures(pl)
    BY <2>1, <2>2, <2>3, <2>4
  <2> QED BY <2>5
<1>9. Failures(pl)' = 0 /\ Replaced(pl)' = Failures(pl)
  BY <1>6, <1>7, <1>8, FS_EmptySet DEF Failures, Replaced
<1> QED BY <1>1, <1>5, <1>9

\* Inserting manual attempts is Queue of their plates, those that passed apart.
LEMMA QueueStep ==
  ASSUME Settings, NEW N \in SUBSET Pk, Inserts(N), SameGone
  PROVE  [Lifecycle!Next]_(Lifecycle!vars)
<1> DEFINE S == {pl \in Plates : ~Passed(pl) /\ \E n \in N : queue'[n].plate = pl}
<1>1. /\ Rows' = Rows \cup N
      /\ \A b \in Rows : queue'[b] = queue[b]
      /\ \A n \in N : NoOpenAttempt(queue'[n].plate) /\ Untried(queue'[n]) /\ ~queue'[n].is_retry
      /\ \A n, m \in N : queue'[n].plate = queue'[m].plate => n = m
  BY DEF Inserts
<1>2. \A n \in N, b \in Rows : b < n /\ b # n
  <2>1. \A n \in N : n \in Int /\ nextPk <= n
    <3>1. \A n \in N : n \in Pk /\ nextPk <= n
      BY DEF Inserts
    <3> QED BY <3>1 DEF Pk
  <2>2. \A b \in Rows : b \in Int /\ b < nextPk /\ nextPk \in Int
    BY RowsConsistentByRow, BoundsAssumption DEF Settings, Consistent, Rows, Pk, TypeOK
  <2> QED BY <2>1, <2>2
<1>3. \A pl \in Plates : Gone(pl)' <=> Gone(pl)
  BY GoneNext
<1>4. ASSUME NEW pl \in S
      PROVE  /\ Stage(pl) \in {"not_queued", "failed"} /\ Stage(pl)' = "waiting"
             /\ Failures(pl)' = 0 /\ Replaced(pl)' = Failures(pl)
  <2>1. PICK n \in N : queue'[n].plate = pl
    OBVIOUS
  <2>2. NoOpenAttempt(pl) /\ ~Gone(pl)
    BY <1>1, <2>1 DEF Inserts, Gone
  <2>3. \A b \in N : queue'[b].plate = pl => b = n
    BY <1>1, <2>1
  <2>4. Of(pl)' = Of(pl) \cup {n}
    BY <1>1, <2>1, <2>3 DEF Of
  <2>5. \A b \in Of(pl) : queue'[b] = queue[b]
    BY <1>1 DEF Of
  <2>6. n \in Pk /\ n \notin Rows /\ n \in Rows' /\ \A b \in Rows : b < n
    BY <1>1, <1>2
  <2> QED BY <1>1, <1>3, <2>1, <2>2, <2>4, <2>5, <2>6, QueuedPlate
<1>5. ASSUME NEW pl \in Plates \ S
      PROVE  StaysPut(pl)
  <2>1. CASE Passed(pl)
    <3>1. Passed(pl)'
      BY <1>1, <2>1 DEF Passed, Of
    <3> QED BY <1>3, <2>1, <3>1, PassedStays DEF Settings
  <2>2. CASE ~Passed(pl)
    <3>1. \A n \in N : queue'[n].plate # pl
      BY <2>2
    <3>2. Of(pl)' = Of(pl) /\ \A b \in Of(pl) : queue'[b] = queue[b]
      BY <1>1, <3>1 DEF Of
    <3> QED BY <1>3, <3>2, KeptPlate
  <2> QED BY <2>1, <2>2
<1> HIDE DEF S
<1>6. S \in SUBSET Plates
  BY DEF S
<1>7. Lifecycle!Queue(S)
  BY <1>4, <1>5, <1>6 DEF Lifecycle!Queue, Lifecycle!Update, StaysPut, Failures, Replaced
<1> QED BY <1>6, <1>7 DEF Lifecycle!Next

\* How the step of one plate reads in the life cycle.
LEMMA OnePlate ==
  ASSUME NEW pl \in Plates, \A q \in Plates \ {pl} : StaysPut(q), NEW from, NEW to,
         Stage(pl) \in from, Stage(pl)' = to
  PROVE  Lifecycle!Step(pl, from, to)
BY DEF StaysPut, Lifecycle!Step

\* Resolving an attempt is Pass, Cancel or, when no retry is left, Fail.
LEMMA ResolveStep ==
  ASSUME Settings, NEW a \in Open, NEW res \in Results, Resolves(a, res), SameGone,
         res = "cancelled" => a \notin Waiting,
         res # "cancelled" => a \in InReview,
         res = "failed" => ~MayRetry(a)
  PROVE  [Lifecycle!Next]_(Lifecycle!vars)
<1>1. PICK pl \in Plates : pl = queue[a].plate /\ a \in Of(pl) \cap Open
  <2>1. a \in Rows /\ queue[a] \in Attempt
    BY BusyParts, RowIsAttempt DEF Settings, TypeOK, Table
  <2>2. queue[a].plate \in Plates
    BY <2>1 DEF Attempt
  <2> QED BY <2>1, <2>2 DEF Of
<1>2. \A q \in Plates : Of(q)' = Of(q) /\ (Gone(q)' <=> Gone(q))
  BY <1>1, GoneNext DEF Resolves, Of
<1>3. \A q \in Plates \ {pl} : StaysPut(q)
  <2> SUFFICES ASSUME NEW q \in Plates \ {pl}
               PROVE  StaysPut(q)
    OBVIOUS
  <2>1. \A b \in Of(q) : queue'[b] = queue[b]
    BY <1>1 DEF Of, Resolves
  <2> QED BY <1>2, <2>1, KeptPlate
<1>4. \A b \in Of(pl) : /\ queue'[b].is_retry = queue[b].is_retry
                        /\ queue'[b].result = IF b = a THEN res ELSE queue[b].result
  BY DEF Resolves, Of
<1>5. queue[a].result = "" /\ res # "" /\ (Passed(pl)' <=> Passed(pl) \/ res = "passed")
  <2>1. queue[a].result = "" /\ res # ""
    BY DEF Open, Results
  <2> QED BY <1>1, <1>2, <1>4, <2>1 DEF Passed
<1>a. StageFacts(pl) /\ StageFacts(pl)'
  BY DEF Settings, AllStageFacts
<1>b. ~Gone(pl) /\ ~Gone(pl)'
  BY <1>1, <1>2, <1>a DEF StageFacts
<1>6. CASE Passed(pl)
  <2>1. StaysPut(pl)
    BY <1>2, <1>5, <1>6, PassedStays DEF Settings
  <2> QED BY <1>3, <2>1, PlatesStutter
<1>7. ASSUME ~Passed(pl)
      PROVE  [Lifecycle!Next]_(Lifecycle!vars)
  <2>1. Stage(pl) = StageOf(a)
    BY <1>1, <1>7, <1>a, <1>b DEF StageFacts
  <2>2. (Of(pl) \cap Open)' = {}
    <3>1. \A b \in Of(pl) \cap Open : b = a
      BY <1>1 DEF Settings, Consistent, OneOpenAttemptPerPlate, Of
    <3>2. a \notin Open'
      BY <1>1, <1>4, <1>5 DEF Open
    <3>3. \A b \in Of(pl) : b \in Open' => b \in Open
      BY <1>4, <1>5 DEF Open, Of
    <3>4. \A b \in Of(pl)' : b \in Of(pl)
      BY <1>2
    <3> QED BY <3>1, <3>2, <3>3, <3>4
  <2>3. Counts(pl) /\ Replaced(pl)' = 0
    <3>1. ReplacedFailures(pl)' = {}
      BY <1>a, <2>2 DEF StageFacts
    <3> QED BY <1>7, <1>a, <1>b, <3>1, FS_EmptySet DEF StageFacts, Replaced
  <2>4. \A q \in Plates \ {pl} : Failures(q)' = Failures(q) /\ Replaced(q)' = Replaced(q)
    BY <1>3 DEF StaysPut
  <2>5. CASE res = "passed"
    <3>1. Stage(pl) = "awaiting_review" /\ Stage(pl)' = "completed" /\ Failures(pl)' = 0
      BY <1>5, <1>a, <1>b, <2>1, <2>5 DEF StageOf, StageFacts, Failures
    <3>2. Lifecycle!Step(pl, {"awaiting_review"}, "completed")
      BY <1>3, <3>1, OnePlate
    <3>3. Lifecycle!Pass(pl)
      BY <2>3, <2>4, <3>1, <3>2 DEF Lifecycle!Pass, Failures, Replaced
    <3> QED BY <3>3 DEF Lifecycle!Next
  <2>6. CASE res = "cancelled"
    <3>1. Stage(pl) \in {"printing", "awaiting_review"}
      <4>1. a \in Printing \/ a \in InReview
        BY <2>6, OpenStatus DEF Settings
      <4> QED BY <2>1, <4>1 DEF StageOf
    <3>2. CycleFailures(pl)' = CycleFailures(pl)
      BY <1>2, <1>4, <1>5, <2>6 DEF CycleFailures
    <3>3. Cardinality(CycleFailures(pl)) < MaxRetries /\ Cardinality(CycleFailures(pl)) \in Nat
      BY <1>1, CycleFailuresType DEF Settings, Cycles, BudgetLeft
    <3>4. ~Passed(pl)' /\ Counts(pl)'
      BY <1>5, <1>7, <1>a, <1>b, <2>6 DEF StageFacts
    <3>5. Failures(pl)' = Failures(pl)
      BY <2>3, <3>2, <3>4 DEF Failures
    <3>6. ~(Cardinality(CycleFailures(pl)) >= MaxRetries)
      BY <3>3, BoundsAssumption
    <3>7. Stage(pl)' = "not_queued"
      BY <1>a, <1>b, <2>2, <3>2, <3>4, <3>6 DEF StageFacts
    <3>8. Lifecycle!Step(pl, {"printing", "awaiting_review"}, "not_queued")
      BY <1>3, <3>1, <3>7, OnePlate
    <3>9. Lifecycle!Cancel(pl)
      BY <2>3, <2>4, <3>5, <3>8 DEF Lifecycle!Cancel, Failures, Replaced
    <3> QED BY <3>9 DEF Lifecycle!Next
  <2>7. CASE res = "failed"
    <3>1. Cardinality(CycleFailures(pl)') = Cardinality(CycleFailures(pl)) + 1
      BY <1>1, <2>7, OneMoreFailure DEF Settings, Cycles, Resolves
    <3>2. ~(Cardinality(CycleFailures(pl)) + 1 < MaxRetries) /\ Cardinality(CycleFailures(pl)) \in Nat
      BY <1>1, <2>7, CycleFailuresType DEF MayRetry
    <3>3. ~Passed(pl)' /\ Counts(pl)'
      BY <1>5, <1>7, <1>a, <1>b, <2>7 DEF StageFacts
    <3>4. Failures(pl)' = Failures(pl) + 1 /\ ~(Failures(pl) + 1 < MaxRetries)
      BY <2>3, <3>1, <3>2, <3>3 DEF Failures
    <3>5. Stage(pl) = "awaiting_review" /\ Stage(pl)' = "failed"
      <4>1. Cardinality(CycleFailures(pl)') >= MaxRetries
        BY <3>1, <3>2, BoundsAssumption
      <4>2. Stage(pl)' = "failed"
        BY <1>a, <1>b, <2>2, <3>3, <4>1 DEF StageFacts
      <4> QED BY <2>1, <2>7, <4>2 DEF StageOf
    <3>6. Lifecycle!Step(pl, {"awaiting_review"}, "failed")
      BY <1>3, <3>5, OnePlate
    <3>7. Lifecycle!Fail(pl)
      BY <2>3, <2>4, <3>4, <3>6 DEF Lifecycle!Fail, Failures, Replaced
    <3> QED BY <3>7 DEF Lifecycle!Next
  <2> QED BY <2>5, <2>6, <2>7 DEF Results
<1> QED BY <1>6, <1>7

\* A failure with a retry is Fail.
LEMMA RetryStep ==
  ASSUME Settings, NEW a \in InReview, Retries(a), SameGone
  PROVE  [Lifecycle!Next]_(Lifecycle!vars)
<1>1. PICK pl \in Plates : pl = queue[a].plate /\ a \in Of(pl) \cap Open
  <2>1. a \in Rows /\ a \in Open /\ queue[a] \in Attempt
    BY BusyParts, RowIsAttempt DEF Settings, TypeOK, Table
  <2>2. queue[a].plate \in Plates
    BY <2>1 DEF Attempt
  <2> QED BY <2>1, <2>2 DEF Of
<1>2. nextPk \notin Rows /\ Rows' = Rows \cup {nextPk} /\ nextPk \in Rows'
  <2>1. \A b \in Rows : b \in Int /\ b < nextPk /\ nextPk \in Int
    BY RowsConsistentByRow, BoundsAssumption DEF Settings, Consistent, Rows, Pk, TypeOK
  <2>2. nextPk \notin Rows
    BY <2>1
  <2> QED BY <2>2 DEF Retries
<1>3. \A q \in Plates : Of(q)' = (IF q = pl THEN Of(q) \cup {nextPk} ELSE Of(q)) /\ (Gone(q)' <=> Gone(q))
  BY <1>1, <1>2, GoneNext DEF Retries, Of
<1>4. \A q \in Plates \ {pl} : StaysPut(q)
  <2> SUFFICES ASSUME NEW q \in Plates \ {pl}
               PROVE  StaysPut(q)
    OBVIOUS
  <2>1. \A b \in Of(q) : queue'[b] = queue[b]
    BY <1>1 DEF Of, Retries
  <2>2. Of(q)' = Of(q)
    BY <1>3
  <2> QED BY <1>3, <2>1, <2>2, KeptPlate
<1>5. /\ \A b \in Of(pl) \ {a} : queue'[b] = queue[b]
      /\ queue'[a].result = "failed" /\ queue[a].result = ""
      /\ queue'[nextPk].result = "" /\ queue'[nextPk].is_retry /\ Untried(queue'[nextPk])
  BY <1>1 DEF Retries, Of, Open
<1>6. Passed(pl)' <=> Passed(pl)
  BY <1>1, <1>3, <1>5 DEF Passed
<1>a. StageFacts(pl) /\ StageFacts(pl)'
  BY DEF Settings, AllStageFacts
<1>b. ~Gone(pl) /\ ~Gone(pl)'
  BY <1>1, <1>3, <1>a DEF StageFacts
<1>7. CASE Passed(pl)
  <2>1. StaysPut(pl)
    BY <1>3, <1>6, <1>7, PassedStays DEF Settings
  <2> QED BY <1>4, <2>1, PlatesStutter
<1>8. ASSUME ~Passed(pl)
      PROVE  [Lifecycle!Next]_(Lifecycle!vars)
  <2> PICK n \in Pk : n = nextPk
    BY DEF Retries
  <2>1. Stage(pl) = "awaiting_review"
    BY <1>1, <1>8, <1>a, <1>b DEF StageFacts, StageOf
  <2>2. n \in (Of(pl) \cap Open)' /\ n \notin InReview' /\ n \notin Printing' /\ n \notin Claimed'
    BY <1>2, <1>3, <1>5 DEF Open, InReview, Printing, Claimed, Untried, Null, Stamp
  <2>3. Stage(pl)' = "waiting"
    <3>1. Stage(pl)' = StageOf(n)'
      BY <1>6, <1>8, <1>a, <1>b, <2>2 DEF StageFacts
    <3> QED BY <2>2, <3>1 DEF StageOf
  <2>4. Counts(pl) /\ Counts(pl)'
    BY <1>6, <1>8, <1>a, <1>b DEF StageFacts
  <2>5. \A b \in (Of(pl) \cap Open)' : b = n
    <3>1. \A b \in Of(pl) \cap Open : b = a
      BY <1>1 DEF Settings, Consistent, OneOpenAttemptPerPlate, Of
    <3>2. a \notin Open'
      BY <1>5 DEF Open
    <3>3. \A b \in Of(pl) \ {a} : b \in Open' => b \in Open
      BY <1>5 DEF Open, Of
    <3>4. \A b \in Of(pl)' : b \in Of(pl) \/ b = n
      BY <1>3
    <3> QED BY <3>1, <3>2, <3>3, <3>4
  <2>6. Replaced(pl)' = 0
    <3>1. ReplacedFailures(pl)' = {}
      BY <1>5, <2>5 DEF ReplacedFailures
    <3> QED BY <3>1, FS_EmptySet DEF Replaced
  <2>7. Cardinality(CycleFailures(pl)') = Cardinality(CycleFailures(pl)) + 1
    BY <1>1, <1>5, <1>2, BusyParts, OneMoreFailure DEF Settings, Cycles, Retries
  <2>8. Cardinality(CycleFailures(pl)) + 1 < MaxRetries
    BY <1>1 DEF Retries, MayRetry
  <2>9. Failures(pl)' = Failures(pl) + 1 /\ Failures(pl) + 1 < MaxRetries
    BY <2>4, <2>7, <2>8 DEF Failures
  <2>10. \A q \in Plates \ {pl} : Failures(q)' = Failures(q) /\ Replaced(q)' = Replaced(q)
    BY <1>4 DEF StaysPut
  <2>11. Lifecycle!Step(pl, {"awaiting_review"}, "waiting")
    BY <1>4, <2>1, <2>3, OnePlate
  <2>12. Lifecycle!Fail(pl)
    BY <2>6, <2>9, <2>10, <2>11 DEF Lifecycle!Fail, Failures, Replaced
  <2> QED BY <2>12 DEF Lifecycle!Next
<1> QED BY <1>7, <1>8

\* The empty table maps to plates that are not queued ...
LEMMA LifecycleInit == Init => Lifecycle!Init
<1> SUFFICES ASSUME Init
             PROVE  Lifecycle!Init
  OBVIOUS
<1>1. Rows = {} /\ \A pl : Of(pl) = {} /\ CycleFailures(pl) = {} /\ ReplacedFailures(pl) = {}
  BY DEF Init, Rows, Of, CycleFailures, ReplacedFailures
<1>2. Cardinality({}) = 0 /\ ~(0 >= MaxRetries)
  BY FS_EmptySet, BoundsAssumption
<1>3. \A pl \in Plates : Stage(pl) = "not_queued"
  BY <1>1, <1>2, JobsAssumption DEF Init, Stage, PlateState, Passed
<1> QED BY <1>1, <1>2, <1>3 DEF Lifecycle!Init

\* ... and every step of the queue to a step of the life cycle, or to none.
LEMMA LifecycleStep ==
  TypeOK /\ Consistent /\ Cycles /\ TypeOK' /\ Consistent' /\ [Next]_vars => [Lifecycle!Next]_(Lifecycle!vars)
<1> SUFFICES ASSUME TypeOK, Consistent, Cycles, TypeOK', Consistent', [Next]_vars
             PROVE  [Lifecycle!Next]_(Lifecycle!vars)
  OBVIOUS
<1>1. Settings
  BY StagesKnown, StagesKnownNext DEF Settings
<1>2. AttemptStep
  BY AttemptSteps
<1> QED BY <1>1, <1>2, QuietPlates, GoesOnStep, DequeueStep, DeleteJobStep, QueueStep, ResolveStep, RetryStep
           DEF AttemptStep

\* The table of attempts implements the life cycle of plates: whatever requests, starters,
\* reviews and crashes interleave, no plate takes another path, and its failures count
\* against its retries as PlateLifecycle counts them.
THEOREM PlatesAlwaysFollowLifecycle == Spec => PlatesFollowLifecycle
<1>1. Init /\ [][Next]_vars => [](TypeOK /\ Consistent /\ Cycles)
  BY AlwaysCycles DEF Spec
<1>2. Spec => Lifecycle!Init /\ [][Lifecycle!Next]_(Lifecycle!vars)
  BY <1>1, LifecycleInit, LifecycleStep, PTL DEF Spec
<1> QED BY <1>2 DEF PlatesFollowLifecycle, Lifecycle!Spec
=============================================================================
