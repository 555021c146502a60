----------------------------- MODULE PrintQueue -----------------------------
(***************************************************************************)
(* The print queue: the table of print attempts (PrintQueue rows), the     *)
(* jobs whose plates they print, and the processes that work on them       *)
(* concurrently: web requests, the moonraker worker and its scheduler.     *)
(*                                                                         *)
(* An attempt has no status column.  It is described by facts (a start     *)
(* time, a finish time, a start claim, an operator's result) and every     *)
(* other state (of the attempt, of its plate, of its job) is derived.      *)
(* Transactions are IMMEDIATE on SQLite, so one transaction is one step;   *)
(* a print start spans several steps because the upload happens outside of *)
(* the transaction that claims the entry.                                  *)
(***************************************************************************)
EXTENDS QueueOrder

CONSTANTS
    Plates,        \* plates of sliced jobs, as numbers in plate order
    Jobs,
    JobOf,         \* the job of each plate
    Printers,
    Fits,          \* the printers with the machine profile of each job
    Unprofiled,    \* the printers without any machine profile
    Priorities,
    MaxRetries,    \* default of the max_retries column
    Starters,      \* processes that may run start_next_for_printer
    SlowUploads,   \* may an upload outlast START_CLAIM_TIMEOUT?
    NoRow,         \* marks a primary key without a row
    MaxAttempts,   \* bound: rows ever inserted
    MaxForms       \* bound: validated forms not yet submitted

Null  == "null"
Stamp == "set"
Timestamp == {Null, Stamp}          \* a nullable time: only its presence matters

Results == {"passed", "failed", "cancelled"}

Attempt == [plate     : Plates,
            printer   : Printers,
            priority  : Priorities,
            position  : Nat,
            result    : {""} \cup Results,
            is_retry  : BOOLEAN,
            started   : Timestamp,   \* started_at
            completed : Timestamp,   \* completed_at
            claim     : Timestamp]   \* start_claimed_at, Null again once expired

ASSUME PlatesAssumption   == Plates \subseteq Nat /\ IsFiniteSet(Plates)
ASSUME JobsAssumption     == JobOf \in [Plates -> Jobs] /\ Fits \in [Jobs -> SUBSET Printers]
ASSUME NoEmptyJobs        == \A j \in Jobs : \E pl \in Plates : JobOf[pl] = j
ASSUME PrinterAssumption  == Unprofiled \subseteq Printers
ASSUME PriorityAssumption == Priorities \subseteq Int
ASSUME BoundsAssumption   == MaxRetries \in Nat \ {0} /\ MaxAttempts \in Nat \ {0}
ASSUME SlowAssumption     == SlowUploads \in BOOLEAN
ASSUME NoRowAssumption    == NoRow \notin Attempt

VARIABLES
    queue,    \* primary key -> attempt or NoRow
    nextPk,   \* AUTOINCREMENT: primary keys are never used twice
    job,      \* "open", "closed" or "deleted"
    active,   \* printers with is_active
    remote,   \* plates whose remote_job_id is known
    pc,       \* where each starter is in start_next_for_printer
    target,   \* the entry it starts (0: none)
    forms     \* queue forms that passed validation and are about to be saved

vars == <<queue, nextPk, job, active, remote, pc, target, forms>>
table == <<queue, nextPk>>
starts == <<pc, target>>

Pk == 1..MaxAttempts

-----------------------------------------------------------------------------
(* Derived state of attempts: the filters of PrintQueueQuerySet.           *)

Rows      == {a \in Pk : queue[a] # NoRow}
Open      == {a \in Rows : queue[a].result = ""}
Waiting   == {a \in Open : queue[a].started = Null /\ queue[a].completed = Null}
Printing  == {a \in Open : queue[a].started = Stamp /\ queue[a].completed = Null}
InReview  == {a \in Open : queue[a].completed = Stamp}
Claimed   == {a \in Waiting : queue[a].claim = Stamp}

\* active_q | active_start_claim_q: what keeps a printer busy and protects a job.
Busy      == Printing \cup InReview \cup Claimed

\* history_q: attempts that were started or resolved.
History   == {a \in Rows : queue[a].result # "" \/ queue[a].started = Stamp
                                                \/ queue[a].completed = Stamp}

On(p)     == {a \in Rows : queue[a].printer = p}
Of(pl)    == {a \in Rows : queue[a].plate = pl}
PlatesOf(j) == {pl \in Plates : JobOf[pl] = j}
OfJob(j)  == {a \in Rows : JobOf[queue[a].plate] = j}

(* Derived state of plates and jobs.                                       *)

Passed(pl) == \E a \in Of(pl) : queue[a].result = "passed"

\* failed_attempts_since_manual_enqueue
CycleFailures(pl) ==
    {a \in Of(pl) : /\ queue[a].result = "failed"
                    /\ \A m \in Of(pl) : ~queue[m].is_retry => m <= a}

PlateState(pl) ==
    LET HasAttempt(S) == Of(pl) \cap S # {}
    IN  IF Passed(pl) THEN "completed"
        ELSE IF HasAttempt(Open)
        THEN CASE HasAttempt(InReview)          -> "awaiting_review"
               [] HasAttempt(Printing)          -> "printing"
               [] HasAttempt(Claimed)           -> "starting"
               [] HasAttempt(Waiting \ Claimed) -> "waiting"
        ELSE IF Cardinality(CycleFailures(pl)) >= MaxRetries THEN "failed"
        ELSE "not_queued"

\* PrintJobPlateQuerySet.queueable
Queueable(pl) ==
    /\ job[JobOf[pl]] = "open"
    /\ ~Passed(pl)
    /\ Of(pl) \cap Open = {}

\* PrintJob.is_finished, for an open job without a busy attempt.
Finished(j) == \A pl \in PlatesOf(j) : PlateState(pl) \in {"completed", "failed"}

\* Max("position") over the printer's open entries, 0 if there is none.
Positions(p) == {0} \cup {queue[a].position : a \in Open \cap On(p)}
IsLastPosition(p, n) == n \in Positions(p) /\ \A m \in Positions(p) : m <= n

NewAttempt(pl, p, prio, n, retry) ==
    [plate |-> pl, printer |-> p, priority |-> prio, position |-> n, result |-> "",
     is_retry |-> retry, started |-> Null, completed |-> Null, claim |-> Null]

-----------------------------------------------------------------------------
Init ==
    /\ queue = [a \in Pk |-> NoRow]
    /\ nextPk = 1
    /\ job = [j \in Jobs |-> "open"]
    /\ active = Printers
    /\ remote = {}
    /\ pc = [s \in Starters |-> "idle"]
    /\ target = [s \in Starters |-> 0]
    /\ forms = {}

(***************************************************************************)
(* Adding entries.                                                         *)
(***************************************************************************)

\* The printers the form accepts for a job, and those a job fits.
FormAccepts(j, p)     == p \in Fits[j] \cup Unprofiled
CompatiblePrinters(j) == Fits[j] \cap active

\* PrintQueueCreateView validates the form in one step ...
ValidateForm(pl, p) ==
    /\ Cardinality(forms) < MaxForms
    /\ <<pl, p>> \notin forms
    /\ Queueable(pl)
    /\ p \in active
    /\ FormAccepts(JobOf[pl], p)
    /\ forms' = forms \cup {<<pl, p>>}
    /\ UNCHANGED <<table, job, active, remote, starts>>

\* PrintQueue.enqueue: one manual attempt at the end of the printer's queue.
Enqueue(pl, p, prio) ==
    /\ nextPk <= MaxAttempts
    /\ nextPk' = nextPk + 1
    /\ \E n \in Positions(p) :
          /\ IsLastPosition(p, n)
          /\ queue' = [queue EXCEPT ![nextPk] = NewAttempt(pl, p, prio, n + 1, FALSE)]

\* What the save checks again: the job is not closed (nor the plate deleted), and
\* the unique constraint on open attempts of a plate holds.
JobStillOpen(pl)   == job[JobOf[pl]] = "open"
NoOpenAttempt(pl)  == Of(pl) \cap Open = {}

\* Faults: one of the two checks is missing.
SaveOfClosedJob(pl) == job[JobOf[pl]] # "deleted" /\ NoOpenAttempt(pl)
SaveTwice(pl)       == JobStillOpen(pl)

MaySave(pl) == JobStillOpen(pl) /\ NoOpenAttempt(pl)

\* ... and saves it in another.
SubmitForm(pl, p, prio) ==
    /\ <<pl, p>> \in forms
    /\ forms' = forms \ {<<pl, p>>}
    /\ IF MaySave(pl) THEN Enqueue(pl, p, prio) ELSE UNCHANGED table
    /\ UNCHANGED <<job, active, remote, starts>>

\* PrintJob.enqueue_plates: every queueable plate, in plate order, in one step.
EnqueuePlates(j, p, prio) ==
    LET todo == {pl \in PlatesOf(j) : Queueable(pl)}
        rows == nextPk..(nextPk + Cardinality(todo) - 1)
    IN  /\ p \in CompatiblePrinters(j)
        /\ todo # {} /\ rows \subseteq Pk
        /\ nextPk' = nextPk + Cardinality(todo)
        /\ \E n \in Positions(p), plateOf \in [rows -> todo] :
              /\ IsLastPosition(p, n)
              /\ \A a, b \in rows : a < b => plateOf[a] < plateOf[b]
              /\ queue' = [a \in Pk |->
                             IF a \in rows
                             THEN NewAttempt(plateOf[a], p, prio, n + 1 + a - nextPk, FALSE)
                             ELSE queue[a]]
        /\ UNCHANGED <<job, active, remote, starts, forms>>

(***************************************************************************)
(* Starting the next entry (start_next_for_printer), one step per          *)
(* transaction, printer call or autocommit write.                          *)
(***************************************************************************)

Go(s, label, a) == pc' = [pc EXCEPT ![s] = label] /\ target' = [target EXCEPT ![s] = a]

\* The claim transaction, for the entries that count as keeping the printer busy.
ClaimNext(s, p, busy) ==
    /\ pc[s] = "idle"
    /\ p \in active
    /\ On(p) \cap busy = {}
    /\ \E a \in Waiting \cap On(p) :
          /\ IsNext(queue, Waiting \cap On(p), a)
          /\ queue' = [queue EXCEPT ![a].claim = Stamp]
          /\ Go(s, "uploading", a)
    /\ UNCHANGED <<nextPk, job, active, remote, forms>>

\* Faults: start claims or unreviewed prints are overlooked.
StartDespiteClaim(s, p) == ClaimNext(s, p, Printing \cup InReview)
StartUnreviewed(s, p)   == ClaimNext(s, p, Printing \cup Claimed)

\* Every outcome but "started" changes nothing.
StartNext(s, p) == ClaimNext(s, p, Busy)

\* _release_claim: by primary key, whatever has become of the row.
ReleaseClaim(a) == queue' = IF a \in Rows THEN [queue EXCEPT ![a].claim = Null] ELSE queue

\* The upload or the start call raised.
StartFails(s) ==
    /\ pc[s] = "uploading"
    /\ ReleaseClaim(target[s])
    /\ Go(s, "idle", 0)
    /\ UNCHANGED <<nextPk, job, active, remote, forms>>

\* backend.start_print returned.
PrinterAccepts(s) ==
    /\ pc[s] = "uploading"
    /\ Go(s, "accepted", target[s])
    /\ UNCHANGED <<table, job, active, remote, forms>>

\* mark_started, first write.  Saving a row that is gone raises.
RecordStarted(s) ==
    /\ pc[s] = "accepted"
    /\ IF target[s] \in Rows
       THEN /\ queue' = [queue EXCEPT ![target[s]].started = Stamp, ![target[s]].claim = Null]
            /\ Go(s, "recorded", target[s])
       ELSE UNCHANGED queue /\ Go(s, "idle", 0)
    /\ UNCHANGED <<nextPk, job, active, remote, forms>>

\* mark_started, second write: the remote file name on the plate.  (A started row
\* goes only with its job, and then the plate is gone too: the save raises.)
RecordRemoteName(s) ==
    /\ pc[s] = "recorded"
    /\ remote' = remote \cup {pl \in Plates : target[s] \in Of(pl)}
    /\ Go(s, "idle", 0)
    /\ UNCHANGED <<table, job, active, forms>>

\* The process dies (gunicorn's worker timeout, a restart, a power cut).
Crash(s) ==
    /\ pc[s] # "idle"
    /\ Go(s, "idle", 0)
    /\ UNCHANGED <<table, job, active, remote, forms>>

\* Fault: a claim counts however old it is.
ClaimNeverExpires(a) == FALSE /\ a \in Claimed /\ UNCHANGED vars

\* A claim grows older than START_CLAIM_TIMEOUT.
ClaimExpires(a) ==
    /\ a \in Claimed
    /\ SlowUploads \/ \A s \in Starters : target[s] # a
    /\ queue' = [queue EXCEPT ![a].claim = Null]
    /\ UNCHANGED <<nextPk, job, active, remote, starts, forms>>

(***************************************************************************)
(* What happens to started attempts.                                       *)
(***************************************************************************)

\* mark_finished, for the attempts it may finish.
Finish(a, S) ==
    /\ a \in S
    /\ queue' = [queue EXCEPT ![a].completed = Stamp]
    /\ UNCHANGED <<nextPk, job, active, remote, starts, forms>>

\* Fault: the update is not restricted to printing attempts.
AnyOpenAttemptEnds(a) == Finish(a, Waiting \cup Printing)

\* The worker saw the end of the print, or Cancel was pressed.
AttemptEnds(a) == Finish(a, Printing)

\* adopt_external_print: the printer runs the file of a waiting entry's plate.
\* Which of several plates with the same file name it is, is left open here.
AdoptExternalPrint(a) ==
    /\ a \in Waiting
    /\ queue[a].plate \in remote
    /\ On(queue[a].printer) \cap (Printing \cup Claimed) = {}
    /\ queue' = [queue EXCEPT ![a].started = Stamp, ![a].claim = Null]
    /\ UNCHANGED <<nextPk, job, active, remote, starts, forms>>

\* resolve(passed=False): the failures of the cycle, this one included, decide.
MayRetry(a) == Cardinality(CycleFailures(queue[a].plate)) + 1 < MaxRetries

Retry(a) == NewAttempt(queue[a].plate, queue[a].printer, queue[a].priority, 0, TRUE)

\* review_queue_entry: a second review of the same entry finds it resolved.
Review(a, passed) ==
    /\ a \in InReview
    /\ IF passed
       THEN queue' = [queue EXCEPT ![a].result = "passed"] /\ UNCHANGED nextPk
       ELSE IF MayRetry(a)
       THEN /\ nextPk <= MaxAttempts
            /\ queue' = [queue EXCEPT ![a].result = "failed", ![nextPk] = Retry(a)]
            /\ nextPk' = nextPk + 1
       ELSE queue' = [queue EXCEPT ![a].result = "failed"] /\ UNCHANGED nextPk
    /\ UNCHANGED <<job, active, remote, starts, forms>>

(***************************************************************************)
(* Working on the queue.                                                   *)
(***************************************************************************)

\* PrintQueue.remove: delete what never started, keep the rest as cancelled.
AfterRemoval(a) == IF a \in Waiting THEN NoRow ELSE [queue[a] EXCEPT !.result = "cancelled"]

Remove(a, S) ==
    /\ a \in S
    /\ queue' = [queue EXCEPT ![a] = AfterRemoval(a)]
    /\ UNCHANGED <<nextPk, job, active, remote, starts, forms>>

\* Fault: an entry being started can be removed.
RemoveAnyAttempt(a) == Remove(a, Open)

\* PrintQueueDeleteView refuses an entry whose start is in progress.
RemoveAttempt(a) == Remove(a, Open \ Claimed)

MoveQueueEntry(a, t) ==
    /\ a \in Waiting
    /\ LET W == Waiting \cap On(queue[a].printer)
       IN  queue' = Moved(queue, W, a, ClampIndex(W, t))
    /\ UNCHANGED <<nextPk, job, active, remote, starts, forms>>

CloseJob(j) ==
    /\ job[j] = "open"
    /\ OfJob(j) \cap Busy = {}
    /\ ~Finished(j)
    /\ queue' = [a \in Pk |-> IF a \in OfJob(j) \cap Waiting THEN NoRow ELSE queue[a]]
    /\ job' = [job EXCEPT ![j] = "closed"]
    /\ UNCHANGED <<nextPk, active, remote, starts, forms>>

ReopenJob(j) ==
    /\ job[j] = "closed"
    /\ job' = [job EXCEPT ![j] = "open"]
    /\ UNCHANGED <<table, active, remote, starts, forms>>

\* The delete cascades to the plates and all of their attempts.
DeleteJob(j) ==
    /\ job[j] # "deleted"
    /\ OfJob(j) \cap Busy = {}
    /\ queue' = [a \in Pk |-> IF a \in OfJob(j) THEN NoRow ELSE queue[a]]
    /\ job' = [job EXCEPT ![j] = "deleted"]
    /\ remote' = remote \ PlatesOf(j)
    /\ UNCHANGED <<nextPk, active, starts, forms>>

SetActive(p) ==
    /\ active' = IF p \in active THEN active \ {p} ELSE active \cup {p}
    /\ UNCHANGED <<table, job, remote, starts, forms>>

-----------------------------------------------------------------------------
Enqueueing ==
    \/ \E pl \in Plates, p \in Printers : ValidateForm(pl, p)
    \/ \E pl \in Plates, p \in Printers, prio \in Priorities : SubmitForm(pl, p, prio)
    \/ \E j \in Jobs, p \in Printers, prio \in Priorities : EnqueuePlates(j, p, prio)

\* What a starter does once it holds a claim.
StarterStep(s) == StartFails(s) \/ PrinterAccepts(s) \/ RecordStarted(s) \/ RecordRemoteName(s)

Starting ==
    \/ \E s \in Starters, p \in Printers : StartNext(s, p)
    \/ \E s \in Starters : StarterStep(s)
    \/ \E s \in Starters : Crash(s)
    \/ \E a \in Pk : ClaimExpires(a)

Tracking ==
    \/ \E a \in Pk : AttemptEnds(a)
    \/ \E a \in Pk : AdoptExternalPrint(a)
    \/ \E a \in Pk, passed \in BOOLEAN : Review(a, passed)

Managing ==
    \/ \E a \in Pk : RemoveAttempt(a)
    \/ \E a \in Pk, t \in -1..MaxAttempts : MoveQueueEntry(a, t)
    \/ \E j \in Jobs : CloseJob(j)
    \/ \E j \in Jobs : ReopenJob(j)
    \/ \E j \in Jobs : DeleteJob(j)
    \/ \E p \in Printers : SetActive(p)

Next == Enqueueing \/ Starting \/ Tracking \/ Managing

Spec == Init /\ [][Next]_vars

\* start_next_for_printer runs to its end (every printer call has a timeout) or
\* its process dies, and time passes.
Fairness ==
    /\ \A s \in Starters : WF_vars(StarterStep(s))
    /\ \A a \in Pk : WF_vars(ClaimExpires(a))

FairSpec == Spec /\ Fairness

-----------------------------------------------------------------------------
(* Properties.                                                             *)

\* Every row has the columns and values of its table, also while requests interleave;
\* in particular a retry's priority stays one a user can choose.
TypeOK ==
    /\ queue \in [Pk -> Attempt \cup {NoRow}]
    /\ nextPk \in 1..(MaxAttempts + 1)
    /\ job \in [Jobs -> {"open", "closed", "deleted"}]
    /\ active \subseteq Printers
    /\ remote \subseteq Plates
    /\ pc \in [Starters -> {"idle", "uploading", "accepted", "recorded"}]
    /\ target \in [Starters -> Pk \cup {0}]
    /\ forms \subseteq Plates \X Printers

\* The facts of a row never contradict each other, so that the derived states
\* are exclusive: what is finished or resolved was started, and a start claim
\* (also the leftover of a crashed process) is only on a waiting entry.
RowsConsistent ==
    \A a \in Rows :
        /\ a < nextPk
        /\ queue[a].completed = Stamp => queue[a].started = Stamp
        /\ queue[a].result # "" => queue[a].completed = Stamp \/ queue[a].result = "cancelled"
        /\ queue[a].result # "" => queue[a].started = Stamp
        /\ queue[a].claim = Stamp => a \in Waiting

\* No operation runs into printqueue_one_open_attempt_per_plate other than the
\* two that handle it: in particular the retry of a review never does, whatever
\* was queued for the plate meanwhile.
OneOpenAttemptPerPlate ==
    \A a, b \in Open : queue[a].plate = queue[b].plate => a = b

\* A printer starts one print at a time: an entry being started (from the web,
\* the scheduler or the printer's display) excludes a second start and a
\* printing attempt on the same printer.
OneStartPerPrinter ==
    \A a, b \in Printing \cup Claimed : queue[a].printer = queue[b].printer => a = b

\* A start is never under way on a printer whose last print still awaits its
\* review: the parts may be on the bed.
BedReviewedBeforeStart ==
    \A a \in Claimed, b \in InReview : queue[a].printer # queue[b].printer

\* While a process uploads or has just started an entry, nobody removes, finishes
\* or claims that entry, and no second process starts it.
LiveStartsProtected ==
    \A s \in Starters :
        /\ pc[s] \in {"uploading", "accepted"} => target[s] \in Claimed
        /\ \A r \in Starters \ {s} : pc[s] # "idle" => target[r] # target[s]

\* A closed job prints nothing more, a deleted one leaves no attempts, however
\* closing and deleting race with forms, reviews, retries and starts.
ClosedJobQueuesNothing ==
    \A j \in Jobs : /\ job[j] # "open" => OfJob(j) \cap Open = {}
                    /\ job[j] = "deleted" => OfJob(j) = {}

\* Print history is never lost or rewritten: an attempt that was started stays,
\* on its plate and printer, until its whole job is deleted; a verdict is final.
HistoryIsPermanent ==
    [][\A a \in History :
          \/ job'[JobOf[queue[a].plate]] = "deleted"
          \/ /\ a \in History'
             /\ queue'[a].plate = queue[a].plate /\ queue'[a].printer = queue[a].printer
             /\ queue[a].result # "" => queue'[a] = queue[a]]_vars

\* A start claim never blocks a printer for good: whatever happens to the process
\* that holds it, it is resolved or expires.
StartSettles == \A a \in Pk : a \in Claimed ~> a \notin Claimed

\* services/queue.py:188-191: the retry is queued "first within its priority group".
RetryFirstInGroup ==
    [][\A r \in Rows' \ Rows :
          queue'[r].is_retry =>
            \A b \in Waiting' \ {r} :
               queue'[b].printer = queue'[r].printer /\ queue'[b].priority = queue'[r].priority
                  => Precedes(queue', r, b)]_vars

-----------------------------------------------------------------------------
(* The plates, seen without the rows behind them.                          *)

Stage(pl) == IF job[JobOf[pl]] = "deleted" THEN "gone" ELSE PlateState(pl)

Counts(pl) == Stage(pl) \notin {"gone", "completed"}

\* The failures counted before the open manual attempt of the plate was queued.
ReplacedFailures(pl) ==
    {a \in Of(pl) : /\ queue[a].result = "failed"
                    /\ \E o \in Of(pl) \cap Open : ~queue[o].is_retry
                    /\ \A m \in Of(pl) \ Open : ~queue[m].is_retry => m <= a}

Lifecycle == INSTANCE PlateLifecycle WITH
    stage    <- [pl \in Plates |-> Stage(pl)],
    failures <- [pl \in Plates |-> IF Counts(pl) THEN Cardinality(CycleFailures(pl)) ELSE 0],
    replaced <- [pl \in Plates |-> IF Counts(pl) THEN Cardinality(ReplacedFailures(pl)) ELSE 0]

\* The table of attempts implements the life cycle of plates: no interleaving of
\* requests, starters, events and reviews takes a plate along any other path.
PlatesFollowLifecycle == Lifecycle!Spec
=============================================================================
