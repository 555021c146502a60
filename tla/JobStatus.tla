------------------------------ MODULE JobStatus ------------------------------
(***************************************************************************)
(* The derived states of plates, attempts and jobs, twice: as properties   *)
(* in Python, which walk over the loaded attempts of a plate, and as SQL   *)
(* annotations, with which lists filter and count without loading them.    *)
(* A page may use either, and the guards of forms and buttons rely on both.*)
(*                                                                         *)
(* PrintQueue has the Python side of plates (PlateState, CycleFailures)    *)
(* and the steps that change what is derived; all jobs there are sliced.   *)
(***************************************************************************)
EXTENDS PrintQueue

-----------------------------------------------------------------------------
(* Python: the properties of PrintJobPlate and PrintJob.                   *)

\* The oldest attempt without a result.
IsOpenAttempt(pl, a) == a \in Of(pl) \cap Open /\ \A b \in Of(pl) \cap Open : a <= b

HasActiveAttempt(pl) == \E a \in Printing \cup InReview : IsOpenAttempt(pl, a)

IsClosed(j)     == job[j] = "closed"
PrintStarted(j) == OfJob(j) # {}

In(j, state) == {pl \in PlatesOf(j) : PlateState(pl) = state}

DisplayStatus(j) ==
    LET completed == In(j, "completed")
        failed    == In(j, "failed")
    IN  IF \E pl \in PlatesOf(j) : HasActiveAttempt(pl) THEN "printing"
        ELSE IF completed = PlatesOf(j)                 THEN "completed"
        ELSE IF IsClosed(j)                             THEN "closed"
        ELSE IF ~PrintStarted(j)                        THEN "ready"
        ELSE IF failed # {} /\ completed \cup failed = PlatesOf(j) THEN "partially_failed"
        ELSE "in_progress"

FinishedStatuses == {"completed", "partially_failed", "closed"}

IsFinished(j) == DisplayStatus(j) \in FinishedStatuses

\* blocks_job_delete, attempt by attempt
BlocksJobDelete(a) ==
    /\ queue[a].result = ""
    /\ queue[a].started = Stamp \/ queue[a].completed = Stamp \/ queue[a].claim = Stamp

CanDelete(j) == \A a \in OfJob(j) : ~BlocksJobDelete(a)
CanClose(j)  == ~IsClosed(j) /\ CanDelete(j) /\ ~IsFinished(j)
CanChangeContents(j) == ~IsClosed(j) /\ ~PrintStarted(j)

IsQueueable(pl) ==
    PlateState(pl) \in {"not_queued", "failed"} /\ ~IsClosed(JobOf[pl])

-----------------------------------------------------------------------------
(* SQL: the annotations and filters of the query sets.                     *)

\* Fault: the attempts are sorted the wrong way round.
FirstManual(pl) ==
    {m \in Of(pl) : ~queue[m].is_retry /\ \A n \in Of(pl) : ~queue[n].is_retry => m <= n}

\* The last attempt queued by a user, as a set: a subquery may have no row.
LastManual(pl) ==
    {m \in Of(pl) : ~queue[m].is_retry /\ \A n \in Of(pl) : ~queue[n].is_retry => n <= m}

\* Coalesce(..., 0): without a manual attempt all failures count.
AnnotatedFailures(pl) ==
    {a \in Of(pl) : queue[a].result = "failed" /\ \A m \in LastManual(pl) : m <= a}

AnnotatedState(pl) ==
    LET open == Of(pl) \cap Open
    IN  IF \E a \in Of(pl) : queue[a].result = "passed"       THEN "completed"
        ELSE IF \E a \in open : queue[a].completed = Stamp    THEN "awaiting_review"
        ELSE IF \E a \in open : queue[a].started = Stamp      THEN "printing"
        ELSE IF \E a \in open : queue[a].claim = Stamp        THEN "starting"
        ELSE IF open # {}                                     THEN "waiting"
        ELSE IF Cardinality(AnnotatedFailures(pl)) >= MaxRetries THEN "failed"
        ELSE "not_queued"

\* No Coalesce: without a manual attempt the comparison is with NULL and counts none.
RetryCount(a) ==
    Cardinality({f \in Of(queue[a].plate) :
                   queue[f].result = "failed" /\ \E m \in LastManual(queue[a].plate) : m <= f})

\* job_completed_plates asks for passed attempts, job_failed_plates for the plate state.
AnnotatedDisplayStatus(j) ==
    LET completed == {pl \in PlatesOf(j) : \E a \in Of(pl) : queue[a].result = "passed"}
        failed    == {pl \in PlatesOf(j) : AnnotatedState(pl) = "failed"}
        plates    == Cardinality(PlatesOf(j))
    IN  IF OfJob(j) \cap (Printing \cup InReview) # {}        THEN "printing"
        ELSE IF plates > 0 /\ Cardinality(completed) = plates THEN "completed"
        ELSE IF IsClosed(j)                                   THEN "closed"
        ELSE IF OfJob(j) = {}                                 THEN "ready"
        ELSE IF failed # {} /\ plates = Cardinality(completed) + Cardinality(failed)
             THEN "partially_failed"
        ELSE "in_progress"

JobDeleteBlocked(j) == OfJob(j) \cap Busy # {}

\* The dashboard: how many jobs a list filtered by a display status would show.
JobsShown(statuses) == Cardinality({j \in Jobs : job[j] # "deleted" /\ AnnotatedDisplayStatus(j) \in statuses})

JobCounts ==
    [completed_jobs        |-> JobsShown({"completed"}),
     partially_failed_jobs |-> JobsShown({"partially_failed"}),
     active_jobs           |-> JobsShown({"printing", "in_progress"})]

CompletedPlates == {pl \in Plates : \E a \in Of(pl) : queue[a].result = "passed"}

\* The jobs that keep their parts from being deleted, those with print history apart.
BlockingPartDelete ==
    {j \in Jobs : \/ AnnotatedDisplayStatus(j) \notin FinishedStatuses
                  \/ job[j] = "closed" /\ OfJob(j) = {}}

ContentsEditable == {j \in Jobs : job[j] = "open" /\ OfJob(j) = {}}

-----------------------------------------------------------------------------
(* Properties.                                                             *)

\* Whatever happened to its plates, a job shows the same in a list as on its own page:
\* both derivations of plate states, retries, display status and what is refused agree
\* (with_state, with_retry_count, with_display_status: "same value as ...").  That the
\* SQL may ask for any open attempt where Python takes the oldest, and may do without a
\* manual attempt, needs that no plate has two open ones and no retry comes first.
\* A part of any job is kept by one of two guards: unfinished jobs, or print history.
DerivedStatesAgree ==
    /\ JobCounts.completed_jobs + JobCounts.partially_failed_jobs
         = Cardinality({j \in Jobs : job[j] # "deleted" /\ IsFinished(j) /\ DisplayStatus(j) # "closed"})
    /\ JobCounts.active_jobs = Cardinality({j \in Jobs : job[j] # "deleted" /\ ~IsFinished(j) /\ PrintStarted(j)})
    /\ \A j \in {i \in Jobs : job[i] # "deleted"} :
        /\ j \in BlockingPartDelete \/ PrintStarted(j)
        /\ AnnotatedDisplayStatus(j) = DisplayStatus(j)
        /\ JobDeleteBlocked(j) <=> ~CanDelete(j)
        /\ CanClose(j) <=> job[j] = "open" /\ OfJob(j) \cap Busy = {} /\ ~Finished(j)
        /\ j \in ContentsEditable <=> CanChangeContents(j)
        /\ \A pl \in PlatesOf(j) :
              /\ AnnotatedState(pl) = PlateState(pl)
              /\ pl \in CompletedPlates <=> PlateState(pl) = "completed"
              /\ Queueable(pl) <=> IsQueueable(pl)
        /\ \A a \in OfJob(j) : RetryCount(a) = Cardinality(CycleFailures(queue[a].plate))
=============================================================================
