------------------------------ MODULE SliceJob ------------------------------
(***************************************************************************)
(* Print jobs on their way from a draft to queued plates: requests that    *)
(* change, slice, re-slice and queue a job, and the worker that slices it  *)
(* in many small writes outside of any transaction.                        *)
(*                                                                         *)
(* Of the queue only what slicing depends on is kept (PrintQueue has the   *)
(* rest): whether a plate has an attempt that waits, is being started or   *)
(* is print history.  SlicingWorker shows that one worker works at a time. *)
(***************************************************************************)
EXTENDS Naturals, FiniteSets

CONSTANTS
    Jobs,
    Printers,
    Parts,
    Presets, Filaments,
    FirstSettings,  \* what every part is printed with at first
    Profiles,    \* resolved machine profiles
    MaxPlates,   \* bound: plates the slicer makes of a job
    MaxEdits,    \* bound: changes of the contents of jobs and of parts
    MaxRestarts, \* bound: starts of a process, after a crash or not
    None,        \* no printer, preset or profile
    NoJob

ASSUME BoundsAssumption == MaxPlates \in Nat \ {0} /\ MaxEdits \in Nat /\ MaxRestarts \in Nat
ASSUME NoneAssumption == None \notin Printers \cup Profiles /\ NoJob \notin Jobs

\* What a part is printed with: its effective print preset, None without one, and its filament.
Settings == [preset : Presets \cup {None}, filament : Filaments]

ASSUME SettingsAssumption == FirstSettings \in [Parts -> Settings]

Plates == 1..MaxPlates

\* What a job consists of: copies of parts (0 of a part that is not in it), the machine
\* profile, and the preset it is pinned to.
Contents == [copies : [Parts -> 0..MaxEdits + 1], profile : Profiles \cup {None},
             preset : Presets \cup {None}]

PartsIn(c) == {x \in Parts : c.copies[x] > 0}
NoContents == [copies |-> [x \in Parts |-> 0], profile |-> None, preset |-> None]

VARIABLES
    status,     \* "absent", "draft", "pending", "slicing", "sliced", "failed", or "deleted"
    closed,     \* jobs with closed_at
    contents,   \* job_parts, machine_profile and print_preset
    edits,      \* changes of contents and settings so far
    settings,   \* of every part
    retouched,  \* jobs and parts of theirs that were edited while in the job (for a property only)
    plates,     \* plate numbers with a row
    cut,        \* the last slicing's [contents, plates]
    attempt,    \* of each plate: "none", "waiting", "claimed" or "history"
    printer,    \* of a plate's waiting attempt
    wish,       \* requeue_printer
    hint,       \* jobs with a requeue_error
    usable,     \* printers that are active and fit the job
    asked,      \* jobs with a slice request that has checked their status
    step,       \* of the worker: "idle", "claimed", "slicing", "writing" or "finishing"
    work,       \* its copy of the job: [job, contents, written, left]
    restarts, owed,  \* starts of processes so far; is one due after a crash?
    overtaken   \* jobs with plates of a slicing that a slice request has overtaken (for a property only)

content  == <<contents, edits, settings, retouched>>
jobs     == <<status, closed, content, plates, cut>>
queue    == <<attempt, printer>>
requeue  == <<wish, hint>>
worker   == <<step, work>>
restart  == <<restarts, owed>>
vars     == <<jobs, queue, requeue, usable, asked, worker, restart, overtaken>>

NoWork == [job |-> NoJob, contents |-> NoContents, written |-> {}, left |-> {}]

InProgress == {"pending", "slicing"}

With(j, state) == {k \in Plates : attempt[j][k] = state}
Attempts(j)    == {k \in Plates : attempt[j][k] # "none"}

NoAttempts == [k \in Plates |-> "none"]

-----------------------------------------------------------------------------
Init ==
    /\ status = [j \in Jobs |-> "absent"]
    /\ closed = {}
    /\ contents = [j \in Jobs |-> NoContents]
    /\ edits = 0
    /\ settings = FirstSettings /\ retouched = {}
    /\ plates = [j \in Jobs |-> {}]
    /\ cut = [j \in Jobs |-> [contents |-> NoContents, plates |-> {}]]
    /\ attempt = [j \in Jobs |-> NoAttempts]
    /\ printer = [j \in Jobs |-> [k \in Plates |-> None]]
    /\ wish = [j \in Jobs |-> None]
    /\ hint = {}
    /\ usable = Printers
    /\ asked = {}
    /\ step = "idle" /\ work = NoWork
    /\ restarts = 0 /\ owed = FALSE
    /\ overtaken = {}

(***************************************************************************)
(* Requests that change or slice a job.                                    *)
(***************************************************************************)

Exists(j) == status[j] \notin {"absent", "deleted"}

CanReslice(j) == j \notin closed /\ Attempts(j) = {}

\* Fault: the slicing states are not checked.
ContentsAlwaysEditable(j) == Exists(j) /\ CanReslice(j)

\* can_change_contents, on the locked row
CanChangeContents(j) == Exists(j) /\ status[j] \notin InProgress /\ CanReslice(j)

\* A part must have the job's preset and, as they are now, the filament of its parts; a
\* draft without a preset is pinned to that of its first part, also when all are removed.
Accepts(c, x) ==
    /\ settings[x].preset # None
    /\ c.preset \in {None, settings[x].preset}
    /\ \A y \in PartsIn(c) : settings[y].filament = settings[x].filament

WithPart(c, x) ==
    [c EXCEPT !.copies[x] = @ + 1, !.preset = IF @ = None THEN settings[x].preset ELSE @]

MayEdit == edits < MaxEdits /\ edits' = edits + 1

Create(j, c) ==
    /\ MayEdit
    /\ status[j] = "absent"
    /\ status' = [status EXCEPT ![j] = "draft"]
    /\ contents' = [contents EXCEPT ![j] = c]
    /\ UNCHANGED <<closed, settings, retouched, plates, cut, queue, requeue, usable, asked, worker, restart,
                   overtaken>>

\* A draft by the form, without parts.
CreateJob(j, profile) == Create(j, [NoContents EXCEPT !.profile = profile])

\* A draft for a group of parts of a project that can be printed together (one copy
\* stands for the number that remains to be printed).
Group(x) == {y \in Parts : settings[y] = settings[x]}

CreateJobFromProject(j, x) ==
    /\ settings[x].preset # None
    /\ \E some \in SUBSET Group(x) :
          /\ some # {}
          /\ Create(j, [NoContents EXCEPT !.preset = settings[x].preset,
                                         !.copies = [y \in Parts |-> IF y \in some THEN 1 ELSE 0]])

\* A sliced or failed job is a draft again when its contents change (discard_slicing).
ChangeContents(j, c) ==
    /\ MayEdit
    /\ CanChangeContents(j)
    /\ contents' = [contents EXCEPT ![j] = c]
    /\ retouched' = {q \in retouched : q[1] = j => q[2] \in PartsIn(c)}
    /\ status' = [status EXCEPT ![j] = "draft"]
    /\ plates' = [plates EXCEPT ![j] = {}]
    /\ hint' = IF status[j] = "draft" THEN hint ELSE hint \ {j}
    /\ UNCHANGED <<closed, settings, cut, queue, wish, usable, asked, worker, restart, overtaken>>

AddPart(j, x) ==
    IF status[j] = "absent"
    THEN settings[x].preset # None /\ Create(j, WithPart(NoContents, x))
    ELSE Accepts(contents[j], x) /\ ChangeContents(j, WithPart(contents[j], x))

RemovePart(j, x) ==
    /\ x \in PartsIn(contents[j])
    /\ ChangeContents(j, [contents[j] EXCEPT !.copies[x] = 0])

SetProfile(j, profile) ==
    /\ profile # contents[j].profile
    /\ ChangeContents(j, [contents[j] EXCEPT !.profile = profile])

\* Parts are edited without a look at the jobs they are in, in whatever state these are.
ChangeSettings(new) ==
    /\ MayEdit
    /\ new # settings
    /\ settings' = new
    /\ retouched' = retouched \cup
          {q \in Jobs \X Parts : q[2] \in PartsIn(contents[q[1]]) /\ new[q[2]] # settings[q[2]]}
    /\ UNCHANGED <<status, closed, contents, plates, cut, queue, requeue, usable, asked, worker, restart, overtaken>>

\* The form of a part, or the API.
EditPart(x, new) == ChangeSettings([settings EXCEPT ![x] = new])

\* The default preset of a project, for the parts that inherit it.
EditDefault(some, preset) ==
    ChangeSettings([x \in Parts |-> IF x \in some THEN [settings[x] EXCEPT !.preset = preset] ELSE settings[x]])

\* What the slice requests check before anything else.
CanBeSliced(c) == c.profile # None /\ PartsIn(c) # {}

\* PrintJobSliceView reads the status in one step ...
AskForSlicing(j) ==
    /\ status[j] \in {"draft", "sliced", "failed"}
    /\ CanBeSliced(contents[j])
    /\ asked' = asked \cup {j}
    /\ UNCHANGED <<jobs, queue, requeue, usable, worker, restart, overtaken>>

\* ... and queues the job in another, whatever its status is then.  Several requests
\* may have read it before one of them queues.
QueueForSlicing(j) ==
    /\ j \in asked
    /\ asked' \in {asked, asked \ {j}}
    /\ IF Exists(j) /\ CanReslice(j)
       THEN /\ status' = [status EXCEPT ![j] = "pending"]
            /\ plates' = [plates EXCEPT ![j] = {}]
            /\ attempt' = [attempt EXCEPT ![j] = NoAttempts]
            /\ wish' = [wish EXCEPT ![j] = None]
            /\ hint' = hint \ {j}
            /\ overtaken' = IF work.job = j THEN overtaken \cup {j} ELSE overtaken
       ELSE UNCHANGED <<status, plates, attempt, requeue, overtaken>>
    /\ UNCHANGED <<closed, content, cut, printer, usable, worker, restart>>

CanResliceAndRequeue(j) ==
    /\ status[j] = "sliced"
    /\ Attempts(j) # {} /\ Attempts(j) = With(j, "waiting")

\* The waiting attempts on a printer that can still print the job.
Votes(j, p) == {k \in With(j, "waiting") : printer[j][k] = p /\ p \in usable}

\* The printer with most of them is remembered.  (Of several the one of the oldest
\* attempt: left open here.)
StartResliceAndRequeue(j) ==
    /\ CanResliceAndRequeue(j)
    /\ \E p \in usable :
          /\ Votes(j, p) # {}
          /\ \A q \in usable : Cardinality(Votes(j, q)) <= Cardinality(Votes(j, p))
          /\ wish' = [wish EXCEPT ![j] = p]
    /\ attempt' = [attempt EXCEPT ![j] = NoAttempts]
    /\ plates' = [plates EXCEPT ![j] = {}]
    /\ status' = [status EXCEPT ![j] = "pending"]
    /\ hint' = hint \ {j}
    /\ UNCHANGED <<closed, content, cut, printer, usable, asked, worker, restart, overtaken>>

\* PrintJobResliceRequeueView
ResliceAndRequeue(j) == CanBeSliced(contents[j]) /\ StartResliceAndRequeue(j)

(***************************************************************************)
(* The worker.                                                             *)
(***************************************************************************)

WorkerStep(here, there) == step = here /\ step' = there

\* The claim of the worker loop.
ClaimJob(j) ==
    /\ WorkerStep("idle", "claimed")
    /\ status[j] = "pending"
    /\ status' = [status EXCEPT ![j] = "slicing"]
    /\ work' = [NoWork EXCEPT !.job = j]
    /\ overtaken' = IF plates[j] = {} THEN overtaken \ {j} ELSE overtaken
    /\ UNCHANGED <<closed, content, plates, cut, queue, requeue, usable, asked, restart>>

\* Reads the job and its parts.
ReadJob ==
    /\ WorkerStep("claimed", "slicing")
    /\ status[work.job] # "deleted"
    /\ work' = [work EXCEPT !.contents = contents[work.job]]
    /\ UNCHANGED <<jobs, queue, requeue, usable, asked, restart, overtaken>>

\* A G-code file or an archive with at least one; plates are numbered in the order of
\* the names in the archive.
Answers == {1..n : n \in Plates}

\* The slicer has returned some plates; the job is read again.  (Without parts the
\* worker has failed before.)
SlicerReturns ==
    /\ WorkerStep("slicing", "writing")
    /\ status[work.job] # "deleted"
    /\ PartsIn(work.contents) # {}
    /\ \E numbers \in Answers : work' = [work EXCEPT !.left = numbers]
    /\ UNCHANGED <<jobs, queue, requeue, usable, asked, restart, overtaken>>

\* The wish is dropped and a hint is left.
AbandonRequeue(j) ==
    /\ wish' = [wish EXCEPT ![j] = None]
    /\ hint' = IF wish[j] = None THEN hint ELSE hint \cup {j}

\* An error on the way: the job has failed, with whatever it wished for.  A
\* deleted job ends the work here, too.
Fail ==
    /\ step # "idle" /\ step' = "idle" /\ work' = NoWork
    /\ LET j == work.job
       IN  IF status[j] = "deleted" THEN UNCHANGED <<status, requeue>>
           ELSE status' = [status EXCEPT ![j] = "failed"] /\ AbandonRequeue(j)
    /\ UNCHANGED <<closed, content, plates, cut, queue, usable, asked, restart, overtaken>>

\* The next plate row, in plate order, each written on its own.
SavePlate(k) ==
    LET j == work.job
    IN  /\ WorkerStep("writing", IF work.left = {k} THEN "finishing" ELSE "writing")
        /\ status[j] # "deleted"
        /\ k \in work.left /\ \A m \in work.left : k <= m
        /\ plates' = [plates EXCEPT ![j] = @ \cup {k}]
        /\ work' = [work EXCEPT !.left = @ \ {k}, !.written = @ \cup {k}]
        /\ UNCHANGED <<status, closed, content, cut, queue, requeue, usable, asked, restart, overtaken>>

\* Fault: plates of an earlier, unfinished slicing are no obstacle.
WriteOverLeftovers == \E k \in Plates : SavePlate(k)

\* The unique constraint refuses a number that is already there.
WritePlate == \E k \in Plates : SavePlate(k) /\ k \notin plates[work.job]

\* Fault: the printer is not checked again.
AnyPrinter(j) == wish[j] # None

MayRequeue(j) == wish[j] \in usable

\* All plates go to the remembered printer, or a hint says why not.
RequeueAfterSlicing(j) ==
    /\ wish' = [wish EXCEPT ![j] = None]
    /\ IF MayRequeue(j)
       THEN /\ attempt' = [attempt EXCEPT ![j] =
                  [k \in Plates |-> IF k \in plates[j] /\ @[k] = "none" THEN "waiting" ELSE @[k]]]
            /\ printer' = [printer EXCEPT ![j] = [k \in Plates |-> wish[j]]]
       ELSE UNCHANGED queue
    /\ hint' = IF wish[j] = None THEN hint
               ELSE IF MayRequeue(j) THEN hint \ {j} ELSE hint \cup {j}

\* The new status and the re-queueing of all plates are one transaction.  (The
\* parts on each plate were recorded before: without their plate that fails, unless
\* the G-code did not tell which parts they are.)
FinishJob ==
    LET j == work.job
    IN  /\ WorkerStep("finishing", "idle")
        /\ work' = NoWork
        /\ status[j] # "deleted"
        /\ status' = [status EXCEPT ![j] = "sliced"]
        /\ cut' = [cut EXCEPT ![j] = [contents |-> work.contents, plates |-> work.written]]
        /\ RequeueAfterSlicing(j)
        /\ UNCHANGED <<closed, content, plates, usable, asked, restart, overtaken>>

(***************************************************************************)
(* Processes die and start.                                                *)
(***************************************************************************)

CrashWorker ==
    /\ restarts < MaxRestarts /\ ~owed
    /\ step # "idle" /\ step' = "idle" /\ work' = NoWork
    /\ owed' = TRUE
    /\ UNCHANGED <<jobs, queue, requeue, usable, asked, restarts, overtaken>>

\* Fault: jobs in slicing are left alone.
RecoverNothing ==
    /\ restarts < MaxRestarts /\ restarts' = restarts + 1 /\ owed' = FALSE
    /\ UNCHANGED <<jobs, queue, requeue, usable, asked, worker, overtaken>>

\* A starting process puts every job in slicing back, also one that a worker in
\* another process is slicing.
Recover ==
    /\ restarts < MaxRestarts /\ restarts' = restarts + 1 /\ owed' = FALSE
    /\ status' = [j \in Jobs |-> IF status[j] = "slicing" THEN "pending" ELSE status[j]]
    /\ UNCHANGED <<closed, content, plates, cut, queue, requeue, usable, asked, worker, overtaken>>

(***************************************************************************)
(* The queue and the job list.                                             *)
(***************************************************************************)

\* One plate by a form or all of them by enqueue_plates.
EnqueueSome(j, some, p) ==
    /\ status[j] = "sliced" /\ j \notin closed /\ p \in usable
    /\ some # {} /\ some \subseteq plates[j] \ Attempts(j)
    /\ attempt' = [attempt EXCEPT ![j] = [k \in Plates |-> IF k \in some THEN "waiting" ELSE @[k]]]
    /\ printer' = [printer EXCEPT ![j] = [k \in Plates |-> IF k \in some THEN p ELSE @[k]]]
    /\ hint' = hint \ {j}
    /\ UNCHANGED <<jobs, wish, usable, asked, worker, restart, overtaken>>

\* A print start: claimed, then started or released; or a removal from the queue.
AttemptMoves(j, k, from, to) ==
    /\ attempt[j][k] = from
    /\ attempt' = [attempt EXCEPT ![j][k] = to]
    /\ UNCHANGED <<jobs, printer, requeue, usable, asked, worker, restart, overtaken>>

CloseJob(j) ==
    /\ status[j] = "sliced" /\ j \notin closed /\ With(j, "claimed") = {}
    /\ closed' = closed \cup {j}
    /\ attempt' = [attempt EXCEPT ![j] =
                      [k \in Plates |-> IF @[k] = "waiting" THEN "none" ELSE @[k]]]
    /\ UNCHANGED <<status, content, plates, cut, printer, requeue, usable, asked, worker, restart, overtaken>>

ReopenJob(j) ==
    /\ j \in closed
    /\ closed' = closed \ {j}
    /\ UNCHANGED <<status, content, plates, cut, queue, requeue, usable, asked, worker, restart, overtaken>>

DeleteJob(j) ==
    /\ Exists(j) /\ With(j, "claimed") = {}
    /\ status' = [status EXCEPT ![j] = "deleted"]
    /\ closed' = closed \ {j}
    /\ plates' = [plates EXCEPT ![j] = {}]
    /\ attempt' = [attempt EXCEPT ![j] = NoAttempts]
    /\ wish' = [wish EXCEPT ![j] = None]
    /\ hint' = hint \ {j}
    /\ UNCHANGED <<content, cut, printer, usable, asked, worker, restart, overtaken>>

\* A printer is (de)activated or gets another machine profile.
SetUsable(p) ==
    /\ usable' = IF p \in usable THEN usable \ {p} ELSE usable \cup {p}
    /\ UNCHANGED <<jobs, queue, requeue, asked, worker, restart, overtaken>>

-----------------------------------------------------------------------------
Claiming == \E j \in Jobs : ClaimJob(j)

Working == ReadJob \/ SlicerReturns \/ WritePlate \/ FinishJob \/ Fail

Requests ==
    \E j \in Jobs :
        \/ \E profile \in Profiles \cup {None} : CreateJob(j, profile) \/ SetProfile(j, profile)
        \/ \E x \in Parts : CreateJobFromProject(j, x) \/ AddPart(j, x) \/ RemovePart(j, x)
        \/ AskForSlicing(j) \/ QueueForSlicing(j) \/ ResliceAndRequeue(j)
        \/ CloseJob(j) \/ ReopenJob(j) \/ DeleteJob(j)
        \/ \E p \in Printers :
              \/ \E k \in Plates : EnqueueSome(j, {k}, p)
              \/ EnqueueSome(j, plates[j] \ Attempts(j), p)

Editing ==
    \/ \E x \in Parts, new \in Settings : EditPart(x, new)
    \/ \E some \in SUBSET Parts, preset \in Presets \cup {None} : EditDefault(some, preset)

Printing ==
    \E j \in Jobs, k \in Plates :
        \/ AttemptMoves(j, k, "waiting", "claimed")
        \/ AttemptMoves(j, k, "claimed", "waiting")
        \/ AttemptMoves(j, k, "claimed", "history")
        \/ AttemptMoves(j, k, "waiting", "none")

Next ==
    \/ Claiming \/ Working \/ CrashWorker \/ Recover
    \/ Requests \/ Editing \/ Printing
    \/ \E p \in Printers : SetUsable(p)

Spec == Init /\ [][Next]_vars

\* A worker with a job goes on (the slicer's calls have a timeout), and a dead process is
\* replaced.  That a worker comes for a pending job is not assumed: SlicingWorker shows how
\* none may.
Fairness == WF_vars(Working) /\ WF_vars(owed /\ Recover)

FairSpec == Spec /\ Fairness

-----------------------------------------------------------------------------
(* Properties.                                                             *)

Work == [job : Jobs \cup {NoJob}, contents : Contents, written : SUBSET Plates, left : SUBSET Plates]

\* Every job and plate has the values of its columns; plates are numbered from 1, as
\* the check constraint on plate_number demands.
TypeOK ==
    /\ status \in [Jobs -> {"absent", "draft", "pending", "slicing", "sliced", "failed", "deleted"}]
    /\ closed \subseteq Jobs
    /\ contents \in [Jobs -> Contents] /\ edits \in 0..MaxEdits
    /\ settings \in [Parts -> Settings] /\ retouched \subseteq Jobs \X Parts
    /\ plates \in [Jobs -> SUBSET Plates]
    /\ cut \in [Jobs -> [contents : Contents, plates : SUBSET Plates]]
    /\ attempt \in [Jobs -> [Plates -> {"none", "waiting", "claimed", "history"}]]
    /\ printer \in [Jobs -> [Plates -> Printers \cup {None}]]
    /\ wish \in [Jobs -> Printers \cup {None}]
    /\ hint \subseteq Jobs /\ usable \subseteq Printers
    /\ asked \subseteq Jobs /\ overtaken \subseteq Jobs
    /\ step \in {"idle", "claimed", "slicing", "writing", "finishing"}
    /\ work \in Work
    /\ restarts \in 0..MaxRestarts /\ owed \in BOOLEAN

\* The parts of a job as they were when the job took them.
Untouched(j) == {x \in PartsIn(contents[j]) : <<j, x>> \notin retouched}

\* What can be queued and printed was sliced from the contents the job shows: no edit of
\* the job slips in between the worker's copy and its result, and none changes a queued
\* job.  Nor does any series of edits mix parts in it (the worker slices all with the
\* job's preset and the first one's filament), unless a part was edited in the job.
PlatesFitContents ==
    \A j \in Jobs : status[j] = "sliced" \/ Attempts(j) # {} =>
        /\ cut[j].contents = contents[j]
        /\ \A x, y \in Untouched(j) :
              settings[x].preset = contents[j].preset /\ settings[x].filament = settings[y].filament

\* views/print_jobs.py:686: "All parts in a job must use the same preset and filament."
SlicedJobIsOfOneKind ==
    \A j \in Jobs : status[j] = "sliced" =>
        \A x, y \in PartsIn(contents[j]) :
            settings[x].preset = contents[j].preset /\ settings[x].filament = settings[y].filament

\* A sliced job has the plates of its last slicing, all of them and no others, unless
\* a slice request has overtaken that slicing; also after a crash between two plates.
SlicedJobIsComplete ==
    \A j \in Jobs : status[j] = "sliced" /\ j \notin overtaken => plates[j] = cut[j].plates

\* models/printing.py:193-195: "After slicing, each plate of G-code is stored on a
\* PrintJobPlate child object".
EverySlicedJobIsComplete == \A j \in Jobs : status[j] = "sliced" => plates[j] = cut[j].plates

\* A wish is never lost silently: it ends with all plates waiting on a usable
\* printer, with a hint, or because the job was deleted or sliced for good.
WishIsAnswered ==
    [][\A j \in Jobs : wish[j] # None /\ wish'[j] = None =>
          \/ status'[j] = "sliced" /\ wish[j] \in usable
                /\ \A k \in plates'[j] : attempt'[j][k] = "waiting" /\ printer'[j][k] = wish[j]
          \/ status'[j] \in {"sliced", "failed"} /\ j \in hint'
          \/ status'[j] \in {"pending", "deleted"}]_vars

\* A job queued for slicing ends sliced or failed, however often processes restart, unless
\* it waits for good for a worker that could claim it at any time.  None stays in slicing.
SlicingEnds ==
    \A j \in Jobs : []<>(status[j] \notin InProgress) \/ <>[](ENABLED ClaimJob(j))
=============================================================================
