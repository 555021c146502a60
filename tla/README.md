# LayerNexus in TLA+

LayerNexus is a Django application that takes 3D-printing projects from model
files to finished prints: it estimates and slices parts, collects them in print
jobs, queues the plates of a job on printers, uploads them through Moonraker,
follows the prints and asks an operator for a verdict. This directory holds
TLA+ models of the parts of it that are concurrent or intricate, their TLC
runs, and proofs for the TLA+ proof system.

Paths below are relative to the repository (`core/...` is `src/core/...`).

## 1. The system

Several operating-system processes share one SQLite database and one media
directory:

- three gunicorn processes with one request each (`Dockerfile`: `--workers 3`,
  sync workers killed after 30 s), and in at most one of them the OrcaSlicer
  worker thread;
- the `moonraker_worker` process: an asyncio loop with one WebSocket listener
  per printer, the scheduler of planned starts and the printer-side dialogs;
- outside: Moonraker on each printer, the orca-slicer API, Spoolman.

Every transaction is IMMEDIATE (`layernexus/settings.py`), so transactions are
serial; what is not in one transaction interleaves freely. This is the step
granularity of all models: one action is one transaction, one autocommit write
or one call to the outside.

| Component | State | Operations | Interacts with | What makes it hard, and what makes it correct |
|---|---|---|---|---|
| Print queue (`models/queue.py`, `services/queue.py`, `models/printing.py`) | one row per print attempt: start, finish, claim, result; no status column, all states derived | queue by form or in bulk, start, cancel, finish, adopt, review with retry, remove, move, close, reopen, delete | printers (upload), status sync, scheduler, slicing | a start spans an upload outside of a transaction; crashes and claims that expire; forms validated earlier; states derived in Python and again in SQL. Correct: facts of a row fit, one open attempt per plate, one start per printer and only onto a reviewed bed, history is permanent, both derivations agree, no claim blocks for ever |
| Queue order (`services/queue.py`) | priority and position of waiting rows | add, retry, move, remove | print queue | sorted by priority first, positions with gaps and ties. Correct: a move does what the list shows |
| Status synchronisation (`services/printer_status_sync.py`) | none of its own | end a print, adopt a print started elsewhere, record excluded objects | WebSocket events, print queue | repeated and late events, ambiguous file names. Correct: no event ends or adopts the wrong attempt, none is missed |
| Printer connection (`services/moonraker*.py`) | connection, subscription, last frame | connect, subscribe, snapshot, watchdog | worker process, printer | events lost while disconnected or not subscribed, replies lost |
| Worker process (`commands/moonraker_worker.py`) | a task per printer | reconcile, respawn, stop | connection, scheduler | configuration that changes between awaits. Correct: one listener per printer, which ends up with the stored configuration |
| Scheduled starts (`services/scheduled_start.py`) | one row per schedule | schedule, move, cancel, run due | print queue, worker | several callers, users and deaths. Correct: started at most once, as it stands in the table, and decided in the end |
| Printer-side dialog (`services/operator_dialog.py`, `moonraker_operator_ui.py`) | prompt shown on the printer, review believed open | start, verdict, menu | print queue | prompts that are out of date, double presses, lost scripts. Correct: verdicts are final, only the offered plate is started, a review is offered, stale dialogs go |
| Slicing of jobs (`services/slicing_worker.py`, `views/print_jobs.py`, `models/printing.py`) | status of a job, its parts and plates, the re-queue wish | create, edit, slice, re-slice and re-queue, finish, fail | worker, queue | the worker works on copies and writes in many small steps; requests check early. Correct: what is queued was sliced from what the job shows, wishes are answered, no job stays in slicing |
| OrcaSlicer worker (`services/slicing_worker.py`, `apps.py`) | a flag per process, a file lock | start, claim, hand over, stop, recover | requests of every process | items queued just when the worker stops; deaths. Correct: one worker, nothing left behind |
| Estimation of parts (`models/parts.py`, `slicing_worker.py`) | estimate and its status | edit, request, claim, finish, fail, abort, recover | worker, projects, profiles | edits in two writes, results that are out of date. Correct: an estimate is of the present model and preset, a request is answered |
| Printed quantities (`models/parts.py`, `models/queue.py`) | parts on plates, exclusions | record, correct, derive | queue, slicing, printer | copies spread over plates and attempts; pages loaded earlier. Correct: the count is what was printed, the overview adds up to it |
| Project tree (`models/projects.py`) | parent, quantity, preset of each project | edit, move, copy, delete, derive needs | parts, presets, files | concurrent moves, whole-row saves. Correct: a forest, proper roots, history kept, all pages agree |
| Media files (`signals.py`, `models/file_copy.py`) | files and references | copy, replace, delete on commit, clean up | projects, parts, plates | a reference copied while the file is deleted. Correct: what is referred to exists |
| G-code objects, 3MF (`services/gcode_objects.py`, `threemf.py`) | none | number objects, assign printed objects to copies | slicing | two derivations of one numbering |
| OrcaSlicer profiles (`services/profile_import.py`) | profile rows, pending or resolved | import, resolve, rebuild, delete | slicing | any order of imports, circles, former names. Correct: nothing waits for what is there, the slicer is sent what is shown |
| Printers, costs, hardware; Spoolman; REST API; views, forms, roles; migrations and deployment | rows | CRUD | all | little state of their own |

`PROJECT.json` lists each of them with its files and its status, and, under
`hazards`, what is hard to test in this code, at its line, with the properties
that cover it or the reason why none does.

## 2. Modules

    QueueOrder          the execution order and a manual move, as operators
      PrinterQueue      one printer's waiting rows; Moved against the list operations
      PrintQueue        the table of attempts and everybody who works on it
        JobStatus       states of attempts, plates and jobs, in Python and in SQL
          MCPrintQueue  instances for TLC
        PrintQueueProofs  with JobStatus, the refinement of PlateLifecycle included
    PlateLifecycle      what the queue promises about a plate (abstract); PrintQueue refines it
    PrinterSync         one printer, its notifications, and the attempts they end or begin
      MCPrinterSync, PrinterSyncProofs
    ScheduledStart      the table of schedules and its callers
      MoonrakerWorker   the worker process: reconciler and scheduler composed
    OperatorDialog      the prompt on the printer, the worker's memory of it, the queue
        MoonrakerProofs  of both: the worker process and its dialogs
    SlicingWorker       threads, flags, the file lock, crashes and recovery
    SliceJob            one job between editing, slicing, re-queueing and printing
      MCSliceJob
        SlicingProofs  of both: the worker's threads and the job they slice
    PartEstimates       rows of parts between edits, the worker and restarts
    PrintedCopies       objects, plates, attempts, exclusions, and the count
      MCPrintedCopies
        PrintedCopiesProofs
    ProjectTree         projects and their files under concurrent requests
      ProjectNeeds      what the pages derive from the tree
        MCProjectTree
      ProjectTreeProofs
    ProfileImport       profiles, their parents, and what is sent to the slicer
      MCProfileImport
        OrcaSlicerProofs  of the estimates and of the profiles
    FiniteSums          sums and products over finite sets, least numbers: lemmas of the proofs

### PrintQueue and JobStatus

`queue` is the table (`NoRow` under a primary key without a row, `nextPk` its
AUTOINCREMENT), a row has the columns of `PrintQueue` with timestamps reduced to
present or not. `job` is the life of a job beyond slicing, `active` is
`PrinterProfile.is_active`, `remote` the plates whose `remote_job_id` is known.
`pc` and `target` are the local state of each process inside
`start_next_for_printer`; `forms` are queue forms that passed validation and have
not been saved.

The derived sets (`Open`, `Waiting`, `Printing`, `InReview`, `Claimed`, `Busy`,
`History`) are the filters of `PrintQueueQuerySet`; `PlateState`, `Queueable`
and `Finished` are the derived states of plates and jobs. One action per
operation: `ValidateForm` and `SubmitForm` are the two halves of the queue
form, `EnqueuePlates` is the bulk operation; `StartNext`, `PrinterAccepts`,
`RecordStarted`, `RecordRemoteName`, `StartFails`, `Crash` and `ClaimExpires`
are the steps of a start; `AttemptEnds` and `AdoptExternalPrint` are the effects of printer
events and of Cancel; `Review` is the verdict with its retry; the rest is
queue management.

Times are not numbers: `ClaimExpires` may happen whenever a claim exists. Unless
`SlowUploads` is set, it happens only to claims whose process has died or
finished, i.e. an upload takes less than `START_CLAIM_TIMEOUT` (10 minutes).
The code does not enforce that in the worker process, hence the constant; the
runs and the theorems that need it say so.

`JobStatus` has the states of attempts, plates and jobs a second time, as the
SQL annotations and filters compute them, and `DerivedStatesAgree` compares
them with the Python properties in every state of the table.

### PrinterQueue and QueueOrder

`QueueOrder` holds the sort key and `Moved`, the rows after a manual move, with
the priority the moved row adopts. `PrinterQueue` says on sequences what the
Python list operations do (`PopInsert`) and compares. `PrintQueue` uses the
same `Moved`, so what is checked about order is about the operator the big
model uses.

### PlateLifecycle

The abstract promise: stages of a plate, the steps between them, and a counter
of failures that decides between another try and giving up. No rows, claims or
processes. `PrintQueue!PlatesFollowLifecycle` is the refinement; `stage` is
mapped to the derived plate state, the counters to the failures since the last
manual attempt.

### PrinterSync

Both sides of a connection. On one side the printer (`printer`: Klipper's
`print_stats` and the number of the print, `disk`: whose G-code each file
holds), which LayerNexus and people at its screen start, and which ends, fails
or restarts when it likes; these actions are external. On the other side the
database: `attempt` has for each plate its latest attempt with the stage
derived by `PrintQueue.state` (completed and not reviewed is `review`),
`remote` tells which `remote_job_id` are stored, `earlier` the order of the
plates' last `started_at`. In between: `wire`, the notifications on their way,
`connection`, the worker's WebSocket, `current`, its `current_filename`, and
`handler`, the three steps of `_handle_event_for_printer`, each with its own read of the database: `Receive`
(`_load_active_queue_entry`), `Adopt` (`adopt_external_print`) and `Apply`
(`apply_status_event`, with the history event and the status event apart).
`starter` is the local state of `start_next_for_printer`, `canceller` that of
`CancelQueueEntryView`.

A notification is the set of fields that changed, others are `Silent`. One
progress report stands for all of them, since the code asks only whether any
progress was recorded (`_ends_attempt`). "paused" is a case of "printing";
complete, cancelled and error are "over", because the code treats them alike.

A connection is lost, open or subscribed. Changes of Moonraker's history reach
every open connection, changes of status only subscribers (`IsSent`).
`Disconnect` and `TaskLost` lose what is on its way, the latter also what the
task remembered; `Connect` opens a connection, `Subscribed` delivers
`Snapshot` (`snapshot_event`, which leaves out the states that end a print).
`FirmwareRestart` makes the printer forget the print and drops the
subscription, which the worker then renews.

Assumptions about time are named constants. `Timely`: notifications are
handled (milliseconds) before a start that happens later is recorded and before
G-code is uploaded after a later print, and no print ends before its start is
recorded. Without it a late event of the previous print may end the attempt
that has just been started: the code compares file names (`_is_attempt_file`),
and these are equal for retries. `LostReplies`: the reply to an accepted start
may be lost. `OneAttemptOnPrinter` is proved for either value of both.

The variables in `history` (`unheard`, `aborted`, `untold`), the `run` of an
attempt or a notification, `gcode` and `refused` do not influence the behaviour;
they tell the properties which print something is about.

### ScheduledStart and MoonrakerWorker

`ScheduledStart` is the table `ScheduledQueueStart` and its callers: `Schedule`
and `Cancel` are the two views, a caller reads the due rows once (`ReadDue`),
then claims one after the other by an update that repeats what was read
(`Claim`), calls `start_next_for_printer` (`CallStart`) and stores the outcome
(`StoreOutcome`). It may die after any write; the row then keeps the
provisional outcome. The clock is a number; `QuickDatabase` says that it stands
still between a caller's reads and writes, and is set in no run.

`MoonrakerWorker` composes that with the process that contains one of the
callers. `config` is the version of a printer's configuration in the database,
`tasks` are the asyncio tasks, `active` the reconciler's map. `LoadSnapshots`,
`Prune`, `Spawn` and `EndSweep` are a pass of `_reconcile_printers`; between
them the configuration changes (`EditPrinter`), tasks crash (`Crash`), cancelled
ones take their time (`Unwind`), a query fails (`AbortSweep`), and the process
dies with its tasks and its caller (`WorkerDies`). A second caller is a worker
of a container that is being replaced.

### OperatorDialog

Three states that follow each other: the queue (`status`, `next`, reduced from
PrintQueue), the `prompt` on the screen, and `open_review_pk`, the review the
worker believes to be open. `inbox` are button echoes and ends of prints on
their way to the lock, `job` is what is done under it: `Take`, then
`HandleReview`, `HandleStart` with `StartSucceeds` or `StartFails`, `HandleMenu`,
`ShowNextJob` or, for the end of a print, `OnReviewPending`, and the script that
shows the dialog (`Delivered` or `SendFails`). `CloseIfStale` looks after the
open review. `Press` is one button, or two on two screens; `WebStep` is what the
web pages do to the queue meanwhile. `Restart` takes what is under way along;
the database thread of an action goes on (`DetachedActs`), and so may a script
already sent (`AdriftArrives`).
`forgotten` remembers, for a property, that a start has forgotten an open review.

### SlicingWorker

Each process has a flag, at most one thread and a lock holder among all
processes. `thread[p]` is the place of the thread in `_orcaslicer_worker_loop`:
trying for the lock (`acquire`, `locked`, `sleep`), working (`pick`, `work`), the
last look (`final`), the hand-over to a new thread (`handOver`), giving the lock
and the flag back (`release`, `clear`), giving up (`giveUp`). `release` and
`clear` hold the in-process lock, which `StartWorker` waits for. `unborn` is a
flag whose thread could not be started. `boot` is the recovery a process runs
when it starts. Faults are database errors and failing thread starts, at the
places where the code catches (or does not catch) them; a crash frees the file
lock and takes the thread along.

The result of the work is abstract: a job ends sliced or failed whatever was
done to its status, a part's result counts only while it is still being
estimated, or the part goes back to none, or is left alone (`Outcomes`).

### SliceJob

Jobs with `status`, `contents` (copies of each part, machine profile, pinned
preset), plates, and of each plate's attempt only what slicing depends on.
`CreateJob`, `CreateJobFromProject`, `AddPart`, `RemovePart` and `SetProfile`
are the requests that change the contents; `Accepts` is the rule that a part
which joins a job has the job's preset and the filament its parts have then.
`settings` are the present preset and filament of every part. The part's form
and the API (`EditPart`) and a project's default preset (`EditDefault`) change
them without a look at the jobs the part is in, whatever the state of these;
`retouched` remembers which parts were edited in which job, for the property
that says what the rule achieves. `AskForSlicing` and `QueueForSlicing` are the
early status check of `PrintJobSliceView` and its transaction. The worker
claims, reads, waits for the slicer, writes plate after plate and finishes, each
a step of its own; between any two of them requests run, a process starts
(`Recover` puts every job in slicing back, also a live one), or the worker dies.
`cut` remembers what the last slicing was made from and produced, `overtaken`
the jobs whose slicing was overtaken; like `retouched`, neither influences the
behaviour. `Claiming` is the worker's step onto a pending job, `Working` are the
steps after it.
An attempt that is printing, in review or resolved is `history`. Closing is
allowed for finished jobs, too, and any of several printers with equally many
attempts may win the vote: the model permits more than the code.

### PartEstimates

`row` is the table of parts, with the stored estimate reduced to what it was
`made` from (model and preset) and the preset it names. `default` is the preset
the parts of a project inherit, `machine` says whether a resolved machine
profile can be used. Requests are processes: they read a row (`Read`), save the
whole row (`SaveForm`, `SavePatch`), copy a part (`Copy`) and then, in a second
write, clear or queue the estimate (`Trigger`, `Requeue`); a changed preset of a
project re-queues its subtree (`EditProject`, `RequeueSubtree`), a re-estimate
of a project queues its parts one after the other (`ListParts`, `QueueListed`).
The worker claims (`Claim`), reads and looks for a machine (`LoadPart`), and
finishes, fails or aborts (`Estimating`); `StartProcess` and `RequeueStuck` are
the recovery.

`Timely` (unless `StaleReads`) says that a request saves the row as it was read
and that no request reads between the two writes of another one: requests are
short and the worker's own results are protected by their condition. Without it
a whole-row save brings an old state back, see section 6.

### PrintedCopies

A slicing bundles every mesh of every copy as an object. `Written` is the order
in which `threemf.py` writes them, `BundleObjects` the mapping it derives apart
from it, `PlateParts` the rows recorded from the labels of the G-code. `layout`
is what the slicer did, chosen in the initial state; `LayoutsAssumption` says
that it left at least one plate, as an answer without G-code is an error
(`services/orcaslicer.py:656`). `attempt` has the rows
from their start on ("void" is failed or removed), `spoiled` what was excluded
on the printer, `heard` an update the worker is handling, `page` the review or
exclusions page open in a browser. `PrintedInJob` is `_printed_in_job`,
`OverviewTotal` the sum of `Part.printed_plates`. Every attempt has a printer of
its own. A plate is not printed again once an attempt has passed (`MayQueue`);
the code checks that when a form is validated, but not when it is saved
(`PrintQueue!MaySave`), so that a stale form can lead to a second passed attempt
of a plate. Such plates are left out here.

### ProjectTree and ProjectNeeds

`node` has the rows, `request` the progress of edits and copies: `LoadEdit`
reads, `SaveForm`, `PatchParent` and `PatchFields` check and save the whole row
in one transaction; `BeginCopy`, `CopyFiles` and `InsertCopy` read the subtree,
duplicate its files and insert the rows. `used` says whether parts of a project
are in an unfinished job or have print history (`UseParts`; `BookPrinted` and
`RemoveBooking` are the manual records). `stored`, `doomed` and `scanned` are the files,
those a request removes after its commit and those the running clean-up
command found; one file per project stands for its image, its documents and the
files of its parts.

Named assumptions: `ParentIsCurrent` (unless `StaleMoves`) and `FileIsCurrent`
(unless `StaleFiles`): a save does not write a parent or file name back that
others have changed since it was read. `FreshNames`: a new file does not get the
name of one whose second removal is under way. `Age`: the clean-up's minimum age
is longer than a copy takes. A copy reads its subtree at once. `DeleteDoomed` and
`CleanUp` take the look for references and the removal in one step; between the
two there is a short gap in the code (`signals.py:83-84`, `commands/cleanup_orphan_media.py:136-139`), in which a
reference may appear. A request that writes one copied the file before, or is one
of those `FileIsCurrent` excludes.

`ProjectNeeds` adds what the pages derive on every tree of that model: the
multipliers, the progress, the filament and the hardware. Every project has one
part with an estimate and one assignment of hardware; a part with print history
has `PrintedQuantity` copies printed. The projects above one, which the code
collects on its way up, are those it is below (`Ancestors`). Quantities are at
least 1 (the constraint `project_quantity_gte_1`), and a table has finitely many
rows (`QuantityAssumption`).

### ProfileImport

`table` has the profiles of one user, a row per type and name: the code looks
parents up among the profiles of the same user only. A file names its parent and
may state a former name, which may well be the present name of another profile;
both are chosen with each upload. `FindParent` prefers the present name, and of
several rows with the same former name takes the first in the order of the names
shown (`Rank`, fixed for a profile). An import is a sequence of separate queries
and saves: `Upload` (by one of three pages), `Decide`, `SavePending` or
`SaveResolved`, `FindChildren` and `ResolveChild` until nothing waits below.
`ResolveFails` and `LookupFails` are the two places at which the loop over the
children logs an exception and goes on, `Break` is an exception elsewhere or the
end of the process. `Overlapping` lets imports of two processes interleave.

`slicer` puts a profile together for a slicing, a query at a time and beside
the imports: `StartRebuild`, `Climb` from parent to parent, `EndRebuild`,
`CallSlicer`. What is stored with a profile and what is sent are different
merges of the same kind of files. For each setting a file has a plain value, an
empty one, one that cannot be parsed, or none (`Setting`); `Laid` is what is
stored when the file is parsed and laid over its parent, which drops values that
cannot be parsed and empty ones of the parent, `Overridden` what the slicer gets,
where the later file wins with whatever it says. `Stored` and `Sent` are these
along a chain of files.

`replaced` and `neglected` are histories, for the properties: whether a profile
was uploaded again or deleted, or took another one's place as a parent, and what
was left undone by a failure or by a parent that left its children to another.

## 3. Runs

Times are of two TLC workers on a small machine.

| Run | Instance | Distinct states | What it shows |
|---|---|---|---|
| `queue` | 2 starters, 2 printers, 1 job of 2 plates, 3 rows, symmetry | 243 k | one start per printer, onto a reviewed bed; a running start is protected, through crashes and expiring claims |
| `lifecycle` | 1 starter, 1 printer, 2 plates, 3 rows, 1 stale form | 364 k | refinement of `PlateLifecycle`; one open attempt per plate; nothing queued for closed jobs; Python and SQL derive the same states; no claim stays for ever |
| `printer_order` | 4 rows, 3 priorities | 10 k | moves follow the list |
| `slicing_worker` | 2 processes, 1 job, 1 part, 1 retry, 2 requests, 1 crash, 1 fault | 446 k | one worker; no orphaned job; pending items are picked |
| `slice_job` | 1 job, 2 parts, at first of 2 presets, 2 filaments, up to 2 plates, 2 printers, 3 edits of the job or of its parts, 2 process starts | 3.78 M | what is queued fits the contents, and what was not edited in the job fits together; sliced jobs are complete; wishes are answered; slicing ends if a worker comes |
| `printer_sync` | 2 plates of one file name, 2 prints, 1 loss of the connection or subscription, 1 new attempt, 2 notifications on their way, symmetry | 8.34 M | no attempt ends before its print; no end is missed; the plate is the right one among equal file names |
| `part_estimates` | 2 parts, 2 projects, 2 presets, 2 models, 2 requests, 2 edits, 1 process start | 1.73 M | estimates are of the present model and preset; estimating parts are under way; estimates settle if a worker comes |
| `project_tree` | 4 projects (2 at the start), 2 quantities, 1 preset, 2 files, 2 requests, 3 edits, symmetry | 952 k | the tree stays a forest with proper roots; printed projects are kept; files exist; the pages agree on what is needed |
| `moonraker_worker` | 1 printer, 2 callers, 2 schedules, clock to 2, 1 death, 1 edit, 1 crash | 471 k | schedules start at most once and are decided; one listener, which follows the configuration |
| `operator_dialog` | 2 entries, 3 presses, 1 lost message, 1 restart of the task | 730 k | only the offered plate starts; verdicts are final; a review is offered; stale dialogs go |
| `profile_import` | 3 names (1 also as a former name; 1 whose file states no type), 3 types, 3 uploads, 1 failure | 2.73 M | nothing waits for a parent that is there, but for failures; the slicer is sent what is shown |
| `printed_copies` | 1 part of 2 meshes, 2 copies, 4 layouts, 2 attempts, 1 excluded object, the pages of 2 operators, symmetry | 1.24 M | the count is backed by what was printed; the overview adds up; no reported exclusion is lost unseen |

Why the bounds are enough: two starters are the smallest number that can
collide, and collisions of three reduce to pairs since every check is about
"another" start. Three rows are two plates and a retry, the least with which a
retry meets another entry of the printer. Two printers matter only where an entry can be on the
wrong one. One stale form is enough to be overtaken by each other operation,
because a form reads once and writes once. Four rows with three priorities have
all ways an entry can have neighbours of higher, equal and lower priority on
both sides. For the file lock, two processes contain every contender of a lock
holder; one retry is the smallest number for which retrying is distinguishable
from giving up; the job and the part have both priorities. Two plates of a sliced
job have a first, a last and a "between" for a crash; two process starts allow one
recovery of a dead worker and one beside a live worker; three edits create a job
and change it twice, which is what it takes to mix two parts or to unpin a preset.

On a printer, the second print is the one that earlier notifications may be
mistaken for; its earlier life is in the initial states (which plates were
printed, in which order), so two plates and one file name give every case of the
choice among equal names. Two notifications on their way are those of one step
of the printer, in both orders, and one loss of the connection is a loss at
every point.

Two concurrent requests, two models and two presets are a value and another one
for every comparison of `PartEstimates`; at first one part waits
for its estimate, the second one comes from a copy. Four projects are two pairs moved
below each other, or a copy of a subtree of two; three edits are two moves and
the step that would find them inconsistent. Two schedules of a printer and two
callers are a schedule that is moved after one caller has read it and another
one that is due with it; one edit, crash and death each fall on every await.
Three presses are a double press and a late one, two entries the one shown and
the one next. Three uploads are a chain of three
in any order, or a child, a parent that has only once had the name the child
states, and the one that has it; a failure falls on each of their steps. (With a
fourth upload, no failure and all files of type "process", 7.49 million states,
the properties hold, too.) A slicer that goes
round in a circle is stopped after `MaxChain` files, more than there are profiles. Two
attempts are both plates, or one plate and a second try of it, each of which an
operator may have open while the other one corrects it; two copies of two meshes are
the least whose objects can be numbered in a wrong order or split over plates.

All of these bounds are CONSTANTS or guards named in the modules
(`MaxAttempts`, `MaxForms`, `MaxEntries`, `MaxRequests`, `MaxCrashes`,
`MaxFaults`, `MaxEdits`, `MaxRestarts`, `MaxRuns`, `MaxWire`, `MaxLosses`,
`MaxRows`, `MaxTime`, `MaxLateness`, `MaxDeaths`, `MaxPresses`, `MaxFailures`,
`MaxUploads`, `MaxChain`, `MaxSpoiled`, `MaxPlates`). The proofs of section 5 do not depend on
their values.

Deadlock checking is off in all configurations: with the bounds used up, and in
the program itself, the system may stop (nobody queues anything any more).

### Fairness

- `PrintQueue!Fairness`: a process inside `start_next_for_printer` goes on (its
  HTTP calls have time limits) or dies, and time passes for claims. Nothing is
  assumed of users, printers or events.
- `SlicingWorker!WorkerFairness`: threads run, a request that queued an item reaches
  the start of the worker, gunicorn replaces dead processes and these recover.
  Requests and crashes are not assumed to happen.
- `SliceJob!Fairness`: a worker that has claimed the job goes on (the slicer
  calls have time limits) and a process that died is replaced. It may still fail
  at every step. That a worker comes for a pending job is not assumed, as the
  code does not guarantee it (see section 6, number 2): `SlicingEnds` excepts a
  job that a worker could claim from some moment on (`ENABLED ClaimJob`), and
  none does.
- `PartEstimates!FairSpec`: a worker that has claimed the part goes on, a process
  that has started runs its recovery, and a request that has saved reaches its
  second write. `EstimatesSettle` makes the same exception for a pending part.
- `MoonrakerWorker!FairSpec`: the reconciler and the scheduler of the worker
  loop, each of their awaits returns, and a cancelled task unwinds. Nothing is
  assumed of users, of the clock or of the other caller.
- `OperatorDialog!DialogFairSpec`: what holds the lock goes on, and the look after
  stale dialogs, a loop in the printer's task, comes round. Nobody has to press
  anything.

`SlicingWorker!TryAgain` waits for other processes to be out of `release`: the
code sleeps half a second there, far longer than the two calls in question take.
Without it the retry, which exists for that window, would show nothing.

## 4. Properties

Each property has a comment where it is defined. The most important ones:

- `OneStartPerPrinter`, `BedReviewedBeforeStart`, `LiveStartsProtected`: mutual
  exclusion on a printer across processes, crashes, claims and adoption.
- `OneOpenAttemptPerPlate`, `ClosedJobQueuesNothing`: the table's integrity
  whatever interleaves.
- `PlatesFollowLifecycle`, `DerivedStatesAgree`, `StartSettles`: the retries of
  a plate, its states derived twice, and no claim that blocks for ever.
- `MoveFollowsTheList`.
- `EndedPrintsAreOver`, `NoEndIsMissed`, `SharedNamesAreToldApart`: the table
  agrees with the printer, as far as notifications allow. `NoEndIsMissed` names
  what the code cannot know: ends while it is not subscribed, and firmware
  restarts before any progress.
- `StartedAsScheduled`, `DueIsDecided`; `OneListener`, `ListenersFollowConfig`.
- `StartsWhatWasOffered`, `VerdictsAreFinal`, `ReviewIsOffered`,
  `StaleDialogGoes`: the latter two while no message is lost and no task restarts.
- `OneWorker`, `NoOrphanedJob`, `PendingIsPicked`.
- `PlatesFitContents` (one preset and filament of the parts that were not edited
  in the job), `SlicedJobIsComplete`, `WishIsAnswered`, `SlicingEnds`.
- `EstimateIsOfThePresentModel`, `EstimatingIsUnderWay`, `EstimatesSettle`.
- `CountIsBacked` (for a known assignment of objects, and attempts whose
  exclusions reached the application and were not corrected by hand),
  `OverviewAddsUp`, `ExclusionsAreSeen` (of the first correction of an attempt:
  among two operators who correct it the later one wins).
- `Forest`, `RootsAreProper`, `HistoryIsKept`, `ReferencedFilesExist`, and
  `NeedsAgree`, stated while no request is under way.
- `PendingHasAReason` (between imports) and `ShownIsSent` (also while imports go
  on, until a profile is uploaded again, deleted or supplanted as a parent).

Every property is accompanied by a mutant: next to the definition it breaks
there is one marked `Fault:`, a plausible bug of that code, which the run
detects when it takes the definition's place.

## 5. Proofs

All theorems hold for every value of the constants (any number of plates,
printers, processes, parts, projects and rows) under the named assumptions of
the modules.

| Theorem | Module | Argument |
|---|---|---|
| `TypeCorrect` | PrintQueueProofs | inductive as it stands; lemmas on `Moved`, on new rows and on stamping a row |
| `RowsAlwaysConsistent`, `AtMostOneOpenAttempt`, `ClosedJobsStayClosed` | PrintQueueProofs | together as `Consistent`. None is inductive alone: that a retry finds no other open attempt of its plate follows from the first two for the reviewed row, and that it finds its job open from the third. Every step keeps each row (`Kept`) or inserts it where no other is open (`Fresh`). Hold for slow uploads, too |
| `HistoryStays` | PrintQueueProofs | action property, from `TypeOK /\ Consistent`, one row at a time |
| `OneStartAtATime`, `StartsOnReviewedBed`, `LiveStartsStayProtected` | PrintQueueProofs | assume `SlowUploads = FALSE`. `Exclusive` adds `TargetsKnown` (what a process remembers of its entry): a record or a release of a claim is harmless only because the entry is still claimed by that process, and an ended print leaves no claim behind because there was no second one |
| `ListsAndPagesAgree` | PrintQueueProofs | the SQL asks for an open attempt, the Python property looks at the newest one; they agree by `Cycles`: an open attempt is the newest of its plate, a retry that is not the first follows a failed one, and failures since the last manual attempt stay within `max_attempts` while one is open. `Cycles` needs `Consistent`; counting uses the cardinality theorems on the attempts since the last manual one |
| `PlatesAlwaysFollowLifecycle` | PrintQueueProofs | the refinement of `PlateLifecycle`, plate by plate: the initial table is an initial state of every plate, and each action is classified by what it does to the newest row of a plate (nothing, stamps, verdict, a new manual row, a retry, a removal); each class is one step of the life cycle or a stutter. From `Consistent /\ Cycles` |
| `WorkerTypes`, `OneWorkerAtATime`, `FlagTellsThread` | SlicingProofs | `Exclusion`, lock and flag together: a thread starts on a lowered flag and takes the lock afterwards |
| `SlicingJobsAttended` | SlicingProofs | inductive with `TypeOK`: whoever takes a job into "slicing" works on it or has died and not recovered |
| `SliceTypes`, `PlatesAlwaysFit`, `SlicedJobsAreComplete` | SlicingProofs | `SliceInv`: only the worker takes a job out of slicing, so what it has read stays the contents of the row (`WorkFitsContents`); what is sliced was cut from them; plates are those the worker has written, or begin with plate 1 and make the first write fail (`PlatesAreWritten`). That is why leftovers of a crash never become part of a sliced job. `JobsAreOfOneKind` speaks of every job, sliced or not: the parts in it that were not edited since they joined have its preset and one filament; `Accepts` compares a new part with them as they are, an edit of a part takes it out. No assumption |
| `WishesAreAnswered` | SlicingProofs | action property, from `SliceInv` |
| `OneAttempt` | PrinterSyncProofs | starts and adoptions exclude each other on a printer: an adoption looks for claims, and a start records only while its claim stands (`ClaimHeld`), which nobody but the start itself gives up while it runs |
| `EndedPrints` | PrinterSyncProofs | assumes `Timely`. `EndInv` speaks of every notification on its way and of the one being handled: their runs are in order and known, one that reports an end is about a print that is over, none is older than the print that is recorded, and a printer that has been restarted reports standby before any progress of the next print (`StandbyFirst`). The steps are those of `_handle_event_for_printer`, each with its own read |
| `NoEndMissed` | PrinterSyncProofs | assumes `Timely`. `MissInv`, on top of `EndInv`: whatever tells of a start is followed on the wire by what tells of the end, unless the print runs or its end is known as unheard or aborted (`StartsEnd`), and so is every attempt that is printing (`EndsCome`). That the attempt takes the report of the end for its own needs `FilesKnown`: there is one file name per print that the attempt, the history and the worker's `current_filename`, once it has read what is on the wire, agree on. `AbortIsTold`: after a firmware restart a subscriber is told standby after any progress. `PrinterReports` says once what all steps of the printer and a subscription have in common |
| `SharedNamesToldApart` | PrinterSyncProofs | action property, assumes `Timely`. `GcodeInv`, on top of the two before: the last start the table tells of a name is what the printer holds, but for files whose upload left no start or no name behind (`TableTells`), and so is every print whose start is on its way (`StartsAreTold`). It needs that what is being printed is not replaced (`PrintsTheDisk`), and that a notification of an earlier print still on its way means that nothing has been uploaded since (`LaterFromDisk`). That plates with a name are ordered by their starts is all that is used of `earlier` |
| `EstimateIsOfThePresentModelAlways`, `EstimatingIsUnderWayAlways` | OrcaSlicerProofs | assume `StaleReads = FALSE`. `EstimateInv` is `Shape /\ SeenIsConsistent /\ RowInv`: what a request has in memory is a row that fits, and while a part is estimating the worker slices the model the part has, which an edit can change only by taking the part out of "estimating" or by leaving its own second write due |
| `ForestAlways`, `HistoryIsKeptAlways` | ProjectTreeProofs | `TreeInv`: parents exist, what requests hold in memory are rows, what has history exists, and the projects form a forest, the last one if `StaleMoves = FALSE`. `MoveKeepsForest`: a move to a place outside its own subtree keeps a forest, by `SubtreeFacts` (a subtree is closed under children and is the least such set). The code walks down the tree; stated on sets of projects, the proof needs no induction over a path. `ForestAlways` assumes `StaleMoves = FALSE`, `HistoryIsKeptAlways` nothing |
| `RootsAreProperAlways` | ProjectTreeProofs | assumes `StaleMoves = FALSE`. A copy of a sub-project inherits the preset the code finds walking up. `PresetIsFound`: of the projects above it that are below every one above with a preset, the least is where the walk ends; `TopsAreProper` carries that every root has a preset and is needed once |
| `NeedsAlwaysAgree` | ProjectTreeProofs | assumes `StaleMoves = FALSE`. In a forest the way up from a project is that from its parent and the project (`LineIs`), so that a walk down, started with the multiplier of its top, multiplies to the multiplier of every project it meets (`WalkIsChain`): every page has the same row for a part. What is printed up to its need and what remains add up to the need (`NeedIsMetOrMissing`), and a percentage rounded down is 100 only if they are equal (`FullPercent`). The trees below the children of a project are disjoint (`SubtreeIs`), so that hardware adds up (`FiniteSums!SumOfParts`, `SumTimes`). Inductions go over the tree: a set that contains the top and with a project its sub-projects is the whole tree (`TreeInduction`, from `Forest`) |
| `ReferencedFilesExistAlways` | ProjectTreeProofs | assumes `StaleFiles = FALSE`. `StoreInv`: what a row or a request names is stored, and what is doomed or scanned is named by neither. `RowsWritten` and `FilesRemoved` are the two ways a step can break it. Holds for stale moves, too |
| `ProfileTypes`, `PendingHasAReasonAlways` | OrcaSlicerProofs | the latter assumes `Overlapping = FALSE`. `Covered`: a row that waits although its parent is resolved is in the memory of the one import under way (`SoleImport`), or neglected; an import gives up only on a row whose parent is missing or waits (`GivesUpRightly`). Failures are allowed at every step, former names may be anybody's |
| `ShownIsSentAlways` | OrcaSlicerProofs | assumes `Overlapping = FALSE`. `Stacked`: until something is replaced, the files in the settings of a resolved row are those of its present parent and its own (`WorkIsCurrent` says the same of what an import has read). `ClimbIsOnTheWay`: the slicer has taken off as many files as it has collected; it meets no name twice, since every row it has met has more files below it. So it collects just the files the stored settings were made of, and `MergesAgree`: along one chain of files the two merges differ only where nothing is stored (`NumberInduction` over the files) |
| `CopiesTypes`, `ExclusionsAlwaysSeen` | PrintedCopiesProofs | `PageShows`: until an attempt is corrected, its open page lists the exclusions it has now; `Numbered`: and the page numbers the objects as the attempt does. No further assumption |
| `OverviewAlwaysAddsUp` | PrintedCopiesProofs | the rows of one copy list different objects (`OneRowEach`) and together all objects of the copy (`EveryObjectListed`), so that what the rows add up to is the cardinality of a set (`FiniteSums!SumOfCardinalities`). A copy is complete if the plates with its objects have succeeded and none of them is excluded on the attempt that counts for a plate |
| `CountAlwaysBacked` | PrintedCopiesProofs | the mapping kept with the bundle numbers the objects as the bundle was written (`Numbering`: the objects before a part's meshes are those of the parts before it, whatever the order of their keys), so do the page and the worker (`Numbered`), and what is excluded by name is what has been spoiled (`ExcludedAsNamed`). Then complete copies inject into what has come out well, and copies that miss an object into what has been spoiled |
| `StartedAsScheduledAlways` | MoonrakerProofs | `ScheduleInv`: a row that somebody executes is not pending, nobody else executes it, and its counter says whether it was started. No assumption |
| `OneListenerAlways` | MoonrakerProofs | `ListenerInv` adds that tasks have different names (`NamedApart`) and that a printer the reconciler is about to start has no running task (`TodoIsUnwatched`). No assumption |
| `DialogTypes`, `StartsWhatWasOfferedAlways`, `VerdictsAreFinalAlways` | MoonrakerProofs | `DialogInv`: the next entry waits, and an entry the task uploads is claimed and alone on the printer (`UploadIsAlone`). `QueueMove` lists what any step, of the dialog or of the web pages, does to the queue. No assumption |

The library's induction theorems take an operator as a parameter, which the
provers cannot instantiate. FiniteSums goes round that with sets in its place:
a non-empty set of numbers has a least member (`LeastNumber`, from the
well-foundedness of `<`), a set of numbers that contains 0 and every successor
is `Nat` (`NumberInduction`), and likewise for the finite subsets of a set
(`SubsetInduction`). What is to be shown of every number is put into such a set.

Only model-checked:

- liveness (`StartSettles`, `PendingIsPicked`, `SlicingEnds`, `EstimatesSettle`,
  `DueIsDecided`, `ListenersFollowConfig`, `ReviewIsOffered`,
  `StaleDialogGoes`): fairness and ENABLED are out of the prover's reach;
- what sorted sequences contain: `MoveFollowsTheList`.

## 6. Where code and documentation disagree

None of these is part of a run; each is stated by the definition named, and TLC
finds the behaviour with the constants given.

1. `PrintQueue!RetryFirstInGroup` (one job of two plates, one printer, one
   starter, `MaxAttempts = 5`, `MaxForms = 0`): a retry is not always the "first
   within its priority group" (`services/queue.py:188-191`): all retries have
   position 0, so the older one wins.
2. `SlicingWorker!NothingStranded` (`JobItems = {1, 2}`, `PartItems = {}`,
   `Retries = 1`, `MaxRequests = 2`, no crash or fault): an item can stay pending
   without any failure. The worker of another process has looked for the last
   time; the thread of this process has failed its last attempt and not yet
   lowered the flag; an item queued in between finds the flag raised
   (`services/slicing_worker.py:50-54`, `132-134`).
3. `SliceJob!EverySlicedJobIsComplete` (`MaxRestarts = 0`, `MaxEdits = 2`): two
   slice requests that read the status together; the later one deletes plates
   the worker has written, the job still ends sliced, although "each plate of
   G-code is stored on a PrintJobPlate child object" (`models/printing.py:193-195`).
4. `PrinterSync!CountedForItsPlate` (the run's constants): a print started at the
   printer is counted for the only waiting plate with its file name although
   another plate was the last to start a file of that name
   (`services/printer_status_sync.py:317-320`, `381`).
5. `PrinterSync!ReleasedStartsNeverReached` (`LostReplies = TRUE`): when the
   reply to a start is lost the claim is released "after a start that never
   reached the printer", while the print runs (`services/queue.py:314`, `294-295`).
6. `PartEstimates!EstimateIsOfThePresentModel` (`StaleReads = TRUE`): a request
   that has read a part before the estimate ended, or between the two writes of
   another one, writes the old model or status back; "the newer request wins"
   (`models/parts.py:323-327`) holds for the worker only. (`EstimatingIsUnderWay` fails then, too.)
7. `ScheduledStart!NoSurpriseStart` (`QuickDatabase = TRUE`, two printers, one
   caller, `MaxRows = 2`, `MaxLateness = 1`, `MaxTime = 3`, no deaths, edits or
   crashes): a caller judges all due rows by the time at which it began, and the
   start of the first printer may take minutes, so that a start may come later
   than the maximum lateness, "so nothing starts by surprise"
   (`services/scheduled_start.py:4-6`).
8. `OperatorDialog!StaleDialogAlwaysGoes` (`MaxPresses = 3`, no failures or
   restarts): a start that succeeds forgets the review dialog that was shown
   after its button was pressed; decided on the web, it stays on the screen
   (`services/moonraker_operator_ui.py:317-318`).
9. `ProfileImport!PendingHasAReason` (two importers, `Overlapping = TRUE`,
   `MaxUploads = 2`): a child that has not found its parent is saved as pending
   after the parent, imported by another process, has looked for waiting
   children ("automatically resolved", `models/orca_profiles.py:26-28`).
10. `ProjectTree!Forest` (`StaleMoves = TRUE`, the run's other constants): a PATCH
   without a parent saves the whole row, with the parent it had when it was read;
   the check in the transaction looks only at a parent in the body
   (`api/views.py:128-133`, against its comment at `120-121`).
11. `SliceJob!SlicedJobIsOfOneKind` (the constants of `slice_job`): "All parts in
   a job must use the same preset and filament." (`views/print_jobs.py:686`), but
   a part that lies in a job may be given another preset or filament, before the
   job is sliced or after it, and the default of its project may change. The
   worker slices the job with the preset it is pinned to and the first part's
   filament (`services/slicing_worker.py:489-505`), and plates already sliced or
   queued stay as they are, also when the model file of a part is replaced.

The docstring of `adopt_external_print` names one known limit, an upload whose
start failed. There is a second one, which needs three plates of one file name:
`mark_started` writes the start and then the name (`models/queue.py:529-533`),
and a plate whose name is missing is not looked at
(`services/printer_status_sync.py:384`), so that another plate is taken for the
last one. `SharedNamesAreToldApart` excepts both (`untold`).

Also met, not a disagreement with any text:

- after a crash between two plates the recovered job fails on the unique
  constraint of its leftovers and has to be sliced again by hand;
- a thread that cannot be started in `_start_orcaslicer_worker` leaves the flag
  raised (`unborn`);
- the form for one plate accepts printers without a machine profile
  (`forms/queue.py:45`);
- a part taken up while no machine profile exists stays in "estimating", also
  when a profile is imported later (`services/slicing_worker.py:326`; stated as
  the exception of `EstimatingIsUnderWay`);
- a print that ends while the worker is disconnected can keep its attempt
  printing until the next print's events or a user end it, since a snapshot
  leaves out the states that end a print (`services/moonraker_ws.py:128`);
- one of the two SQL counts of retries has no default for plates without a
  manual attempt; harmless, as every retry follows one;
- on the page of a sub-project, hardware is for one instance, parts and
  filament are for the whole tree (`HardwareRequirements`, `BuildProgress`);
- a profile that is pending is left out of the slicer's arguments without a
  word (`services/slicing.py:57-155`);
- the order of imports does matter: if Y, formerly X, is imported first, then C
  inheriting from X, then X itself, C keeps the settings of Y while the slicer is
  sent those of X; likewise Y resolves every profile that waits for X, also while X is
  there and waits itself
  (`services/profile_import.py:396-428`, `588-600`). `ShownIsSent` excepts both
  (`replaced`). A value that cannot be parsed, and an empty one of a parent, is
  sent but not stored, as the docstring at `281-285` implies;
- a profile can stay pending although its parent is resolved: after an exception
  in the loop over the children, which is logged (`services/profile_import.py:610`),
  after the death of the process, and when a resolved parent is found only because
  another one was deleted or renamed. The exceptions of `PendingHasAReason`
  (`neglected`). Uploading it again resolves it;
- rebuilding a profile that inherits from X and was itself called X, after X has
  been deleted, does not end: the loop tests the name that is inherited, never
  that of the profile found (`services/profile_import.py:316`). `MaxChain` cuts it;
- a sliced job writes averages of its plates into parts without an estimate,
  and leaves their estimation status as it is (`_backfill_part_estimates`);
- of two operators who correct the same attempt the later one replaces all
  exclusions, also those the first has set or taken back since the page of the
  later one was loaded (`PrintQueue.set_excluded_plate_parts`).

## 7. Not modelled, and the plan

Not modelled for good: views, templates, permissions and CRUD without shared
state, HTTP and JSON of the clients (Moonraker, orca-slicer, Spoolman), reading
and writing of STL, 3MF and G-code, cost arithmetic, migrations, deployment.
These are most of the lines no definition stands for.

Not modelled in the components that are:

- PrintQueue: notes and columns that are only shown.
- PrinterSync: the watchdog's timing, and that the worker connects and
  subscribes in the end; percentages, start times of adopted prints.
- OperatorDialog: the switch `operator_prompts` and `is_active` turned while a
  dialog is shown; claims that expire under one.
- SliceJob: deletion of presets and profiles that jobs use, model files replaced
  or removed (what a plate was cut from is told by copies, profile and preset),
  jobs from before presets were pinned; "all remaining" copies are one copy.
- PartEstimates: deletion of parts; the estimates a sliced job writes.
- PrintedCopies: a second passed attempt of a plate, deletion of the job, whose
  copies stop counting; the sum over several jobs; the cap on the number of excluded objects.
- ProjectTree: documents and links, the shopping list of hardware.
- ProfileImport: rows deleted while an import is under way, changes of the name
  a profile is shown with, other users' profiles; the metadata of a profile that
  is sent, and the defaults `services/slicing.py` adds to it.
- ProjectNeeds: parts without an estimate, whose status the pages show instead.

The plan, in this order:

1. `MoveFollowsTheList`, of the order in which the queue is executed.
2. The watchdog and re-subscription with their liveness, composed from
   `MoonrakerWorker` and `PrinterSync`.
3. The estimates a sliced job writes, together with `PartEstimates`.
