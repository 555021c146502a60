--------------------------- MODULE SlicingProofs ---------------------------
(***************************************************************************)
(* Proofs about slicing.                                                   *)
(*                                                                         *)
(* SlicingWorker, for any number of processes, jobs and parts, and any     *)
(* bounds: one worker at a time, a flag that follows the thread, and no    *)
(* orphaned job.                                                           *)
(*                                                                         *)
(* SliceJob, which has the one worker, for any number of jobs, parts,      *)
(* printers, plates, edits and restarts:                                   *)
(*   - what is queued or sliced was cut from what the job shows,           *)
(*   - a sliced job has all of its plates, also after crashes, and         *)
(*   - a wish to be queued again is answered.                              *)
(***************************************************************************)
EXTENDS SlicingWorker, SliceJob, TLAPS

-----------------------------------------------------------------------------
(* The worker threads of all processes. *)

\* Every reachable state has the types of WorkerTypeOK.
LEMMA InitTypes == WorkerInit => WorkerTypeOK
  BY WorkerBoundsAssumption, RetriesAssumption DEF WorkerInit, WorkerTypeOK, WorkerStates, Holding

\* Starting the worker keeps the types, whoever starts it.
LEMMA StartTypes ==
    ASSUME WorkerTypeOK, NEW p \in Processes, StartWorker(p)
    PROVE  /\ lock' \in Processes \cup {Free}
           /\ flag' \in [Processes -> BOOLEAN]
           /\ thread' \in [Processes -> WorkerStates]
           /\ tries' \in [Processes -> 0..Retries]
           /\ task' \in [Processes -> Items \cup {0}]
           /\ requests' \in 0..MaxRequests /\ crashes' \in 0..MaxCrashes /\ faults' \in 0..MaxFaults
  <1>1. CASE flag[p]
    BY <1>1 DEF StartWorker, WorkerTypeOK, process, counters
  <1>2. CASE ~flag[p]
    <2>1. Spawn(p)
      BY <1>2 DEF StartWorker
    <2>2. lock' = lock /\ task' = task /\ flag' \in [Processes -> BOOLEAN]
      BY <2>1 DEF Spawn, WorkerTypeOK
    <2>3. tries' \in [Processes -> 0..Retries]
      BY <2>1, RetriesAssumption DEF Spawn, WorkerTypeOK
    <2>4. thread' \in [Processes -> WorkerStates]
      BY <2>1 DEF Spawn, At, WorkerTypeOK, WorkerStates
    <2>5. requests' \in 0..MaxRequests /\ crashes' \in 0..MaxCrashes /\ faults' \in 0..MaxFaults
      BY <2>1, WorkerBoundsAssumption DEF Spawn, Fault, WorkerTypeOK, counters
    <2> QED BY <2>2, <2>3, <2>4, <2>5 DEF WorkerTypeOK
  <1> QED BY <1>1, <1>2

LEMMA NextTypes == WorkerTypeOK /\ [WorkerNext]_workerVars => WorkerTypeOK'
  <1> SUFFICES ASSUME WorkerTypeOK, [WorkerNext]_workerVars PROVE WorkerTypeOK'
    OBVIOUS
  <1> USE WorkerBoundsAssumption, RetriesAssumption
  <1>1. CASE UNCHANGED workerVars
    BY <1>1 DEF WorkerTypeOK, workerVars, process, counters
  <1>2. ASSUME NEW p \in Processes, NEW i \in Items, Queue(p, i) PROVE WorkerTypeOK'
    BY <1>2 DEF Queue, WorkerTypeOK, process, counters
  <1>3. ASSUME NEW p \in Processes, RequestStarts(p) PROVE WorkerTypeOK'
    <2>1. StartWorker(p)
      BY <1>3 DEF RequestStarts
    <2> QED BY <1>3, <2>1, StartTypes DEF RequestStarts, WorkerTypeOK
  <1>4. ASSUME NEW p \in Processes, ThreadStep(p) PROVE WorkerTypeOK'
    <2>1. CASE Acquire(p)
      BY <2>1 DEF Acquire, TryLock, At, WorkerTypeOK, counters, WorkerStates, Holding
    <2>2. CASE Backoff(p)
      BY <2>2 DEF Backoff, MayTryAgain, At, WorkerTypeOK, counters, WorkerStates
    <2>3. CASE TryAgain(p)
      BY <2>3 DEF TryAgain, TryLock, At, WorkerTypeOK, counters, WorkerStates, Holding
    <2>4. CASE StopTrying(p)
      BY <2>4 DEF StopTrying, At, Fault, WorkerTypeOK, counters, WorkerStates
    <2>5. CASE GiveUp(p)
      BY <2>5 DEF GiveUp, At, WorkerTypeOK, counters, WorkerStates
    <2>6. CASE Pick(p)
      BY <2>6 DEF Pick, Pending, At, WorkerTypeOK, counters, WorkerStates, Holding
    <2>7. CASE PickNothing(p)
      BY <2>7 DEF PickNothing, At, Fault, WorkerTypeOK, counters, WorkerStates, Holding
    <2>8. CASE WorkOnItem(p)
      <3>1. PICK result \in Outcomes(task[p]) : state' = [state EXCEPT ![task[p]] = result]
        BY <2>8 DEF WorkOnItem
      <3>2. task[p] \in Items => result \in {"none", "pending", "working", "done"}
        BY <3>1 DEF Outcomes, Completed, WorkerTypeOK
      <3>3. state' \in [Items -> {"none", "pending", "working", "done"}]
        BY <3>1, <3>2 DEF WorkerTypeOK
      <3> QED BY <2>8, <3>3 DEF WorkOnItem, At, WorkerTypeOK, counters, WorkerStates, Holding
    <2>9. CASE WorkRaises(p)
      BY <2>9 DEF WorkRaises, At, Fault, WorkerTypeOK, WorkerStates, Holding
    <2>10. CASE Final(p)
      BY <2>10 DEF Final, At, Fault, WorkerTypeOK, counters, WorkerStates, Holding
    <2>11. CASE HandOver(p)
      BY <2>11 DEF HandOver, At, Fault, WorkerTypeOK, counters, WorkerStates, Holding
    <2>12. CASE Release(p)
      BY <2>12 DEF Release, At, WorkerTypeOK, counters, WorkerStates
    <2>13. CASE Clear(p)
      BY <2>13 DEF Clear, At, WorkerTypeOK, counters, WorkerStates
    <2> QED BY <1>4, <2>1, <2>2, <2>3, <2>4, <2>5, <2>6, <2>7, <2>8, <2>9, <2>10, <2>11, <2>12, <2>13
            DEF ThreadStep
  <1>5. ASSUME NEW p \in Processes, RecoveryStep(p) PROVE WorkerTypeOK'
    <2>1. CASE Restart(p)
      BY <2>1 DEF Restart, BootStep, WorkerTypeOK, process, counters
    <2>2. CASE ResetItems(p)
      BY <2>2 DEF ResetItems, BootStep, WorkerTypeOK, process, counters
    <2>3. CASE RecoveryLooks(p)
      BY <2>3 DEF RecoveryLooks, BootStep, WorkerTypeOK, process, counters
    <2>4. CASE RecoveryStarts(p)
      BY <2>4, StartTypes DEF RecoveryStarts, BootStep, WorkerTypeOK
    <2>5. CASE RecoveryFails(p)
      BY <2>5 DEF RecoveryFails, BootStep, Fault, WorkerTypeOK, process
    <2> QED BY <1>5, <2>1, <2>2, <2>3, <2>4, <2>5 DEF RecoveryStep
  <1>6. ASSUME NEW p \in Processes, Crash(p) PROVE WorkerTypeOK'
    BY <1>6 DEF Crash, WorkerTypeOK, WorkerStates
  <1> QED BY <1>1, <1>2, <1>3, <1>4, <1>5, <1>6 DEF WorkerNext

\* The worker has the states, counters and tasks WorkerTypeOK names, for any constants.
THEOREM WorkerTypes == WorkerSpec => []WorkerTypeOK
  BY InitTypes, NextTypes, PTL DEF WorkerSpec

(***************************************************************************)
(* One worker at a time, and a flag that tells whether there is one.       *)
(***************************************************************************)

\* The lock and the flags fit the threads: both parts are inductive only together,
\* because a thread is started on a lowered flag and takes the lock afterwards.
Exclusion == OneWorker /\ FlagFollowsThread

LEMMA StartExcludes ==
    ASSUME WorkerTypeOK, Exclusion, NEW p \in Processes, StartWorker(p)
    PROVE  Exclusion'
  <1>1. CASE flag[p]
    BY <1>1 DEF StartWorker, Exclusion, OneWorker, FlagFollowsThread, process
  <1>2. CASE ~flag[p]
    <2>1. /\ lock' = lock /\ flag' = [flag EXCEPT ![p] = TRUE]
          /\ thread[p] = "none"
          /\ \/ thread' = [thread EXCEPT ![p] = "acquire"]
             \/ thread' = [thread EXCEPT ![p] = "unborn"]
      BY <1>2 DEF StartWorker, Spawn, At
    <2> QED BY <2>1 DEF WorkerTypeOK, Exclusion, OneWorker, FlagFollowsThread, Holding
  <1> QED BY <1>1, <1>2

\* A thread that moves on within the lock, or outside of it, disturbs nothing.
LEMMA MoveExcludes ==
    ASSUME WorkerTypeOK, Exclusion, NEW p \in Processes, NEW here, NEW there \in WorkerStates \ {"none"},
           At(p, here, there), here # "none", here \in Holding <=> there \in Holding, UNCHANGED <<lock, flag>>
    PROVE  Exclusion'
  BY DEF At, WorkerTypeOK, Exclusion, OneWorker, FlagFollowsThread

LEMMA LockExcludes ==
    ASSUME WorkerTypeOK, Exclusion, NEW p \in Processes, NEW here \in {"acquire", "sleep"},
           TryLock(p, here, "locked")
    PROVE  Exclusion'
  <1>1. CASE lock = Free
    <2>1. lock' = p /\ thread' = [thread EXCEPT ![p] = "pick"] /\ flag' = flag /\ thread[p] = here
      BY <1>1 DEF TryLock, At
    <2>2. \A q \in Processes : thread[q] \notin Holding
      BY <1>1, FreeAssumption DEF Exclusion, OneWorker
    <2> QED BY <2>1, <2>2 DEF WorkerTypeOK, Exclusion, OneWorker, FlagFollowsThread, Holding
  <1>2. CASE lock # Free
    BY <1>2, MoveExcludes DEF TryLock, WorkerStates, Holding
  <1> QED BY <1>1, <1>2

LEMMA ThreadExcludes ==
    ASSUME WorkerTypeOK, Exclusion, NEW p \in Processes, ThreadStep(p)
    PROVE  Exclusion'
  <1>1. CASE Acquire(p) \/ TryAgain(p)
    BY <1>1, LockExcludes DEF Acquire, TryAgain
  <1>2. CASE Backoff(p) \/ StopTrying(p)
    BY <1>2, MoveExcludes DEF Backoff, StopTrying, WorkerStates, Holding
  <1>3. CASE GiveUp(p) \/ Clear(p)
    BY <1>3 DEF GiveUp, Clear, At, WorkerTypeOK, Exclusion, OneWorker, FlagFollowsThread, Holding
  <1>4. CASE Pick(p) \/ PickNothing(p) \/ WorkOnItem(p) \/ WorkRaises(p)
    BY <1>4, MoveExcludes DEF Pick, PickNothing, WorkOnItem, WorkRaises, WorkerStates, Holding
  <1>5. CASE Final(p) \/ HandOver(p)
    BY <1>5, MoveExcludes DEF Final, HandOver, WorkerStates, Holding
  <1>6. CASE Release(p)
    <2>1. lock = p
      BY <1>6 DEF Release, At, Exclusion, OneWorker, Holding
    <2> QED BY <1>6, <2>1, FreeAssumption
            DEF Release, At, WorkerTypeOK, Exclusion, OneWorker, FlagFollowsThread, Holding
  <1> QED BY <1>1, <1>2, <1>3, <1>4, <1>5, <1>6 DEF ThreadStep

LEMMA CrashExcludes ==
    ASSUME WorkerTypeOK, Exclusion, NEW p \in Processes, Crash(p)
    PROVE  Exclusion'
  BY FreeAssumption DEF Crash, WorkerTypeOK, Exclusion, OneWorker, FlagFollowsThread, Holding

LEMMA NextExcludes == WorkerTypeOK /\ Exclusion /\ [WorkerNext]_workerVars => Exclusion'
  <1> SUFFICES ASSUME WorkerTypeOK, Exclusion, [WorkerNext]_workerVars PROVE Exclusion'
    OBVIOUS
  <1>1. CASE UNCHANGED process
    BY <1>1 DEF process, Exclusion, OneWorker, FlagFollowsThread
  <1>2. ASSUME NEW p \in Processes, NEW i \in Items, Queue(p, i) PROVE Exclusion'
    BY <1>1, <1>2 DEF Queue
  <1>3. ASSUME NEW p \in Processes, RequestStarts(p) PROVE Exclusion'
    BY <1>3, StartExcludes DEF RequestStarts
  <1>4. ASSUME NEW p \in Processes, RecoveryStep(p) PROVE Exclusion'
    BY <1>1, <1>4, StartExcludes DEF RecoveryStep, Restart, ResetItems, RecoveryLooks, RecoveryStarts, RecoveryFails
  <1>5. UNCHANGED workerVars => UNCHANGED process
    BY DEF workerVars
  <1> QED BY <1>1, <1>2, <1>3, <1>4, <1>5, ThreadExcludes, CrashExcludes DEF WorkerNext

LEMMA InitExcludes == WorkerInit => Exclusion
  BY FreeAssumption DEF WorkerInit, Exclusion, OneWorker, FlagFollowsThread, Holding

\* Of all processes, exactly the holder of the file lock works on items, whatever
\* fails and whoever dies.
THEOREM OneWorkerAtATime == WorkerSpec => []OneWorker
  <1>1. WorkerInit => WorkerTypeOK /\ Exclusion
    BY InitTypes, InitExcludes
  <1>2. WorkerTypeOK /\ Exclusion /\ [WorkerNext]_workerVars => (WorkerTypeOK /\ Exclusion)'
    BY NextTypes, NextExcludes
  <1>3. Exclusion => OneWorker
    BY DEF Exclusion
  <1> QED BY <1>1, <1>2, <1>3, PTL DEF WorkerSpec

\* No path through the thread leaves a flag up without it, or the reverse.
THEOREM FlagTellsThread == WorkerSpec => []FlagFollowsThread
  <1>1. WorkerInit => WorkerTypeOK /\ Exclusion
    BY InitTypes, InitExcludes
  <1>2. WorkerTypeOK /\ Exclusion /\ [WorkerNext]_workerVars => (WorkerTypeOK /\ Exclusion)'
    BY NextTypes, NextExcludes
  <1>3. Exclusion => FlagFollowsThread
    BY DEF Exclusion
  <1> QED BY <1>1, <1>2, <1>3, PTL DEF WorkerSpec

(***************************************************************************)
(* No job is left in the state "slicing" by a living process.              *)
(***************************************************************************)

\* Only the worker that claims a job puts it into that state, and while it works
\* it takes the job out again or dies.
LEMMA NextAttends == WorkerTypeOK /\ NoOrphanedJob /\ [WorkerNext]_workerVars => NoOrphanedJob'
  <1> SUFFICES ASSUME WorkerTypeOK, NoOrphanedJob, [WorkerNext]_workerVars,
                      NEW i \in JobItems, state'[i] = "working"
               PROVE  Attended(i)'
    BY DEF NoOrphanedJob
  <1> USE DEF Attended, Items
  <1>u. ASSUME state' = state, boot' = boot, faults' >= faults, faults' \in Nat,
               \A p \in Processes : thread[p] = "work" => thread'[p] = "work" /\ task'[p] = task[p]
        PROVE  Attended(i)'
    BY <1>u, WorkerBoundsAssumption DEF NoOrphanedJob, WorkerTypeOK
  <1>1. CASE UNCHANGED workerVars
    BY <1>1 DEF workerVars, process, counters, NoOrphanedJob
  <1>2. ASSUME NEW p \in Processes, NEW k \in Items, Queue(p, k) PROVE Attended(i)'
    BY <1>2 DEF Queue, process, NoOrphanedJob, WorkerTypeOK
  <1>s. ASSUME NEW p \in Processes, StartWorker(p)
        PROVE  /\ \A q \in Processes : thread[q] = "work" => thread'[q] = "work" /\ task'[q] = task[q]
               /\ faults > 0 => faults' > 0
    BY <1>s, WorkerBoundsAssumption DEF StartWorker, Spawn, At, Fault, process, counters, WorkerTypeOK
  <1>3. ASSUME NEW p \in Processes, RequestStarts(p) PROVE Attended(i)'
    BY <1>3, <1>s DEF RequestStarts, NoOrphanedJob
  <1>4. ASSUME NEW p \in Processes, RecoveryStep(p) PROVE Attended(i)'
    <2>1. CASE Restart(p)
      BY <2>1 DEF Restart, BootStep, process, NoOrphanedJob, WorkerTypeOK
    <2>2. CASE ResetItems(p)
      BY <2>2 DEF ResetItems
    <2>3. CASE RecoveryLooks(p)
      BY <2>3 DEF RecoveryLooks, BootStep, process, counters, NoOrphanedJob, WorkerTypeOK
    <2>4. CASE RecoveryStarts(p)
      BY <2>4, <1>s DEF RecoveryStarts, BootStep, NoOrphanedJob, WorkerTypeOK
    <2>5. CASE RecoveryFails(p)
      BY <2>5, WorkerBoundsAssumption DEF RecoveryFails, Fault, Attended, WorkerTypeOK
    <2> QED BY <1>4, <2>1, <2>2, <2>3, <2>4, <2>5 DEF RecoveryStep
  <1>5. ASSUME NEW p \in Processes, Crash(p) PROVE Attended(i)'
    BY <1>5 DEF Crash, WorkerTypeOK
  <1>6. ASSUME NEW p \in Processes, ThreadStep(p) PROVE Attended(i)'
    <2>1. CASE Pick(p)
      <3>1. PICK k \in Pending : state' = [state EXCEPT ![k] = "working"] /\ task' = [task EXCEPT ![p] = k]
        BY <2>1 DEF Pick
      <3>2. thread[p] = "pick" /\ thread' = [thread EXCEPT ![p] = "work"] /\ boot' = boot /\ faults' = faults
        BY <2>1 DEF Pick, At, counters
      <3>3. CASE k = i
        BY <3>1, <3>2, <3>3 DEF WorkerTypeOK
      <3>4. CASE k # i
        <4>1. Attended(i)
          BY <3>1, <3>4 DEF NoOrphanedJob, WorkerTypeOK, Pending
        <4> QED BY <4>1, <3>1, <3>2 DEF WorkerTypeOK
      <3> QED BY <3>3, <3>4
    <2>2. CASE WorkOnItem(p)
      <3>1. PICK result \in Outcomes(task[p]) : state' = [state EXCEPT ![task[p]] = result]
        BY <2>2 DEF WorkOnItem
      <3>2. i # task[p]
        BY <3>1, ItemsAssumption DEF Outcomes, Completed, WorkerTypeOK
      <3>3. state[i] = "working" /\ Attended(i)
        BY <3>1, <3>2 DEF NoOrphanedJob, WorkerTypeOK
      <3> QED BY <2>2, <3>2, <3>3 DEF WorkOnItem, At, counters, WorkerTypeOK
    <2>3. CASE WorkRaises(p)
      BY <2>3, WorkerBoundsAssumption DEF WorkRaises, Fault, WorkerTypeOK
    <2>4. CASE ~Pick(p) /\ ~WorkOnItem(p) /\ ~WorkRaises(p)
      <3>1. state' = state /\ boot' = boot /\ faults' >= faults /\ faults' \in Nat
        BY <1>6, <2>4, WorkerBoundsAssumption
           DEF ThreadStep, Acquire, TryAgain, TryLock, Backoff, StopTrying, GiveUp, PickNothing, Final,
               HandOver, Release, Clear, Fault, counters, WorkerTypeOK
      <3>2. \A q \in Processes : thread[q] = "work" => thread'[q] = "work" /\ task'[q] = task[q]
        BY <1>6, <2>4
           DEF ThreadStep, Acquire, TryAgain, TryLock, Backoff, StopTrying, GiveUp, PickNothing, Final,
               HandOver, Release, Clear, At, WorkerTypeOK
      <3> QED BY <3>1, <3>2, <1>u
    <2> QED BY <2>1, <2>2, <2>3, <2>4
  <1> QED BY <1>1, <1>2, <1>3, <1>4, <1>5, <1>6 DEF WorkerNext

\* A job that is "slicing" is being sliced, or the process that sliced it has died and
\* has yet to recover; short of an error inside the error handling.
THEOREM SlicingJobsAttended == WorkerSpec => []NoOrphanedJob
  <1>1. WorkerInit => WorkerTypeOK /\ NoOrphanedJob
    BY InitTypes DEF WorkerInit, NoOrphanedJob, Items
  <1>2. WorkerTypeOK /\ NoOrphanedJob /\ [WorkerNext]_workerVars => (WorkerTypeOK /\ NoOrphanedJob)'
    BY NextTypes, NextAttends
  <1> QED BY <1>1, <1>2, PTL DEF WorkerSpec

-----------------------------------------------------------------------------
(* The inductive invariant.                                                *)

\* Parts that job j has, or may get, can be sliced together with the job's preset, unless
\* they were edited in the job.
OneKind(j, c) ==
    LET same == {x \in PartsIn(c) : <<j, x>> \notin retouched}
    IN  /\ PartsIn(c) # {} => c.preset # None
        /\ \A x \in same : settings[x].preset = c.preset
        /\ \A x, y \in same : settings[x].filament = settings[y].filament

\* Each edit adds one copy at most: why the numbers of copies stay in their type.
CopiesCounted == \A j \in Jobs : \A x \in Parts : contents[j].copies[x] <= edits

JobsAreOfOneKind == \A j \in Jobs : OneKind(j, contents[j])

\* Nobody but the worker takes a job out of slicing, except to delete it ...
WorkIsInProgress ==
    /\ step = "idle" <=> work.job = NoJob
    /\ work.job # NoJob => status[work.job] \in InProgress \cup {"deleted"}

\* ... so that what it has read stays true.
WorkFitsContents == step \in {"slicing", "writing", "finishing"} => work.contents = contents[work.job]

SlicedFitsContents == \A j \in Jobs : status[j] = "sliced" => cut[j].contents = contents[j]

QueuedIsSliced == \A j \in Jobs : Attempts(j) # {} => status[j] = "sliced"

\* The worker writes plate 1 first, and the last one before it finishes.
WritesInOrder ==
    /\ step \in {"claimed", "slicing"} => work.written = {} /\ work.left = {}
    /\ step = "writing" => work.left # {} /\ 1 \in work.written \cup work.left
    /\ step = "finishing" => 1 \in work.written /\ work.left = {}
    /\ work.written # {} => 1 \in work.written

\* The plates of the job at work are those the worker has written, or the leftovers
\* of a slicing that died, into which it cannot write.
PlatesAreWritten ==
    step # "idle" /\ status[work.job] # "deleted" /\ work.job \notin overtaken =>
        \/ plates[work.job] = work.written
        \/ work.written = {} /\ 1 \in plates[work.job]

\* Leftovers begin with plate 1.
LeftoversBeginAtOne == \A j \in Jobs \ overtaken : plates[j] = {} \/ 1 \in plates[j]

SliceInv ==
    /\ TypeOK
    /\ CopiesCounted
    /\ JobsAreOfOneKind
    /\ WorkIsInProgress
    /\ WorkFitsContents
    /\ SlicedFitsContents
    /\ QueuedIsSliced
    /\ WritesInOrder
    /\ PlatesAreWritten
    /\ LeftoversBeginAtOne
    /\ SlicedJobIsComplete

-----------------------------------------------------------------------------
(* Types.                                                                  *)

LEMMA NoContentsFit ==
  NoContents \in Contents /\ PartsIn(NoContents) = {} /\ \A j \in Jobs : OneKind(j, NoContents)
BY BoundsAssumption DEF NoContents, Contents, PartsIn, OneKind

LEMMA NoWorkFits == NoWork \in Work
BY NoContentsFit DEF NoWork, Work

\* One more copy of a part: how its number grows.
LEMMA WithPartFits ==
  ASSUME settings \in [Parts -> Settings],
         NEW c \in Contents, NEW x \in Parts, NEW n \in 0..MaxEdits, \A y \in Parts : c.copies[y] <= n
  PROVE  /\ WithPart(c, x) \in Contents
         /\ \A y \in Parts : WithPart(c, x).copies[y] <= n + 1
<1> DEFINE d == WithPart(c, x)
<1>1. d.copies \in [Parts -> 0..MaxEdits + 1] /\ \A y \in Parts : d.copies[y] <= n + 1
    BY BoundsAssumption DEF WithPart, Contents
<1>2. d.preset \in Presets \cup {None} /\ d.profile = c.profile
    BY DEF WithPart, Contents, Settings
<1>3. d = [copies |-> d.copies, profile |-> d.profile, preset |-> d.preset]
    <2> DEFINE e == [c EXCEPT !.copies[x] = @ + 1]
    <2>1. e = [copies |-> e.copies, profile |-> e.profile, preset |-> e.preset]
        BY DEF Contents
    <2>2. d = [e EXCEPT !.preset = IF @ = None THEN settings[x].preset ELSE @]
        BY DEF WithPart
    <2> HIDE DEF e, d
    <2> QED BY <2>1, <2>2
<1> QED BY <1>1, <1>2, <1>3 DEF Contents

LEMMA WithPartOfOneKind ==
  ASSUME NEW j \in Jobs, NEW c \in Contents, OneKind(j, c), NEW x \in Parts, Accepts(c, x)
  PROVE  OneKind(j, WithPart(c, x))
<1> DEFINE d == WithPart(c, x)
<1>1. PartsIn(d) \subseteq PartsIn(c) \cup {x}
    BY DEF PartsIn, WithPart, Contents
<1>2. d.preset = settings[x].preset /\ settings[x].preset # None
    BY DEF Accepts, WithPart, Contents
<1>3. \A y \in PartsIn(c) :
         /\ settings[y].filament = settings[x].filament
         /\ <<j, y>> \notin retouched => settings[y].preset = settings[x].preset
    BY DEF Accepts, OneKind
<1> QED BY <1>1, <1>2, <1>3 DEF OneKind

\* Fewer parts, or another machine profile.
LEMMA WithoutPartFits ==
  ASSUME NEW j \in Jobs, NEW c \in Contents, OneKind(j, c), NEW x \in Parts
  PROVE  LET d == [c EXCEPT !.copies[x] = 0]
         IN  d \in Contents /\ OneKind(j, d) /\ \A y \in Parts : d.copies[y] <= c.copies[y]
<1> DEFINE d == [c EXCEPT !.copies[x] = 0]
<1>1. d = [copies |-> [c.copies EXCEPT ![x] = 0], profile |-> c.profile, preset |-> c.preset]
    BY DEF Contents
<1>2. d \in Contents /\ \A y \in Parts : d.copies[y] <= c.copies[y]
    BY <1>1, BoundsAssumption DEF Contents
<1>3. PartsIn(d) \subseteq PartsIn(c)
    BY <1>1 DEF PartsIn, Contents
<1>4. OneKind(j, d)
    BY <1>1, <1>3 DEF OneKind
<1> QED BY <1>2, <1>4

LEMMA WithProfileFits ==
  ASSUME NEW j \in Jobs, NEW c \in Contents, OneKind(j, c), NEW profile \in Profiles \cup {None}
  PROVE  LET d == [c EXCEPT !.profile = profile]
         IN  d \in Contents /\ OneKind(j, d) /\ d.copies = c.copies
BY DEF Contents, OneKind, PartsIn

LEMMA GroupFits ==
  ASSUME settings \in [Parts -> Settings], NEW j \in Jobs,
         NEW x \in Parts, settings[x].preset # None, NEW some \in SUBSET Group(x)
  PROVE  LET d == [NoContents EXCEPT !.preset = settings[x].preset,
                                     !.copies = [y \in Parts |-> IF y \in some THEN 1 ELSE 0]]
         IN  d \in Contents /\ OneKind(j, d) /\ \A y \in Parts : d.copies[y] <= 1
<1> DEFINE d == [NoContents EXCEPT !.preset = settings[x].preset,
                                   !.copies = [y \in Parts |-> IF y \in some THEN 1 ELSE 0]]
<1>1. d = [copies |-> [y \in Parts |-> IF y \in some THEN 1 ELSE 0], profile |-> None,
           preset |-> settings[x].preset]
    <2> DEFINE e == [NoContents EXCEPT !.preset = settings[x].preset]
    <2>1. e = [copies |-> [y \in Parts |-> 0], profile |-> None, preset |-> settings[x].preset]
        BY DEF NoContents
    <2>2. d = [e EXCEPT !.copies = [y \in Parts |-> IF y \in some THEN 1 ELSE 0]]
        OBVIOUS
    <2> HIDE DEF e, d
    <2> QED BY <2>1, <2>2
<1> HIDE DEF d
<1>2. d \in Contents /\ \A y \in Parts : d.copies[y] <= 1
    <2>1. d.copies \in [Parts -> 0..MaxEdits + 1] /\ \A y \in Parts : d.copies[y] <= 1
        BY <1>1, BoundsAssumption
    <2> QED BY <1>1, <2>1 DEF Contents, Settings
<1>3. PartsIn(d) \subseteq Group(x)
    BY <1>1 DEF PartsIn, Group
<1>4. OneKind(j, d)
    BY <1>1, <1>3 DEF OneKind, Group
<1> QED BY <1>2, <1>4 DEF d

-----------------------------------------------------------------------------
LEMMA InitSliceInv == Init => SliceInv
<1> SUFFICES ASSUME Init PROVE SliceInv
    OBVIOUS
<1> USE DEF Init
<1>1. TypeOK
    <2>1. work \in Work /\ contents \in [Jobs -> Contents]
             /\ cut \in [Jobs -> [contents : Contents, plates : SUBSET Plates]]
        BY NoContentsFit, NoWorkFits
    <2>2. attempt \in [Jobs -> [Plates -> {"none", "waiting", "claimed", "history"}]]
          /\ printer \in [Jobs -> [Plates -> Printers \cup {None}]]
          /\ plates \in [Jobs -> SUBSET Plates] /\ wish \in [Jobs -> Printers \cup {None}]
        BY DEF NoAttempts
    <2>3. status \in [Jobs -> {"absent", "draft", "pending", "slicing", "sliced", "failed", "deleted"}]
        OBVIOUS
    <2>4. edits \in 0..MaxEdits /\ restarts \in 0..MaxRestarts
        BY BoundsAssumption
    <2> QED BY ONLY Init, <2>1, <2>2, <2>3, <2>4, SettingsAssumption DEF TypeOK
<1>2. CopiesCounted /\ JobsAreOfOneKind
    BY NoContentsFit DEF CopiesCounted, JobsAreOfOneKind, NoContents
<1>3. WorkIsInProgress /\ WorkFitsContents /\ WritesInOrder /\ PlatesAreWritten
    BY NoneAssumption DEF WorkIsInProgress, WorkFitsContents, WritesInOrder, PlatesAreWritten, NoWork
<1>4. SlicedFitsContents /\ QueuedIsSliced /\ LeftoversBeginAtOne /\ SlicedJobIsComplete
    BY DEF SlicedFitsContents, QueuedIsSliced, Attempts, NoAttempts, LeftoversBeginAtOne, SlicedJobIsComplete
<1> QED BY <1>1, <1>2, <1>3, <1>4 DEF SliceInv

\* A change of contents, of a new job or of one without attempts: the rest of the step
\* is the same for every way to change them.
LEMMA CreateKeeps ==
  ASSUME SliceInv, NEW j \in Jobs, NEW c \in Contents, OneKind(j, c), Create(j, c),
         \A x \in Parts : c.copies[x] <= edits + 1
  PROVE  SliceInv'
<1> USE DEF Create, MayEdit
<1>1. TypeOK'
    BY BoundsAssumption DEF SliceInv, TypeOK, queue, requeue, worker, restart
<1>2. CopiesCounted' /\ JobsAreOfOneKind'
    <2>1. CopiesCounted'
        BY BoundsAssumption DEF SliceInv, TypeOK, CopiesCounted, Contents
    <2>2. ASSUME NEW i \in Jobs PROVE OneKind(i, contents[i])'
        <3>1. CASE i = j
            <4>1. contents'[i] = c
                BY <3>1 DEF SliceInv, TypeOK
            <4> QED BY <3>1, <4>1 DEF OneKind
        <3>2. CASE i # j
            <4>1. contents'[i] = contents[i] /\ OneKind(i, contents[i])
                BY <3>2 DEF SliceInv, TypeOK, JobsAreOfOneKind
            <4> QED BY <3>2, <4>1 DEF OneKind
        <3> QED BY <3>1, <3>2
    <2> QED BY <2>1, <2>2 DEF JobsAreOfOneKind
<1>3. WorkIsInProgress' /\ WorkFitsContents' /\ WritesInOrder' /\ PlatesAreWritten'
    BY DEF SliceInv, TypeOK, WorkIsInProgress, WorkFitsContents, WritesInOrder, PlatesAreWritten, worker, InProgress
<1>4. SlicedFitsContents' /\ QueuedIsSliced' /\ LeftoversBeginAtOne' /\ SlicedJobIsComplete'
    BY DEF SliceInv, TypeOK, SlicedFitsContents, QueuedIsSliced, LeftoversBeginAtOne, SlicedJobIsComplete,
           queue, Attempts
<1> QED BY <1>1, <1>2, <1>3, <1>4 DEF SliceInv

LEMMA ChangeKeeps ==
  ASSUME SliceInv, NEW j \in Jobs, NEW c \in Contents, OneKind(j, c), ChangeContents(j, c),
         \A x \in Parts : c.copies[x] <= edits + 1
  PROVE  SliceInv'
<1> USE DEF ChangeContents, MayEdit, CanChangeContents, CanReslice
<1>1. TypeOK'
    BY BoundsAssumption DEF SliceInv, TypeOK, queue, worker, restart
<1>2. CopiesCounted' /\ JobsAreOfOneKind'
    <2>1. CopiesCounted'
        BY BoundsAssumption DEF SliceInv, TypeOK, CopiesCounted, Contents
    <2>2. ASSUME NEW i \in Jobs PROVE OneKind(i, contents[i])'
        <3>1. CASE i = j
            <4>1. contents'[i] = c
                BY <3>1 DEF SliceInv, TypeOK
            <4> QED BY <3>1, <4>1 DEF OneKind
        <3>2. CASE i # j
            <4>1. contents'[i] = contents[i] /\ OneKind(i, contents[i])
                BY <3>2 DEF SliceInv, TypeOK, JobsAreOfOneKind
            <4> QED BY <3>2, <4>1 DEF OneKind
        <3> QED BY <3>1, <3>2
    <2> QED BY <2>1, <2>2 DEF JobsAreOfOneKind
<1>3. work.job # j
    BY NoneAssumption DEF SliceInv, WorkIsInProgress, InProgress, Exists
<1>4. WorkIsInProgress' /\ WorkFitsContents' /\ WritesInOrder' /\ PlatesAreWritten'
    BY <1>3 DEF SliceInv, TypeOK, WorkIsInProgress, WorkFitsContents, WritesInOrder, PlatesAreWritten, worker
<1>5. SlicedFitsContents' /\ QueuedIsSliced' /\ LeftoversBeginAtOne' /\ SlicedJobIsComplete'
    BY DEF SliceInv, TypeOK, SlicedFitsContents, QueuedIsSliced, LeftoversBeginAtOne, SlicedJobIsComplete,
           queue, Attempts
<1> QED BY <1>1, <1>2, <1>4, <1>5 DEF SliceInv

LEMMA EditsKeep ==
  ASSUME SliceInv, NEW j \in Jobs
  PROVE  /\ \A profile \in Profiles \cup {None} : CreateJob(j, profile) \/ SetProfile(j, profile) => SliceInv'
         /\ \A x \in Parts : CreateJobFromProject(j, x) \/ AddPart(j, x) \/ RemovePart(j, x) => SliceInv'
<1>0. /\ contents[j] \in Contents /\ OneKind(j, contents[j]) /\ edits \in 0..MaxEdits
      /\ settings \in [Parts -> Settings]
      /\ \A x \in Parts : contents[j].copies[x] \in Nat /\ contents[j].copies[x] <= edits
    BY BoundsAssumption DEF SliceInv, TypeOK, CopiesCounted, JobsAreOfOneKind, Contents
<1>1. ASSUME NEW profile \in Profiles \cup {None}, CreateJob(j, profile) PROVE SliceInv'
    <2> DEFINE c == [NoContents EXCEPT !.profile = profile]
    <2>1. c \in Contents /\ OneKind(j, c) /\ c.copies = [x \in Parts |-> 0]
        BY NoContentsFit, WithProfileFits DEF NoContents
    <2>2. \A x \in Parts : c.copies[x] <= edits + 1
        BY <1>0, <2>1, BoundsAssumption
    <2>3. Create(j, c)
        BY <1>1 DEF CreateJob
    <2> HIDE DEF c
    <2> QED BY <2>1, <2>2, <2>3, CreateKeeps
<1>2. ASSUME NEW profile \in Profiles \cup {None}, SetProfile(j, profile) PROVE SliceInv'
    <2> DEFINE c == [contents[j] EXCEPT !.profile = profile]
    <2>1. c \in Contents /\ OneKind(j, c) /\ c.copies = contents[j].copies
        BY <1>0, WithProfileFits
    <2>2. \A x \in Parts : c.copies[x] <= edits + 1
        BY <1>0, <2>1, BoundsAssumption
    <2>3. ChangeContents(j, c)
        BY <1>2 DEF SetProfile
    <2> HIDE DEF c
    <2> QED BY <2>1, <2>2, <2>3, ChangeKeeps
<1>3. ASSUME NEW x \in Parts, CreateJobFromProject(j, x) PROVE SliceInv'
    <2>1. PICK some \in SUBSET Group(x) :
              Create(j, [NoContents EXCEPT !.preset = settings[x].preset,
                                          !.copies = [y \in Parts |-> IF y \in some THEN 1 ELSE 0]])
        BY <1>3 DEF CreateJobFromProject
    <2> DEFINE c == [NoContents EXCEPT !.preset = settings[x].preset,
                                       !.copies = [y \in Parts |-> IF y \in some THEN 1 ELSE 0]]
    <2>2. settings[x].preset # None
        BY <1>3 DEF CreateJobFromProject
    <2>3. c \in Contents /\ OneKind(j, c) /\ \A y \in Parts : c.copies[y] <= 1
        BY <1>0, <2>2, GroupFits
    <2>4. Create(j, c)
        BY <2>1
    <2> HIDE DEF c
    <2>5. \A y \in Parts : c.copies[y] <= edits + 1
        BY <1>0, <2>3, BoundsAssumption DEF Contents
    <2> QED BY <2>3, <2>4, <2>5, CreateKeeps
<1>4. ASSUME NEW x \in Parts, AddPart(j, x) PROVE SliceInv'
    <2>1. CASE status[j] = "absent"
        <3> DEFINE c == WithPart(NoContents, x)
        <3>1. settings[x].preset # None /\ Create(j, c)
            BY <1>4, <2>1 DEF AddPart
        <3>2. Accepts(NoContents, x)
            BY <3>1, NoContentsFit DEF Accepts, NoContents
        <3>3. c \in Contents /\ \A y \in Parts : c.copies[y] <= 0 + 1
            BY <1>0, NoContentsFit, WithPartFits, BoundsAssumption DEF NoContents
        <3>4. OneKind(j, c)
            BY NoContentsFit, WithPartOfOneKind, <3>2
        <3> HIDE DEF c
        <3>5. \A y \in Parts : c.copies[y] <= edits + 1
            BY <1>0, <3>3, BoundsAssumption DEF Contents
        <3> QED BY <3>1, <3>3, <3>4, <3>5, CreateKeeps
    <2>2. CASE status[j] # "absent"
        <3> DEFINE c == WithPart(contents[j], x)
        <3>1. Accepts(contents[j], x) /\ ChangeContents(j, c)
            BY <1>4, <2>2 DEF AddPart
        <3>2. c \in Contents /\ \A y \in Parts : c.copies[y] <= edits + 1
            BY <1>0, WithPartFits
        <3>3. OneKind(j, c)
            BY <1>0, <3>1, WithPartOfOneKind
        <3> HIDE DEF c
        <3> QED BY <3>1, <3>2, <3>3, ChangeKeeps
    <2> QED BY <2>1, <2>2
<1>5. ASSUME NEW x \in Parts, RemovePart(j, x) PROVE SliceInv'
    <2> DEFINE c == [contents[j] EXCEPT !.copies[x] = 0]
    <2>1. c \in Contents /\ OneKind(j, c) /\ \A y \in Parts : c.copies[y] <= contents[j].copies[y]
        BY <1>0, WithoutPartFits
    <2>2. ChangeContents(j, c)
        BY <1>5 DEF RemovePart
    <2> HIDE DEF c
    <2>3. \A y \in Parts : c.copies[y] <= edits + 1
        BY <1>0, <2>1, BoundsAssumption DEF Contents
    <2> QED BY <2>1, <2>2, <2>3, ChangeKeeps
<1> QED BY <1>1, <1>2, <1>3, <1>4, <1>5

\* A part that is edited in a job no longer counts among those of one kind.
LEMMA ChangeSettingsKeeps ==
  ASSUME SliceInv, NEW new \in [Parts -> Settings], ChangeSettings(new)
  PROVE  SliceInv'
<1> USE DEF ChangeSettings, MayEdit
<1>1. TypeOK'
    BY BoundsAssumption DEF SliceInv, TypeOK, queue, requeue, worker, restart
<1>2. CopiesCounted'
    BY BoundsAssumption DEF SliceInv, TypeOK, CopiesCounted, Contents
<1>3. JobsAreOfOneKind'
    <2>1. \A j \in Jobs : \A x \in PartsIn(contents[j]) :
             <<j, x>> \notin retouched' => <<j, x>> \notin retouched /\ new[x] = settings[x]
        BY DEF PartsIn
    <2> QED BY <2>1 DEF SliceInv, JobsAreOfOneKind, OneKind, PartsIn
<1>4. WorkIsInProgress' /\ WorkFitsContents' /\ WritesInOrder' /\ PlatesAreWritten'
    BY DEF SliceInv, WorkIsInProgress, WorkFitsContents, WritesInOrder, PlatesAreWritten, worker
<1>5. SlicedFitsContents' /\ QueuedIsSliced' /\ LeftoversBeginAtOne' /\ SlicedJobIsComplete'
    BY DEF SliceInv, SlicedFitsContents, QueuedIsSliced, LeftoversBeginAtOne, SlicedJobIsComplete, queue, Attempts
<1> QED BY <1>1, <1>2, <1>3, <1>4, <1>5 DEF SliceInv

LEMMA EditingKeeps == SliceInv /\ Editing => SliceInv'
<1> SUFFICES ASSUME SliceInv, Editing PROVE SliceInv'
    OBVIOUS
<1>1. settings \in [Parts -> Settings]
    BY DEF SliceInv, TypeOK
<1>2. ASSUME NEW x \in Parts, NEW new \in Settings, EditPart(x, new) PROVE SliceInv'
    BY <1>1, <1>2, ChangeSettingsKeeps DEF EditPart
<1>3. ASSUME NEW some \in SUBSET Parts, NEW preset \in Presets \cup {None}, EditDefault(some, preset)
      PROVE  SliceInv'
    <2>1. \A x \in Parts : [settings[x] EXCEPT !.preset = preset] \in Settings
        BY <1>1 DEF Settings
    <2>2. [x \in Parts |-> IF x \in some THEN [settings[x] EXCEPT !.preset = preset] ELSE settings[x]]
              \in [Parts -> Settings]
        BY <1>1, <2>1
    <2> QED BY <1>3, <2>2, ChangeSettingsKeeps DEF EditDefault
<1> QED BY <1>2, <1>3 DEF Editing

\* What is said of the contents of jobs depends on nothing else.
LEMMA SameContents ==
  ASSUME SliceInv, UNCHANGED content
  PROVE  CopiesCounted' /\ JobsAreOfOneKind'
BY DEF SliceInv, CopiesCounted, JobsAreOfOneKind, OneKind, content

LEMMA RequestsKeep ==
  ASSUME SliceInv, NEW j \in Jobs,
         AskForSlicing(j) \/ QueueForSlicing(j) \/ ResliceAndRequeue(j)
  PROVE  SliceInv'
<1> USE DEF content, OneKind
<1>1. CASE AskForSlicing(j)
    BY <1>1 DEF AskForSlicing, jobs, queue, requeue, worker, restart, SliceInv, TypeOK, CopiesCounted, JobsAreOfOneKind,
                WorkIsInProgress, WorkFitsContents, SlicedFitsContents, QueuedIsSliced, Attempts, WritesInOrder,
                PlatesAreWritten, LeftoversBeginAtOne, SlicedJobIsComplete
<1>2. CASE QueueForSlicing(j) /\ Exists(j) /\ CanReslice(j)
    <2>0. /\ status' = [status EXCEPT ![j] = "pending"] /\ status[j] # "deleted"
          /\ plates' = [plates EXCEPT ![j] = {}]
          /\ attempt' = [attempt EXCEPT ![j] = NoAttempts]
          /\ wish' = [wish EXCEPT ![j] = None]
          /\ hint' \subseteq hint /\ asked' \subseteq asked
          /\ overtaken \subseteq overtaken' /\ overtaken' \subseteq overtaken \cup {j}
          /\ work.job = j => j \in overtaken'
          /\ UNCHANGED <<closed, content, cut, printer, usable, step, work, restarts, owed>>
        BY <1>2 DEF QueueForSlicing, Exists, worker, restart
    <2>1. TypeOK'
        <3>1. NoAttempts \in [Plates -> {"none", "waiting", "claimed", "history"}]
            BY DEF NoAttempts
        <3> QED BY <2>0, <3>1 DEF SliceInv, TypeOK
    <2>2. CopiesCounted' /\ JobsAreOfOneKind'
        BY <2>0, SameContents
    <2>3. WorkIsInProgress' /\ WorkFitsContents' /\ WritesInOrder' /\ PlatesAreWritten'
        BY <2>0 DEF SliceInv, TypeOK, InProgress, WorkIsInProgress, WorkFitsContents, WritesInOrder, PlatesAreWritten
    <2>4. SlicedFitsContents' /\ QueuedIsSliced' /\ LeftoversBeginAtOne' /\ SlicedJobIsComplete'
        BY <2>0 DEF SliceInv, TypeOK, SlicedFitsContents, QueuedIsSliced, Attempts, NoAttempts, LeftoversBeginAtOne,
               SlicedJobIsComplete
    <2> QED BY <2>1, <2>2, <2>3, <2>4 DEF SliceInv
<1>3. CASE QueueForSlicing(j) /\ ~(Exists(j) /\ CanReslice(j))
    BY <1>3 DEF QueueForSlicing, requeue, worker, restart, SliceInv, TypeOK, CopiesCounted, JobsAreOfOneKind,
                WorkIsInProgress, WorkFitsContents, SlicedFitsContents, QueuedIsSliced, Attempts, WritesInOrder,
                PlatesAreWritten, LeftoversBeginAtOne, SlicedJobIsComplete
<1>4. CASE ResliceAndRequeue(j)
    <2> USE <1>4 DEF ResliceAndRequeue, StartResliceAndRequeue
    <2>0. work.job # j
        BY NoneAssumption DEF SliceInv, WorkIsInProgress, InProgress, CanResliceAndRequeue
    <2>1. TypeOK'
        BY DEF SliceInv, TypeOK, worker, restart, NoAttempts
    <2>2. CopiesCounted' /\ JobsAreOfOneKind'
        BY SameContents
    <2>3. WorkIsInProgress' /\ WorkFitsContents' /\ WritesInOrder' /\ PlatesAreWritten'
        BY <2>0 DEF SliceInv, TypeOK, WorkIsInProgress, WorkFitsContents, WritesInOrder, PlatesAreWritten, worker
    <2>4. SlicedFitsContents' /\ QueuedIsSliced' /\ LeftoversBeginAtOne' /\ SlicedJobIsComplete'
        BY DEF SliceInv, TypeOK, SlicedFitsContents, QueuedIsSliced, Attempts, NoAttempts, LeftoversBeginAtOne,
               SlicedJobIsComplete
    <2> QED BY <2>1, <2>2, <2>3, <2>4 DEF SliceInv
<1> QED BY <1>1, <1>2, <1>3, <1>4

-----------------------------------------------------------------------------
(* The worker.                                                             *)

\* The job at work exists in the table.
LEMMA JobAtWork == SliceInv /\ step # "idle" => work.job \in Jobs
BY DEF SliceInv, WorkIsInProgress, TypeOK, Work

LEMMA ClaimKeeps ==
  ASSUME SliceInv, NEW j \in Jobs, ClaimJob(j)
  PROVE  SliceInv'
<1> DEFINE w == [job |-> j, contents |-> NoContents, written |-> {}, left |-> {}]
<1>0. /\ work' = w /\ w \in Work
      /\ w.job = j /\ w.written = {} /\ w.left = {}
    BY NoContentsFit DEF ClaimJob, NoWork, Work
<1> HIDE DEF w
<1>1. TypeOK'
    BY <1>0 DEF ClaimJob, WorkerStep, SliceInv, TypeOK, content, queue, requeue, restart
<1>2. CopiesCounted' /\ JobsAreOfOneKind'
    BY SameContents DEF ClaimJob
<1>3. WorkIsInProgress' /\ WorkFitsContents' /\ WritesInOrder'
    <2>1. step' = "claimed" /\ status'[j] = "slicing"
        BY DEF ClaimJob, WorkerStep, SliceInv, TypeOK
    <2> QED BY <1>0, <2>1, NoneAssumption DEF WorkIsInProgress, WorkFitsContents, WritesInOrder, InProgress
<1>4. PlatesAreWritten'
    <2>1. /\ plates' = plates /\ (j \notin overtaken' => plates[j] = {} \/ j \notin overtaken)
        BY DEF ClaimJob
    <2> QED BY <1>0, <2>1 DEF SliceInv, PlatesAreWritten, LeftoversBeginAtOne
<1>5. SlicedFitsContents' /\ QueuedIsSliced' /\ LeftoversBeginAtOne' /\ SlicedJobIsComplete'
    BY DEF ClaimJob, WorkerStep, SliceInv, TypeOK, SlicedFitsContents, QueuedIsSliced, Attempts, LeftoversBeginAtOne,
           SlicedJobIsComplete, content, queue
<1> QED BY <1>1, <1>2, <1>3, <1>4, <1>5 DEF SliceInv

\* Steps of the worker that change only what it remembers.
LEMMA ReadingKeeps ==
  ASSUME SliceInv, ReadJob \/ SlicerReturns
  PROVE  SliceInv'
<1>0. /\ work.job \in Jobs /\ work.job # NoJob /\ step # "idle" /\ step' # "idle"
      /\ UNCHANGED <<jobs, queue, requeue, usable, asked, restart, overtaken>>
    BY JobAtWork, NoneAssumption DEF ReadJob, SlicerReturns, WorkerStep
<1>1. CASE ReadJob
    <2>1. work' = [job |-> work.job, contents |-> contents[work.job], written |-> work.written, left |-> work.left]
        BY <1>1 DEF ReadJob, SliceInv, TypeOK, Work
    <2>2. TypeOK'
        BY <1>0, <1>1, <2>1 DEF ReadJob, WorkerStep, SliceInv, TypeOK, Work, jobs, content, queue, requeue, restart
    <2> QED BY <1>0, <1>1, <2>1, <2>2 DEF ReadJob, WorkerStep, jobs, content, queue,
             SliceInv, CopiesCounted, JobsAreOfOneKind, OneKind,
             WorkIsInProgress, WorkFitsContents, SlicedFitsContents, QueuedIsSliced, Attempts, WritesInOrder,
             PlatesAreWritten, LeftoversBeginAtOne, SlicedJobIsComplete
<1>2. CASE SlicerReturns
    <2>1. PICK n \in Plates : work' = [work EXCEPT !.left = 1..n]
        BY <1>2 DEF SlicerReturns, Answers
    <2>2. work' = [job |-> work.job, contents |-> work.contents, written |-> work.written, left |-> 1..n]
        BY <2>1 DEF SliceInv, TypeOK, Work
    <2>3. 1..n \subseteq Plates /\ 1 \in 1..n
        BY BoundsAssumption DEF Plates
    <2>4. TypeOK'
        BY <1>0, <1>2, <2>2, <2>3 DEF SlicerReturns, WorkerStep, SliceInv, TypeOK, Work, jobs, content, queue, requeue, restart
    <2>5. /\ step = "slicing" /\ step' = "writing" /\ work'.job = work.job /\ work'.contents = work.contents
          /\ work'.written = work.written /\ 1 \in work'.left
        BY <1>2, <2>2, <2>3 DEF SlicerReturns, WorkerStep
    <2>6. WorkIsInProgress' /\ WorkFitsContents' /\ WritesInOrder' /\ PlatesAreWritten'
        BY <1>0, <2>5 DEF jobs, content, SliceInv, WorkIsInProgress, WorkFitsContents, WritesInOrder, PlatesAreWritten
    <2> QED BY <1>0, <2>4, <2>6 DEF jobs, content, queue, SliceInv, CopiesCounted, JobsAreOfOneKind, OneKind,
             SlicedFitsContents, QueuedIsSliced, Attempts, LeftoversBeginAtOne, SlicedJobIsComplete
<1> QED BY <1>1, <1>2

LEMMA WriteKeeps ==
  ASSUME SliceInv, WritePlate
  PROVE  SliceInv'
<1>1. PICK k \in Plates : SavePlate(k) /\ k \notin plates[work.job]
    BY DEF WritePlate
<1>2. work.job \in Jobs /\ work.job # NoJob /\ status[work.job] # "deleted"
    BY <1>1, JobAtWork, NoneAssumption DEF SavePlate, WorkerStep
<1> DEFINE j == work.job
<1>3. work' = [job |-> j, contents |-> work.contents, written |-> work.written \cup {k}, left |-> work.left \ {k}]
    <2> DEFINE w == [work EXCEPT !.left = @ \ {k}]
    <2>1. w = [job |-> j, contents |-> work.contents, written |-> work.written, left |-> work.left \ {k}]
        <3>1. work \in Work
            BY DEF SliceInv, TypeOK
        <3> QED BY ONLY <3>1 DEF Work
    <2>2. work' = [w EXCEPT !.written = @ \cup {k}]
        BY <1>1 DEF SavePlate
    <2> HIDE DEF w
    <2> QED BY <2>1, <2>2
<1>4. \* it is not one of the leftovers, so that there are none
      j \notin overtaken => plates[j] = work.written
    <2>1. work.written = {} => k = 1
        BY <1>1, BoundsAssumption DEF SavePlate, WorkerStep, SliceInv, WritesInOrder, Plates
    <2> QED BY <1>1, <1>2, <2>1 DEF SavePlate, WorkerStep, SliceInv, PlatesAreWritten
<1>5. work.written \cup {k} # {} /\ 1 \in work.written \cup {k}
    BY <1>1, BoundsAssumption DEF SavePlate, WorkerStep, SliceInv, WritesInOrder, Plates
<1>6. TypeOK'
    <2>1. work' \in Work
        BY <1>3 DEF SliceInv, TypeOK, Work
    <2> QED BY <1>1, <1>2, <2>1 DEF SavePlate, WorkerStep, SliceInv, TypeOK, content, queue, requeue, restart
<1>7. CopiesCounted' /\ JobsAreOfOneKind'
    BY <1>1, SameContents DEF SavePlate
<1>8. WorkIsInProgress' /\ WorkFitsContents'
    BY <1>1, <1>2, <1>3 DEF SavePlate, WorkerStep, SliceInv, WorkIsInProgress, WorkFitsContents, content
<1>9. WritesInOrder'
    BY <1>1, <1>3, <1>5 DEF SavePlate, WorkerStep, SliceInv, WritesInOrder
<1>10. PlatesAreWritten' /\ LeftoversBeginAtOne'
    BY <1>1, <1>2, <1>3, <1>4, <1>5 DEF SavePlate, SliceInv, TypeOK, PlatesAreWritten, LeftoversBeginAtOne
<1>11. SlicedFitsContents' /\ QueuedIsSliced' /\ SlicedJobIsComplete'
    BY <1>1, <1>2 DEF SavePlate, SliceInv, TypeOK, WorkIsInProgress, InProgress, SlicedFitsContents, QueuedIsSliced, Attempts,
           SlicedJobIsComplete, content, queue
<1> QED BY <1>6, <1>7, <1>8, <1>9, <1>10, <1>11 DEF SliceInv

LEMMA FinishKeeps ==
  ASSUME SliceInv, FinishJob
  PROVE  SliceInv'
<1> USE DEF FinishJob, WorkerStep
<1> DEFINE j == work.job
<1>1. j \in Jobs /\ j # NoJob /\ status[j] \in InProgress /\ Attempts(j) = {}
    BY JobAtWork, NoneAssumption DEF SliceInv, WorkIsInProgress, QueuedIsSliced, InProgress
<1>2. /\ work' = NoWork /\ NoWork.job = NoJob /\ NoWork.written = {} /\ NoWork.left = {} /\ NoWork \in Work
    BY NoWorkFits DEF NoWork
<1>3. TypeOK'
    <2>1. cut' \in [Jobs -> [contents : Contents, plates : SUBSET Plates]]
        BY <1>1 DEF SliceInv, TypeOK, Work
    <2>2. /\ attempt' \in [Jobs -> [Plates -> {"none", "waiting", "claimed", "history"}]]
          /\ printer' \in [Jobs -> [Plates -> Printers \cup {None}]]
        <3>1. CASE MayRequeue(j)
            <4>1. /\ attempt' = [attempt EXCEPT ![j] =
                      [k \in Plates |-> IF k \in plates[j] /\ @[k] = "none" THEN "waiting" ELSE @[k]]]
                  /\ printer' = [printer EXCEPT ![j] = [k \in Plates |-> wish[j]]]
                BY <3>1 DEF RequeueAfterSlicing
            <4> HIDE DEF FinishJob
            <4> QED BY <1>1, <4>1 DEF SliceInv, TypeOK
        <3>2. CASE ~MayRequeue(j)
            BY <3>2 DEF SliceInv, TypeOK, RequeueAfterSlicing, queue
        <3> QED BY <3>1, <3>2
    <2>3. wish' \in [Jobs -> Printers \cup {None}] /\ hint' \subseteq Jobs
        BY <1>1 DEF SliceInv, TypeOK, RequeueAfterSlicing
    <2> QED BY <1>1, <1>2, <2>1, <2>2, <2>3 DEF SliceInv, TypeOK, content, restart
<1>4. CopiesCounted' /\ JobsAreOfOneKind'
    BY SameContents
<1>5. WorkIsInProgress' /\ WorkFitsContents' /\ WritesInOrder' /\ PlatesAreWritten'
    BY <1>2 DEF WorkIsInProgress, WorkFitsContents, WritesInOrder, PlatesAreWritten
<1>6. SlicedFitsContents' /\ SlicedJobIsComplete'
    BY <1>1 DEF SliceInv, TypeOK, SlicedFitsContents, WorkFitsContents, SlicedJobIsComplete, PlatesAreWritten,
           WritesInOrder, content, InProgress
<1>7. QueuedIsSliced' /\ LeftoversBeginAtOne'
    BY <1>1 DEF SliceInv, TypeOK, QueuedIsSliced, Attempts, LeftoversBeginAtOne, RequeueAfterSlicing, queue
<1> QED BY <1>3, <1>4, <1>5, <1>6, <1>7 DEF SliceInv

\* The worker gives its job up, by an error or by dying.
LEMMA StoppingKeeps ==
  ASSUME SliceInv, Fail \/ CrashWorker
  PROVE  SliceInv'
<1>1. /\ work' = NoWork /\ NoWork.job = NoJob /\ NoWork.written = {} /\ NoWork.left = {} /\ NoWork \in Work
      /\ step' = "idle" /\ step # "idle"
    BY NoWorkFits DEF NoWork, Fail, CrashWorker
<1>2. work.job \in Jobs /\ status[work.job] \in InProgress \cup {"deleted"}
    BY <1>1, JobAtWork DEF SliceInv, WorkIsInProgress
<1>3. WorkIsInProgress' /\ WorkFitsContents' /\ WritesInOrder' /\ PlatesAreWritten'
    BY <1>1 DEF WorkIsInProgress, WorkFitsContents, WritesInOrder, PlatesAreWritten
<1>4. CASE Fail
    <2>1. \/ UNCHANGED <<status, requeue>>
          \/ /\ status[work.job] \in InProgress
             /\ status' = [status EXCEPT ![work.job] = "failed"] /\ AbandonRequeue(work.job)
        BY <1>2, <1>4 DEF Fail
    <2>2. TypeOK'
        BY <1>1, <1>2, <1>4, <2>1 DEF Fail, AbandonRequeue, SliceInv, TypeOK, content, queue, requeue, restart
    <2>3. CopiesCounted' /\ JobsAreOfOneKind'
        BY <1>4, SameContents DEF Fail
    <2>4. SlicedFitsContents' /\ QueuedIsSliced' /\ LeftoversBeginAtOne' /\ SlicedJobIsComplete'
        <3>1. \A i \in Jobs : status'[i] = "sliced" <=> status[i] = "sliced"
            BY <1>2, <2>1 DEF SliceInv, TypeOK, InProgress
        <3>2. UNCHANGED <<contents, plates, cut, attempt, overtaken>>
            BY <1>4 DEF Fail, content, queue
        <3> QED BY <3>1, <3>2 DEF SliceInv, SlicedFitsContents, QueuedIsSliced, Attempts, LeftoversBeginAtOne,
                                  SlicedJobIsComplete
    <2> QED BY <1>3, <2>2, <2>3, <2>4 DEF SliceInv
<1>5. CASE CrashWorker
    <2>1. TypeOK'
        BY <1>1, <1>5 DEF CrashWorker, SliceInv, TypeOK, jobs, content, queue, requeue
    <2>2. CopiesCounted' /\ JobsAreOfOneKind'
        BY <1>5, SameContents DEF CrashWorker, jobs
    <2>3. SlicedFitsContents' /\ QueuedIsSliced' /\ LeftoversBeginAtOne' /\ SlicedJobIsComplete'
        BY <1>5 DEF CrashWorker, SliceInv, SlicedFitsContents, QueuedIsSliced, Attempts,
               LeftoversBeginAtOne, SlicedJobIsComplete, jobs, content, queue
    <2> QED BY <1>3, <2>1, <2>2, <2>3 DEF SliceInv
<1> QED BY <1>4, <1>5

LEMMA RecoverKeeps ==
  ASSUME SliceInv, Recover
  PROVE  SliceInv'
<1> USE DEF Recover
<1>1. TypeOK'
    <2>1. status' \in [Jobs -> {"absent", "draft", "pending", "slicing", "sliced", "failed", "deleted"}]
        BY DEF SliceInv, TypeOK
    <2>2. restarts' \in 0..MaxRestarts
        BY BoundsAssumption DEF SliceInv, TypeOK
    <2> QED BY <2>1, <2>2 DEF SliceInv, TypeOK, content, queue, requeue, worker
<1>2. CopiesCounted' /\ JobsAreOfOneKind'
    BY SameContents
<1>3. WorkIsInProgress' /\ WorkFitsContents' /\ WritesInOrder' /\ PlatesAreWritten'
    BY JobAtWork DEF SliceInv, WorkIsInProgress, WorkFitsContents, WritesInOrder, PlatesAreWritten, worker, content, InProgress
<1>4. SlicedFitsContents' /\ QueuedIsSliced' /\ LeftoversBeginAtOne' /\ SlicedJobIsComplete'
    BY DEF SliceInv, SlicedFitsContents, QueuedIsSliced, Attempts, LeftoversBeginAtOne,
           SlicedJobIsComplete, content, queue
<1> QED BY <1>1, <1>2, <1>3, <1>4 DEF SliceInv

-----------------------------------------------------------------------------
(* The queue.                                                              *)

\* Steps after which the jobs, the worker and the bookkeeping are the same.
LEMMA QueueStepKeeps ==
  ASSUME SliceInv, TypeOK', UNCHANGED <<status, content, plates, cut, worker, overtaken>>, QueuedIsSliced'
  PROVE  SliceInv'
BY DEF SliceInv, worker, content, OneKind, CopiesCounted, JobsAreOfOneKind, WorkIsInProgress, WorkFitsContents, SlicedFitsContents,
       WritesInOrder, PlatesAreWritten, LeftoversBeginAtOne, SlicedJobIsComplete

LEMMA QueueKeeps ==
  ASSUME SliceInv, NEW j \in Jobs
  PROVE  /\ \A some \in SUBSET Plates, p \in Printers : EnqueueSome(j, some, p) => SliceInv'
         /\ \A k \in Plates, from, to \in {"none", "waiting", "claimed", "history"} :
               from # "none" /\ AttemptMoves(j, k, from, to) => SliceInv'
         /\ CloseJob(j) \/ ReopenJob(j) => SliceInv'
<1> USE DEF SliceInv, TypeOK, QueuedIsSliced, Attempts
<1>1. ASSUME NEW some \in SUBSET Plates, NEW p \in Printers, EnqueueSome(j, some, p) PROVE SliceInv'
    <2>1. TypeOK' /\ QueuedIsSliced'
        BY <1>1 DEF EnqueueSome, jobs, content, worker, restart
    <2> QED BY <1>1, <2>1, QueueStepKeeps DEF EnqueueSome, jobs, content
<1>2. ASSUME NEW k \in Plates, NEW from \in {"waiting", "claimed", "history"},
             NEW to \in {"none", "waiting", "claimed", "history"}, AttemptMoves(j, k, from, to)
      PROVE  SliceInv'
    <2>1. TypeOK' /\ QueuedIsSliced'
        BY <1>2 DEF AttemptMoves, jobs, content, requeue, worker, restart
    <2> QED BY <1>2, <2>1, QueueStepKeeps DEF AttemptMoves, jobs, content
<1>3. CASE CloseJob(j)
    <2>1. TypeOK' /\ QueuedIsSliced'
        BY <1>3 DEF CloseJob, content, requeue, worker, restart
    <2> QED BY <1>3, <2>1, QueueStepKeeps DEF CloseJob, content
<1>4. CASE ReopenJob(j)
    <2>1. TypeOK' /\ QueuedIsSliced'
        BY <1>4 DEF ReopenJob, content, queue, requeue, worker, restart
    <2> HIDE DEF SliceInv, TypeOK, QueuedIsSliced
    <2> QED BY <1>4, <2>1, QueueStepKeeps DEF ReopenJob, content
<1> HIDE DEF SliceInv, TypeOK, QueuedIsSliced, Attempts
<1> QED BY <1>1, <1>2, <1>3, <1>4

LEMMA DeleteKeeps ==
  ASSUME SliceInv, NEW j \in Jobs, DeleteJob(j)
  PROVE  SliceInv'
<1> USE DEF DeleteJob
<1>1. TypeOK'
    BY DEF SliceInv, TypeOK, content, worker, restart, NoAttempts
<1>2. CopiesCounted' /\ JobsAreOfOneKind'
    BY SameContents
<1>3. WorkIsInProgress' /\ WorkFitsContents' /\ WritesInOrder' /\ PlatesAreWritten'
    BY DEF SliceInv, TypeOK, WorkIsInProgress, WorkFitsContents, WritesInOrder, PlatesAreWritten, worker, content, InProgress
<1>4. SlicedFitsContents' /\ QueuedIsSliced' /\ LeftoversBeginAtOne' /\ SlicedJobIsComplete'
    BY DEF SliceInv, TypeOK, SlicedFitsContents, QueuedIsSliced, Attempts, NoAttempts, LeftoversBeginAtOne,
           SlicedJobIsComplete, content
<1> QED BY <1>1, <1>2, <1>3, <1>4 DEF SliceInv

-----------------------------------------------------------------------------
LEMMA StepSliceInv == SliceInv /\ [Next]_vars => SliceInv'
<1> SUFFICES ASSUME SliceInv, [Next]_vars PROVE SliceInv'
    OBVIOUS
<1>1. CASE Claiming \/ Working \/ Editing
    BY <1>1, ClaimKeeps, ReadingKeeps, WriteKeeps, FinishKeeps, StoppingKeeps, EditingKeeps DEF Claiming, Working
<1>2. CASE Requests
    <2> PICK j \in Jobs :
            \/ \E profile \in Profiles \cup {None} : CreateJob(j, profile) \/ SetProfile(j, profile)
            \/ \E x \in Parts : CreateJobFromProject(j, x) \/ AddPart(j, x) \/ RemovePart(j, x)
            \/ AskForSlicing(j) \/ QueueForSlicing(j) \/ ResliceAndRequeue(j)
            \/ CloseJob(j) \/ ReopenJob(j) \/ DeleteJob(j)
            \/ \E p \in Printers :
                  \/ \E k \in Plates : EnqueueSome(j, {k}, p)
                  \/ EnqueueSome(j, plates[j] \ Attempts(j), p)
        BY <1>2 DEF Requests
    <2>1. CASE \E p \in Printers : \/ \E k \in Plates : EnqueueSome(j, {k}, p)
                                   \/ EnqueueSome(j, plates[j] \ Attempts(j), p)
        <3>1. PICK p \in Printers, some \in SUBSET Plates : EnqueueSome(j, some, p)
            BY <2>1 DEF SliceInv, TypeOK
        <3> QED BY <3>1, QueueKeeps
    <2>2. CASE CloseJob(j) \/ ReopenJob(j) \/ DeleteJob(j)
        BY <2>2, QueueKeeps, DeleteKeeps
    <2>3. CASE AskForSlicing(j) \/ QueueForSlicing(j) \/ ResliceAndRequeue(j)
        BY <2>3, RequestsKeep
    <2> QED BY <2>1, <2>2, <2>3, EditsKeep
<1>3. CASE Printing
    BY <1>3, QueueKeeps DEF Printing
<1>4. CASE CrashWorker \/ Recover
    BY <1>4, StoppingKeeps, RecoverKeeps
<1>5. ASSUME NEW p \in Printers, SetUsable(p) PROVE SliceInv'
    <2>1. TypeOK' /\ QueuedIsSliced'
        BY <1>5 DEF SetUsable, SliceInv, TypeOK, QueuedIsSliced, Attempts, jobs, content, queue, requeue, worker, restart
    <2> QED BY <1>5, <2>1, QueueStepKeeps DEF SetUsable, jobs, content
<1>6. CASE UNCHANGED vars
    <2>1. TypeOK' /\ QueuedIsSliced'
        BY <1>6 DEF vars, SliceInv, TypeOK, QueuedIsSliced, Attempts, jobs, content, queue, requeue, worker, restart
    <2> QED BY <1>6, <2>1, QueueStepKeeps DEF vars, jobs, content
<1> QED BY <1>1, <1>2, <1>3, <1>4, <1>5, <1>6 DEF Next

\* The inductive invariant, from which the theorems below follow.
THEOREM SliceInvAlways == Spec => []SliceInv
BY InitSliceInv, StepSliceInv, PTL DEF Spec

\* Every job has the values of its columns; the copies of a part are no more than the edits.
THEOREM SliceTypes == Spec => []TypeOK
<1>1. SliceInv => TypeOK
    BY DEF SliceInv
<1> QED BY <1>1, SliceInvAlways, PTL

\* What is sliced or queued was cut from the contents the job shows, and all parts of it
\* that were not edited in the job have the job's preset and one filament.
THEOREM PlatesAlwaysFit == Spec => []PlatesFitContents
<1>1. SliceInv => PlatesFitContents
    BY DEF SliceInv, PlatesFitContents, Untouched, SlicedFitsContents, QueuedIsSliced, JobsAreOfOneKind, OneKind
<1> QED BY <1>1, SliceInvAlways, PTL

\* A job that ends sliced has the plates of its last slicing, no leftovers of an earlier one.
THEOREM SlicedJobsAreComplete == Spec => []SlicedJobIsComplete
<1>1. SliceInv => SlicedJobIsComplete
    BY DEF SliceInv
<1> QED BY <1>1, SliceInvAlways, PTL

-----------------------------------------------------------------------------
(* The wish to be queued again.                                            *)

\* How a step may answer the wish of job j, the body of WishIsAnswered.
Answered(j) ==
    \/ status'[j] = "sliced" /\ wish[j] \in usable
          /\ \A k \in plates'[j] : attempt'[j][k] = "waiting" /\ printer'[j][k] = wish[j]
    \/ status'[j] \in {"sliced", "failed"} /\ j \in hint'
    \/ status'[j] \in {"pending", "deleted"}

\* The plates of a job in slicing are not queued, so that all of them are when it ends.
LEMMA FinishAnswers ==
  ASSUME SliceInv, FinishJob, NEW j \in Jobs, wish[j] # None, wish'[j] = None
  PROVE  Answered(j)
<1>1. work.job = j
    BY DEF FinishJob, RequeueAfterSlicing, SliceInv, TypeOK
<1>2. status'[j] = "sliced" /\ plates'[j] = plates[j] /\ RequeueAfterSlicing(j)
    BY <1>1 DEF FinishJob, SliceInv, TypeOK
<1>3. CASE MayRequeue(j)
    <2>1. /\ attempt' = [attempt EXCEPT ![j] =
                  [k \in Plates |-> IF k \in plates[j] /\ @[k] = "none" THEN "waiting" ELSE @[k]]]
          /\ printer' = [printer EXCEPT ![j] = [k \in Plates |-> wish[j]]]
          /\ wish[j] \in usable
        BY <1>2, <1>3 DEF RequeueAfterSlicing, MayRequeue
    <2>2. \A k \in Plates : attempt[j][k] = "none"
        BY <1>1, NoneAssumption DEF FinishJob, WorkerStep, SliceInv, WorkIsInProgress, QueuedIsSliced, Attempts, InProgress
    <2>3. plates[j] \subseteq Plates
        BY DEF SliceInv, TypeOK
    <2>4. \A k \in plates[j] : attempt'[j][k] = "waiting" /\ printer'[j][k] = wish[j]
        BY <2>1, <2>2, <2>3 DEF SliceInv, TypeOK
    <2> QED BY <1>2, <2>1, <2>4 DEF Answered
<1>4. CASE ~MayRequeue(j)
    BY <1>2, <1>4 DEF RequeueAfterSlicing, Answered
<1> QED BY <1>3, <1>4

LEMMA StepAnswers ==
  ASSUME SliceInv, [Next]_vars, NEW j \in Jobs, wish[j] # None, wish'[j] = None
  PROVE  Answered(j)
<1>1. \/ UNCHANGED wish
      \/ \E i \in Jobs : QueueForSlicing(i) \/ ResliceAndRequeue(i) \/ DeleteJob(i)
      \/ Fail \/ FinishJob
    <2>1. CASE Claiming \/ Working \/ Editing
        BY <2>1 DEF Claiming, Working, Editing, EditPart, EditDefault, ChangeSettings, ClaimJob, ReadJob, SlicerReturns, WritePlate, SavePlate, requeue
    <2>2. CASE Requests
        BY <2>2 DEF Requests, CreateJob, SetProfile, CreateJobFromProject, AddPart, RemovePart, Create, ChangeContents,
                    AskForSlicing, CloseJob, ReopenJob, EnqueueSome, requeue
    <2>3. CASE Printing
        BY <2>3 DEF Printing, AttemptMoves, requeue
    <2>4. CASE CrashWorker \/ Recover \/ (\E p \in Printers : SetUsable(p)) \/ UNCHANGED vars
        BY <2>4 DEF CrashWorker, Recover, SetUsable, vars, requeue
    <2> QED BY <2>1, <2>2, <2>3, <2>4 DEF Next
<1>2. ASSUME NEW i \in Jobs, QueueForSlicing(i) PROVE Answered(j)
    <2>1. wish' = [wish EXCEPT ![i] = None] /\ status' = [status EXCEPT ![i] = "pending"]
        BY <1>2 DEF QueueForSlicing, requeue
    <2> QED BY <2>1 DEF SliceInv, TypeOK, Answered
<1>3. ASSUME NEW i \in Jobs, ResliceAndRequeue(i) PROVE Answered(j)
    BY <1>3, NoneAssumption DEF ResliceAndRequeue, StartResliceAndRequeue, SliceInv, TypeOK, Answered
<1>4. ASSUME NEW i \in Jobs, DeleteJob(i) PROVE Answered(j)
    BY <1>4 DEF DeleteJob, SliceInv, TypeOK, Answered
<1>5. CASE Fail
    <2>1. /\ wish' = [wish EXCEPT ![work.job] = None]
          /\ hint' = IF wish[work.job] = None THEN hint ELSE hint \cup {work.job}
          /\ status' = [status EXCEPT ![work.job] = "failed"]
        BY <1>5 DEF Fail, requeue, AbandonRequeue
    <2> QED BY <2>1 DEF SliceInv, TypeOK, Answered
<1> QED BY <1>1, <1>2, <1>3, <1>4, <1>5, FinishAnswers

\* A wish to queue a job again after slicing ends with all of its plates waiting on the
\* remembered printer, with a hint to the user, or with a new slicing or the job's end.
THEOREM WishesAreAnswered == Spec => WishIsAnswered
<1>1. SliceInv /\ [Next]_vars =>
         [\A j \in Jobs : wish[j] # None /\ wish'[j] = None => Answered(j)]_vars
    BY StepAnswers
<1> QED BY <1>1, SliceInvAlways, PTL DEF Spec, WishIsAnswered, Answered
=============================================================================
