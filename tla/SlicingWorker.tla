---------------------------- MODULE SlicingWorker ----------------------------
(***************************************************************************)
(* The OrcaSlicer worker: at most one thread, over all web processes, that *)
(* slices pending jobs and estimates pending parts, one item at a time.    *)
(* Every process may start it after queueing an item.  A flag in the       *)
(* process and a file lock between the processes keep it unique; a final   *)
(* check, a hand-over of the held lock and bounded retries are to keep     *)
(* items from being left behind when it stops.  A process that (re)starts  *)
(* resets the items a dead worker left in progress.                        *)
(***************************************************************************)
EXTENDS Naturals, FiniteSets

CONSTANTS
    Processes,     \* gunicorn worker processes
    JobItems, PartItems,   \* the items, as numbers in primary key order
    Retries,       \* LOCK_ACQUIRE_RETRIES
    Free,          \* the file lock is not held
    MaxRequests,   \* bound: requests that queue an item
    MaxCrashes,    \* bound: deaths of a process
    MaxFaults      \* bound: database errors and threads that cannot be started

Items == JobItems \cup PartItems

ASSUME ItemsAssumption ==
    JobItems \subseteq Nat /\ PartItems \subseteq Nat /\ JobItems \cap PartItems = {} /\ 0 \notin Items
ASSUME RetriesAssumption == Retries \in Nat
ASSUME FreeAssumption == Free \notin Processes
ASSUME WorkerBoundsAssumption == MaxRequests \in Nat /\ MaxCrashes \in Nat /\ MaxFaults \in Nat

VARIABLES
    state,     \* of each item: "none", "pending", "working" or "done"
    lock,      \* holder of the file lock
    flag,      \* _orcaslicer_worker_active of each process
    thread,    \* where the worker thread of each process is
    tries,     \* its attempts to get the lock
    task,      \* the item it works on
    request,   \* a request that has queued an item and has yet to start the worker
    boot,      \* recovery of each process: "down", "reset", "check", "start" or "up"
    requests, crashes, faults

process == <<lock, flag, thread, tries, task>>
counters == <<requests, crashes, faults>>
workerVars == <<state, process, request, boot, counters>>

Pending == {i \in Items : state[i] = "pending"}

\* The worker thread that has the file lock.
Holding == {"pick", "work", "final", "handOver", "release"}

\* The thread holds _orcaslicer_worker_lock of its process.
InLock(p) == thread[p] \in {"release", "clear"}

At(p, here, there) == thread[p] = here /\ thread' = [thread EXCEPT ![p] = there]

Fault == faults < MaxFaults /\ faults' = faults + 1 /\ UNCHANGED <<requests, crashes>>

-----------------------------------------------------------------------------
WorkerInit ==
    /\ state = [i \in Items |-> "none"]
    /\ lock = Free
    /\ flag = [p \in Processes |-> FALSE]
    /\ thread = [p \in Processes |-> "none"]
    /\ tries = [p \in Processes |-> 0]
    /\ task = [p \in Processes |-> 0]
    /\ request = [p \in Processes |-> FALSE]
    /\ boot = [p \in Processes |-> "reset"]
    /\ requests = 0 /\ crashes = 0 /\ faults = 0

(***************************************************************************)
(* Requests and the start of the thread.                                   *)
(***************************************************************************)

\* A web request queues an item: a job that is not being sliced, a part at any time.
Queue(p, i) ==
    /\ boot[p] # "down" /\ ~request[p]
    /\ requests < MaxRequests
    /\ i \in JobItems => state[i] \in {"none", "done"}
    /\ state' = [state EXCEPT ![i] = "pending"]
    /\ request' = [request EXCEPT ![p] = TRUE]
    /\ requests' = requests + 1
    /\ UNCHANGED <<process, boot, crashes, faults>>

\* The thread of a raised flag: running, or not to be had ("unborn").
Spawn(p) ==
    /\ flag' = [flag EXCEPT ![p] = TRUE]
    /\ tries' = [tries EXCEPT ![p] = 0]
    /\ \/ At(p, "none", "acquire") /\ UNCHANGED counters
       \/ At(p, "none", "unborn") /\ Fault
    /\ UNCHANGED <<lock, task>>

\* _start_orcaslicer_worker
StartWorker(p) ==
    /\ ~InLock(p)
    /\ IF flag[p] THEN UNCHANGED <<process, counters>> ELSE Spawn(p)

RequestStarts(p) ==
    /\ request[p]
    /\ StartWorker(p)
    /\ request' = [request EXCEPT ![p] = FALSE]
    /\ UNCHANGED <<state, boot>>

(***************************************************************************)
(* Taking the file lock.                                                   *)
(***************************************************************************)

TryLock(p, here, otherwise) ==
    /\ IF lock = Free
       THEN lock' = p /\ At(p, here, "pick")
       ELSE UNCHANGED lock /\ At(p, here, otherwise)
    /\ UNCHANGED <<state, flag, task, request, boot, counters>>

Acquire(p) == TryLock(p, "acquire", "locked") /\ UNCHANGED tries

MayTryAgain(p) == tries[p] < Retries

\* The lock is taken: wait for a while if there is something to do.
Backoff(p) ==
    /\ MayTryAgain(p) /\ Pending # {}
    /\ At(p, "locked", "sleep")
    /\ tries' = [tries EXCEPT ![p] = @ + 1]
    /\ UNCHANGED <<state, lock, flag, task, request, boot, counters>>

\* The delay is far longer than a release takes.
TryAgain(p) ==
    /\ \A q \in Processes : thread[q] # "release"
    /\ TryLock(p, "sleep", "locked")
    /\ UNCHANGED tries

\* Retries used up, nothing pending, or the database cannot tell.
StopTrying(p) ==
    /\ At(p, "locked", "giveUp")
    /\ \/ (~MayTryAgain(p) \/ Pending = {}) /\ UNCHANGED counters
       \/ MayTryAgain(p) /\ Fault
    /\ UNCHANGED <<state, lock, flag, tries, task, request, boot>>

GiveUp(p) ==
    /\ At(p, "giveUp", "none")
    /\ flag' = [flag EXCEPT ![p] = FALSE]
    /\ UNCHANGED <<state, lock, tries, task, request, boot, counters>>

(***************************************************************************)
(* Working.                                                                *)
(***************************************************************************)

\* Jobs go before parts, in primary key order.
Earlier(i, k) == (i \in JobItems /\ k \in PartItems) \/ ((i \in JobItems <=> k \in JobItems) /\ i < k)

\* The claim is a conditional update: it takes effect only on a pending item.
Pick(p) ==
    /\ \E i \in Pending :
          /\ \A k \in Pending \ {i} : Earlier(i, k)
          /\ state' = [state EXCEPT ![i] = "working"]
          /\ task' = [task EXCEPT ![p] = i]
    /\ At(p, "pick", "work")
    /\ UNCHANGED <<lock, flag, tries, request, boot, counters>>

PickNothing(p) ==
    /\ At(p, "pick", "final")
    /\ \/ Pending = {} /\ UNCHANGED counters
       \/ Fault
    /\ UNCHANGED <<state, lock, flag, tries, task, request, boot>>

\* A job ends sliced or failed, whatever was done to its status meanwhile; a part's
\* result counts only if the part was not reset or requested again.
Completed(i) == IF i \in PartItems /\ state[i] # "working" THEN state[i] ELSE "done"

\* What the work leaves behind: a result; "none" for a part without a file or a
\* preset, also if it has been requested again; or nothing at all for a part
\* whose preset no machine can print.
Outcomes(i) == {Completed(i)} \cup (IF i \in PartItems THEN {"none", state[i]} ELSE {})

WorkOnItem(p) ==
    /\ At(p, "work", "pick")
    /\ \E result \in Outcomes(task[p]) : state' = [state EXCEPT ![task[p]] = result]
    /\ task' = [task EXCEPT ![p] = 0]
    /\ UNCHANGED <<lock, flag, tries, request, boot, counters>>

\* An error that the error handling itself runs into (the database is locked).
WorkRaises(p) ==
    /\ At(p, "work", "final")
    /\ Fault
    /\ task' = [task EXCEPT ![p] = 0]
    /\ UNCHANGED <<state, lock, flag, tries, request, boot>>

(***************************************************************************)
(* Stopping.                                                               *)
(***************************************************************************)

\* Fault: the worker stops without a last look at the queue.
StopBlindly(p) ==
    /\ At(p, "final", "release")
    /\ UNCHANGED <<state, lock, flag, tries, task, request, boot, counters>>

Final(p) ==
    /\ \/ Pending = {} /\ At(p, "final", "release") /\ UNCHANGED counters
       \/ Pending # {} /\ At(p, "final", "handOver") /\ UNCHANGED counters
       \/ At(p, "final", "release") /\ Fault
    /\ UNCHANGED <<state, lock, flag, tries, task, request, boot>>

\* Fault: the lock is given up before the new thread takes over.
HandOverWithoutLock(p) ==
    /\ At(p, "handOver", "pick") /\ lock' = Free
    /\ UNCHANGED <<state, flag, tries, task, request, boot, counters>>

\* A new thread goes on with the lock still held, or cannot be started.
HandOver(p) ==
    /\ \/ At(p, "handOver", "pick") /\ UNCHANGED counters
       \/ At(p, "handOver", "release") /\ Fault
    /\ UNCHANGED <<state, lock, flag, tries, task, request, boot>>

Release(p) ==
    /\ At(p, "release", "clear")
    /\ lock' = Free
    /\ UNCHANGED <<state, flag, tries, task, request, boot, counters>>

Clear(p) ==
    /\ At(p, "clear", "none")
    /\ flag' = [flag EXCEPT ![p] = FALSE]
    /\ UNCHANGED <<state, lock, tries, task, request, boot, counters>>

(***************************************************************************)
(* Deaths and restarts of processes.                                       *)
(***************************************************************************)

Crash(p) ==
    /\ crashes < MaxCrashes /\ boot[p] # "down"
    /\ crashes' = crashes + 1
    /\ boot' = [boot EXCEPT ![p] = "down"]
    /\ lock' = IF lock = p THEN Free ELSE lock
    /\ flag' = [flag EXCEPT ![p] = FALSE]
    /\ thread' = [thread EXCEPT ![p] = "none"]
    /\ tries' = [tries EXCEPT ![p] = 0]
    /\ task' = [task EXCEPT ![p] = 0]
    /\ request' = [request EXCEPT ![p] = FALSE]
    /\ UNCHANGED <<state, requests, faults>>

BootStep(p, here, there) == boot[p] = here /\ boot' = [boot EXCEPT ![p] = there]

Restart(p) ==
    /\ BootStep(p, "down", "reset")
    /\ UNCHANGED <<state, process, request, counters>>

\* Fault: items in progress are left alone.
ResetNothing(p) == BootStep(p, "reset", "check") /\ UNCHANGED <<state, process, request, counters>>

\* _recover_stuck_items
ResetItems(p) ==
    /\ BootStep(p, "reset", "check")
    /\ state' = [i \in Items |-> IF state[i] = "working" THEN "pending" ELSE state[i]]
    /\ UNCHANGED <<process, request, counters>>

RecoveryLooks(p) ==
    /\ BootStep(p, "check", IF Pending = {} THEN "up" ELSE "start")
    /\ UNCHANGED <<state, process, request, counters>>

RecoveryStarts(p) ==
    /\ BootStep(p, "start", "up")
    /\ StartWorker(p)
    /\ UNCHANGED <<state, request>>

\* A database error ends the recovery, whatever it has not done yet.
RecoveryFails(p) ==
    /\ BootStep(p, "reset", "up") \/ BootStep(p, "check", "up")
    /\ Fault
    /\ UNCHANGED <<state, process, request>>

-----------------------------------------------------------------------------
ThreadStep(p) ==
    \/ Acquire(p) \/ Backoff(p) \/ TryAgain(p) \/ StopTrying(p) \/ GiveUp(p)
    \/ Pick(p) \/ PickNothing(p) \/ WorkOnItem(p) \/ WorkRaises(p)
    \/ Final(p) \/ HandOver(p) \/ Release(p) \/ Clear(p)

RecoveryStep(p) ==
    Restart(p) \/ ResetItems(p) \/ RecoveryLooks(p) \/ RecoveryStarts(p) \/ RecoveryFails(p)

WorkerNext == \E p \in Processes :
    \/ \E i \in Items : Queue(p, i)
    \/ RequestStarts(p)
    \/ ThreadStep(p)
    \/ RecoveryStep(p)
    \/ Crash(p)

WorkerSpec == WorkerInit /\ [][WorkerNext]_workerVars

\* Threads run, requests end, and gunicorn replaces dead processes.  Nothing is
\* assumed about new requests.
WorkerFairness == \A p \in Processes : /\ WF_workerVars(ThreadStep(p))
                                 /\ WF_workerVars(RequestStarts(p))
                                 /\ WF_workerVars(RecoveryStep(p))

WorkerFairSpec == WorkerSpec /\ WorkerFairness

-----------------------------------------------------------------------------
(* Properties.                                                             *)

WorkerStates == {"none", "unborn", "acquire", "locked", "sleep", "giveUp", "clear"} \cup Holding

\* The threads are in the states of the loop, and none tries more often for the lock
\* than LOCK_ACQUIRE_RETRIES allows.
WorkerTypeOK ==
    /\ state \in [Items -> {"none", "pending", "working", "done"}]
    /\ lock \in Processes \cup {Free}
    /\ flag \in [Processes -> BOOLEAN]
    /\ thread \in [Processes -> WorkerStates]
    /\ tries \in [Processes -> 0..Retries]
    /\ task \in [Processes -> Items \cup {0}]
    /\ request \in [Processes -> BOOLEAN]
    /\ boot \in [Processes -> {"down", "reset", "check", "start", "up"}]
    /\ requests \in 0..MaxRequests /\ crashes \in 0..MaxCrashes /\ faults \in 0..MaxFaults

\* At most one thread over all processes works, also across hand-overs, failures
\* and restarts: exactly the holder of the file lock.
OneWorker == \A p \in Processes : thread[p] \in Holding <=> lock = p

\* The flag is up exactly while the process has a worker thread (or has failed to
\* start one): no path out of the thread leaves it up, which would keep the process
\* from ever starting a worker again, and none lowers it early.
FlagFollowsThread == \A p \in Processes : flag[p] <=> thread[p] # "none"

\* Somebody works on the item, or a process has yet to find it when it recovers, or
\* an error handler failed.
Attended(i) ==
    \/ \E p \in Processes : thread[p] = "work" /\ task[p] = i
    \/ \E p \in Processes : boot[p] \in {"down", "reset"}
    \/ faults > 0

\* apps.py:19-22: a job in the state "slicing" that nobody slices was being sliced by
\* a process that died, and the recovery of that process finds it.
NoOrphanedJob == \A i \in JobItems : state[i] = "working" => Attended(i)

\* An item that is pending before the worker's last look is not left behind, whichever
\* process dies: unless threads cannot be started or the database fails.
Serving == \E p \in Processes : thread[p] \in {"pick", "work", "final", "handOver"}
PendingIsPicked ==
    \A i \in Items : (i \in Pending /\ Serving) ~> (i \notin Pending \/ faults > 0)

\* services/slicing_worker.py:50-54 and 131-134: nobody gives up while an item is left
\* to no one.  With all threads, requests and recoveries at their end, nothing is pending.
Quiet == \A p \in Processes : thread[p] = "none" /\ ~request[p] /\ boot[p] = "up"
NothingStranded == Quiet => Pending = {}
=============================================================================
