-------------------------- MODULE MoonrakerWorker --------------------------
(***************************************************************************)
(* The moonraker_worker process (core/management/commands/                 *)
(* moonraker_worker.py): a supervisor with one task per configured printer *)
(* and two loops, the reconciler of the tasks with the printers in the     *)
(* database and the loop that executes due scheduled starts (module        *)
(* ScheduledStart).                                                        *)
(*                                                                         *)
(* What a task does with its printer's notifications is module             *)
(* PrinterSync; here a task is the configuration it was started with and   *)
(* whether it runs, has been cancelled but not yet unwound, or has ended.  *)
(* The reconciler's pass awaits the database between its steps, so the     *)
(* configuration changes under it.                                         *)
(***************************************************************************)
EXTENDS ScheduledStart, FiniteSets

CONSTANTS
    Worker,         \* the worker process; other callers have no listeners here
    MaxEdits,       \* bound on the changes of printer configurations
    MaxCrashes      \* bound on the tasks that crash

ASSUME WorkerAssumption == Worker \in Callers /\ MaxEdits \in Nat /\ MaxCrashes \in Nat

Versions == 0 .. MaxEdits

(* A task of a printer: an entry of the supervisor's set. *)
Task == [printer : Printers, config : Versions, state : {"running", "cancelled", "ended"},
         serial : Nat \ {0}]

(* An entry of the reconciler's map "active". *)
Watched == [serial : Nat \ {0}, snapshot : Versions]

ASSUME WatchedAssumption == None \notin Watched

VARIABLES
    config,     \* printer -> version of its configuration (updated_at), None if not configured
    tasks,      \* the per-printer tasks of the process
    active,     \* the reconciler's map: printer -> its task and snapshot, None if absent
    sweep,      \* the pass of the reconciler: its snapshots and its step
    edits,      \* number of changes of configurations so far
    crashes     \* number of crashes of tasks so far

listenerVars == << config, tasks, active, sweep, edits, crashes >>
vars == << scheduleVars, listenerVars >>

NoSweep == [step |-> "idle", snapshots |-> [p \in Printers |-> None], todo |-> {}]

TypeOK ==
    /\ ScheduleTypeOK
    /\ config \in [Printers -> Versions \cup {None}]
    /\ tasks \subseteq Task
    /\ active \in [Printers -> Watched \cup {None}]
    /\ sweep \in [step : {"idle", "pruning", "spawning"},
                  snapshots : [Printers -> Versions \cup {None}],
                  todo : SUBSET Printers]
    /\ edits \in 0 .. MaxEdits /\ crashes \in 0 .. MaxCrashes

Init ==
    /\ ScheduleInit
    /\ config \in [Printers -> {0, None}]
    /\ tasks = {}
    /\ active = [p \in Printers |-> None]
    /\ sweep = NoSweep
    /\ edits = 0 /\ crashes = 0

-----------------------------------------------------------------------------
(* The name of a new task: the least that no task bears. *)
FreshSerial ==
    LET used == {t.serial : t \in tasks} IN
    {n \in 1 .. Cardinality(tasks) + 1 : n \notin used /\ 1 .. n - 1 \subseteq used}

IsDone(serial) == \A t \in tasks : t.serial = serial => t.state = "ended"
WithState(t, s) == [t EXCEPT !.state = s]

(* A user adds, changes or removes a printer's connection: every save      *)
(* renews updated_at.                                                      *)
EditPrinter(p) ==
    /\ edits < MaxEdits
    /\ edits' = edits + 1
    /\ \E v \in {edits + 1, None} : config' = [config EXCEPT ![p] = v]
    /\ config' # config
    /\ UNCHANGED << scheduleVars, tasks, active, sweep, crashes >>

(* _run_printer ends with an exception, or returns. *)
Crash(t) ==
    /\ t.state = "running"
    /\ crashes < MaxCrashes
    /\ crashes' = crashes + 1
    /\ tasks' = (tasks \ {t}) \cup {WithState(t, "ended")}
    /\ UNCHANGED << scheduleVars, config, active, sweep, edits >>

(* A cancelled task has unwound (the finally block of _run_printer, which  *)
(* waits for its stale-dialog task and its pending actions).               *)
Unwind(t) ==
    /\ t.state = "cancelled"
    /\ tasks' = tasks \ {t}
    /\ UNCHANGED << scheduleVars, config, active, sweep, edits, crashes >>

(* _reconcile_printers, up to its first await. *)
LoadSnapshots ==
    /\ sweep.step = "idle"
    /\ sweep' = [step |-> "pruning", snapshots |-> config, todo |-> {}]
    /\ UNCHANGED << scheduleVars, config, tasks, active, edits, crashes >>

\* Fault: tasks that have ended are not dropped.
NeverDropped(p) == FALSE

(* An ended task leaves the map, so that it is started again. *)
MustDrop(p) == IsDone(active[p].serial)

(* A task is cancelled if its printer is gone or has changed. *)
MustCancel(p) == active[p].snapshot # sweep.snapshots[p]

WatchedPrinters == {p \in Printers : active[p] # None}
Dropped == {p \in WatchedPrinters : MustDrop(p)}
Cancelled == {p \in WatchedPrinters \ Dropped : MustCancel(p)}

\* Fault: a task is taken out of the map without being cancelled.
TasksForgotten == {t \in tasks : t.state # "ended"}

(* The tasks after the pruning: dropped ones are gone, cancelled ones have *)
(* still to unwind.                                                        *)
TasksPruned ==
    LET stopped == {active[p].serial : p \in Cancelled} IN
    {IF t.serial \in stopped THEN WithState(t, "cancelled") ELSE t :
        t \in {u \in tasks : \A p \in Dropped : u.serial # active[p].serial}}

(* The pruning and the cancelling run without an await in between. *)
Prune ==
    /\ sweep.step = "pruning"
    /\ tasks' = TasksPruned
    /\ active' = [p \in Printers |-> IF p \in Dropped \cup Cancelled THEN None ELSE active[p]]
    /\ sweep' = [sweep EXCEPT !.step = "spawning",
                              !.todo = {p \in Printers : sweep.snapshots[p] # None /\ active'[p] = None}]
    /\ UNCHANGED << scheduleVars, config, edits, crashes >>

(* One turn of the spawn loop: the printer is loaded again, so the task    *)
(* may run with a newer configuration than the snapshot kept with it.      *)
Spawn(p) ==
    /\ sweep.step = "spawning"
    /\ p \in sweep.todo
    /\ sweep' = [sweep EXCEPT !.todo = @ \ {p}]
    /\ IF config[p] = None
       THEN UNCHANGED << tasks, active >>
       ELSE \E n \in FreshSerial :
            /\ tasks' = tasks \cup {[printer |-> p, config |-> config[p],
                                     state |-> "running", serial |-> n]}
            /\ active' = [active EXCEPT ![p] =
                 [serial |-> n, snapshot |-> sweep.snapshots[p]]]
    /\ UNCHANGED << scheduleVars, config, edits, crashes >>

(* The pass is over: the loop waits for the reload interval. *)
EndSweep ==
    /\ sweep.step = "spawning"
    /\ sweep.todo = {}
    /\ sweep' = NoSweep
    /\ UNCHANGED << scheduleVars, config, tasks, active, edits, crashes >>

(* A query of the pass fails (database locked): the loop logs it and comes *)
(* round again, with the map as far as it was updated.                     *)
AbortSweep ==
    /\ sweep.step # "idle"
    /\ crashes < MaxCrashes
    /\ crashes' = crashes + 1
    /\ sweep' = NoSweep
    /\ UNCHANGED << scheduleVars, config, tasks, active, edits >>

(* The worker process dies with all its tasks and is started again. *)
WorkerDies ==
    /\ Die(Worker)
    /\ tasks' = {}
    /\ active' = [p \in Printers |-> None]
    /\ sweep' = NoSweep
    /\ UNCHANGED << config, edits, crashes >>

Reconcile == LoadSnapshots \/ Prune \/ (\E p \in Printers : Spawn(p)) \/ EndSweep

Next ==
    \/ (UserActions \/ Tick) /\ UNCHANGED listenerVars
    \/ \E c \in Callers : CallerStep(c) /\ UNCHANGED listenerVars
    \/ \E c \in Callers \ {Worker} : Die(c) /\ UNCHANGED listenerVars
    \/ \E p \in Printers : EditPrinter(p)
    \/ \E t \in tasks : Crash(t) \/ Unwind(t)
    \/ Reconcile \/ AbortSweep \/ WorkerDies

Spec == Init /\ [][Next]_vars

(* The two loops of the worker go on and a cancelled task unwinds; nothing *)
(* is assumed of users, of the clock and of other callers.                 *)
FairSpec ==
    /\ Spec
    /\ WF_vars(Reconcile)
    /\ WF_vars(CallerStep(Worker) /\ UNCHANGED listenerVars)
    /\ WF_vars(\E t \in tasks : Unwind(t))

-----------------------------------------------------------------------------
RunningTasks(p) == {t \in tasks : t.printer = p /\ t.state = "running"}

(* Every printer has at most one listener that is not being cancelled, and *)
(* the reconciler knows it: two would apply each notification of a print   *)
(* twice, and one the reconciler has forgotten could never be stopped      *)
(* (_reconcile_printers).                                                  *)
OneListener ==
    \A p \in Printers : \A t \in RunningTasks(p) :
        /\ active[p] # None /\ active[p].serial = t.serial
        /\ \A u \in RunningTasks(p) : u = t

(* The listeners end up as the database says, whatever crashes, dies or    *)
(* changes during a pass: a configured printer is listened to with its     *)
(* present configuration, any other not at all.                            *)
ListenersFollowConfig ==
    \A p \in Printers :
        <>[](IF config[p] = None THEN RunningTasks(p) = {}
             ELSE \E t \in RunningTasks(p) : t.config = config[p])
=============================================================================
