--------------------------- MODULE ScheduledStart ---------------------------
(***************************************************************************)
(* One-shot scheduled starts (core/services/scheduled_start.py and the two *)
(* views of the queue page that set and cancel them).                      *)
(*                                                                         *)
(* A row asks for one start of the next queue entry of a printer.  Several *)
(* callers may execute due rows at the same time (the worker's loop, and   *)
(* another worker while the container is replaced): each reads the due     *)
(* rows once, then claims them one by one by an update that repeats what   *)
(* was read, starts, and stores the outcome.  Users move and cancel the    *)
(* schedules meanwhile, and a caller may die after any write.              *)
(*                                                                         *)
(* What start_next_for_printer does to the queue is module PrintQueue;     *)
(* here only the kind of its outcome is used.                              *)
(***************************************************************************)
EXTENDS Integers

CONSTANTS
    Printers,       \* printers with a schedule
    Callers,        \* processes that execute due schedules
    MaxRows,        \* bound on the number of rows ever created
    MaxTime,        \* bound on the clock
    MaxLateness,    \* SCHEDULED_START_MAX_LATENESS_MINUTES
    MaxDeaths,      \* bound on the deaths of callers
    QuickDatabase,  \* TRUE: time passes only while callers wait or start a print
    None            \* no value

ASSUME BoundsAssumption ==
    /\ MaxRows \in Nat /\ MaxTime \in Nat
    /\ MaxLateness \in Nat /\ MaxDeaths \in Nat
    /\ QuickDatabase \in BOOLEAN

RowIds == 1 .. MaxRows
Time == 0 .. MaxTime

(* A row of core_scheduledqueuestart.  "message" keeps only the part of    *)
(* result_message that tells the outcomes apart: "unknown" is the text     *)
(* that stays if the caller dies during the start.                         *)
ScheduledQueueStart ==
    [printer : Printers,
     startAt : Time,
     status  : {"pending", "started", "skipped", "failed", "cancelled"},
     message : {"", "missed", "unknown", "outcome"}]

ASSUME NoneAssumption == None \notin ScheduledQueueStart \cup RowIds

(* A due row as a caller has read it, and whether it is too late at the    *)
(* time the caller took for its run ("now", fixed when the run begins).    *)
Read == [id : RowIds, startAt : Time, late : BOOLEAN]

VARIABLES
    clock,      \* the time
    rows,       \* the table: id -> row, None while not created
    pass,       \* caller -> its run of run_due_scheduled_starts
    attempts,   \* history: calls of start_next_for_printer for each row
    lateBy,     \* history: how late the latest call for each row came
    deaths      \* deaths of callers so far

scheduleVars == << clock, rows, pass, attempts, lateBy, deaths >>

(* A run: the rows it has still to look at, the row it is executing and    *)
(* the step it is at.                                                      *)
Pass == [due : SUBSET Read, row : RowIds \cup {None},
         step : {"idle", "claiming", "calling", "storing"}]
Idle == [due |-> {}, row |-> None, step |-> "idle"]

ScheduleTypeOK ==
    /\ clock \in Time
    /\ rows \in [RowIds -> ScheduledQueueStart \cup {None}]
    /\ pass \in [Callers -> Pass]
    /\ attempts \in [RowIds -> Nat]
    /\ lateBy \in [RowIds -> Nat]
    /\ deaths \in 0 .. MaxDeaths

ScheduleInit ==
    /\ clock = 0
    /\ rows = [id \in RowIds |-> None]
    /\ pass = [c \in Callers |-> Idle]
    /\ attempts = [id \in RowIds |-> 0]
    /\ lateBy = [id \in RowIds |-> 0]
    /\ deaths = 0

-----------------------------------------------------------------------------
(* The users. *)

Created == {id \in RowIds : rows[id] # None}
Pending == {id \in Created : rows[id].status = "pending"}
PendingOf(p) == {id \in Pending : rows[id].printer = p}

(* ScheduledStartForm.clean_start_at: in the future when submitted. *)
IsAcceptable(t) == t > clock

(* ScheduleQueueStartView and schedule_start: the pending row of the       *)
(* printer is moved, or a new one is created if there is none.             *)
Schedule(p, t) ==
    /\ IsAcceptable(t)
    /\ \/ \E id \in PendingOf(p) :
            rows' = [rows EXCEPT ![id] = [@ EXCEPT !.startAt = t]]
       \/ /\ PendingOf(p) = {}
          /\ \E id \in RowIds \ Created :
               /\ \A other \in RowIds \ Created : id <= other
               /\ rows' = [rows EXCEPT ![id] =
                    [printer |-> p, startAt |-> t, status |-> "pending", message |-> ""]]
    /\ UNCHANGED << clock, pass, attempts, lateBy, deaths >>

(* CancelScheduledStartView and cancel_scheduled_start. *)
Cancel(p) ==
    \E id \in PendingOf(p) :
        /\ rows' = [rows EXCEPT ![id] = [@ EXCEPT !.status = "cancelled"]]
        /\ UNCHANGED << clock, pass, attempts, lateBy, deaths >>

-----------------------------------------------------------------------------
(* The callers of run_due_scheduled_starts. *)

\* Fault: only what falls due at this very time is found.
DueNow == {id \in Pending : rows[id].startAt = clock}

DueRows == {id \in Pending : rows[id].startAt <= clock}

IsLate(t) == clock - t > MaxLateness

(* The loop of the worker comes round and reads what is due. *)
ReadDue(c) ==
    /\ pass[c].step = "idle"
    /\ DueRows # {}
    /\ pass' = [pass EXCEPT ![c] =
         [due |-> {[id |-> id, startAt |-> rows[id].startAt, late |-> IsLate(rows[id].startAt)] :
                       id \in DueRows},
          row |-> None, step |-> "claiming"]]
    /\ UNCHANGED << clock, rows, attempts, lateBy, deaths >>

\* Fault: the claim does not repeat the status.
MatchesInTime(r) ==
    rows[r.id].startAt = r.startAt

(* The condition of the claiming update: nothing read has changed. *)
StillAsRead(r) ==
    /\ rows[r.id].status = "pending"
    /\ rows[r.id].startAt = r.startAt

(* The next row of the loop, in the order of Meta.ordering. *)
NextRead(c) ==
    {r \in pass[c].due : \A s \in pass[c].due : r.startAt <= s.startAt}

(* One turn of the loop up to the claim.  A row that has changed is passed *)
(* over, a late one is skipped for good; whether it is late is judged by   *)
(* the time at which the run began.                                        *)
Claim(c) ==
    /\ pass[c].step = "claiming"
    /\ \E r \in NextRead(c) :
         LET rest == pass[c].due \ {r} IN
         \/ /\ ~ StillAsRead(r)
            /\ pass' = [pass EXCEPT ![c] = [@ EXCEPT !.due = rest]]
            /\ UNCHANGED rows
         \/ /\ StillAsRead(r) /\ r.late
            /\ rows' = [rows EXCEPT ![r.id] =
                 [@ EXCEPT !.status = "skipped", !.message = "missed"]]
            /\ pass' = [pass EXCEPT ![c] = [@ EXCEPT !.due = rest]]
         \/ /\ StillAsRead(r) /\ ~ r.late
            /\ rows' = [rows EXCEPT ![r.id] =
                 [@ EXCEPT !.status = "started", !.message = "unknown"]]
            /\ pass' = [pass EXCEPT ![c] =
                 [@ EXCEPT !.due = rest, !.row = r.id, !.step = "calling"]]
    /\ UNCHANGED << clock, attempts, lateBy, deaths >>

(* _start calls start_next_for_printer, which may take as long as the      *)
(* upload of the file takes.                                               *)
CallStart(c) ==
    LET id == pass[c].row IN
    /\ pass[c].step = "calling"
    /\ attempts' = [attempts EXCEPT ![id] = @ + 1]
    /\ lateBy' = [lateBy EXCEPT ![id] = clock - rows[id].startAt]
    /\ pass' = [pass EXCEPT ![c] = [@ EXCEPT !.step = "storing"]]
    /\ UNCHANGED << clock, rows, deaths >>

(* The outcome replaces the provisional one: started, skipped because      *)
(* nothing could be started, or failed (also if the call raised).          *)
StoreOutcome(c) ==
    LET id == pass[c].row IN
    /\ pass[c].step = "storing"
    /\ \E outcome \in {"started", "skipped", "failed"} :
         rows' = [rows EXCEPT ![id] =
             [@ EXCEPT !.status = outcome, !.message = "outcome"]]
    /\ pass' = [pass EXCEPT ![c] = [@ EXCEPT !.row = None, !.step = "claiming"]]
    /\ UNCHANGED << clock, attempts, lateBy, deaths >>

(* The loop is through; the worker waits for SCHEDULED_START_INTERVAL. *)
EndPass(c) ==
    /\ pass[c].step = "claiming"
    /\ pass[c].due = {}
    /\ pass' = [pass EXCEPT ![c] = Idle]
    /\ UNCHANGED << clock, rows, attempts, lateBy, deaths >>

(* The process dies, at any point of its run, and is started again. *)
Die(c) ==
    /\ deaths < MaxDeaths
    /\ deaths' = deaths + 1
    /\ pass' = [pass EXCEPT ![c] = Idle]
    /\ UNCHANGED << clock, rows, attempts, lateBy >>

Tick ==
    /\ clock < MaxTime
    /\ QuickDatabase => \A c \in Callers : pass[c].step \in {"idle", "storing"}
    /\ clock' = clock + 1
    /\ UNCHANGED << rows, pass, attempts, lateBy, deaths >>

UserActions == \E p \in Printers : (\E t \in Time : Schedule(p, t)) \/ Cancel(p)

CallerStep(c) ==
    ReadDue(c) \/ Claim(c) \/ CallStart(c) \/ StoreOutcome(c) \/ EndPass(c)

-----------------------------------------------------------------------------
(* Safety. *)

(* At most one start for each row, whoever executes it and whoever dies    *)
(* meanwhile, and none if it was cancelled, missed or not executed yet.    *)
AtMostOneStart ==
    \A id \in Created :
        attempts[id] <= IF \/ rows[id].status \in {"pending", "cancelled"}
                           \/ rows[id].message = "missed"
                        THEN 0 ELSE 1

(* No start before the time that the row has in the table.                 *)
NeverEarly ==
    \A id \in Created : attempts[id] > 0 => rows[id].startAt <= clock

(* A schedule is executed once, and as it stands when it is claimed: a     *)
(* second start would print a plate nobody has asked for, and a schedule   *)
(* moved to later, or cancelled, after a caller has read it must not be    *)
(* started as it was (the claim in run_due_scheduled_starts).              *)
StartedAsScheduled == AtMostOneStart /\ NeverEarly

(* The module's promise that nothing starts by surprise: no start comes    *)
(* later than MaxLateness after its time.  A caller with several due rows  *)
(* judges all of them by the time at which it began, and the start of the  *)
(* first one may take longer than that, so the code does not keep it, even *)
(* with QuickDatabase, and no run checks it.                               *)
NoSurpriseStart == \A id \in Created : lateBy[id] <= MaxLateness

(* Liveness. *)

(* A schedule that is due is decided (or moved to later), although callers *)
(* die: no row stays pending for ever.                                     *)
DueIsDecided ==
    \A id \in RowIds :
        LET isDue == id \in Pending /\ rows[id].startAt <= clock IN
        isDue ~> ~ isDue
=============================================================================
