-------------------------- MODULE MoonrakerProofs --------------------------
(***************************************************************************)
(* Proofs about what runs in the Moonraker worker process, for any number  *)
(* of printers, callers, rows, tasks, queue entries, presses and failures: *)
(*   - scheduled starts are executed once and as they stand,               *)
(*   - every printer has one listener,                                     *)
(*   - what a Start button of a dialog starts is the plate of its dialog,  *)
(*     and it is alone on the printer as long as it is uploaded, and       *)
(*   - a verdict is never changed, whoever gives it how often.             *)
(* Schedules and listeners are MoonrakerWorker, the dialogs that live in   *)
(* a listener's task are OperatorDialog; the two have no state in common.  *)
(***************************************************************************)
EXTENDS MoonrakerWorker, OperatorDialog, TLAPS

(* The inductive invariant of the schedules: a caller between its claim    *)
(* and its result owns the row, which nobody else can claim, and has       *)
(* called once if it is behind the call.                                   *)

ScheduleTypes ==
    /\ clock \in Nat
    /\ rows \in [RowIds -> ScheduledQueueStart \cup {None}]
    /\ pass \in [Callers -> Pass]
    /\ attempts \in [RowIds -> Nat]

Unstarted == \A id \in RowIds \ Created : attempts[id] = 0

Owned(c) ==
    /\ pass[c].step \in {"idle", "claiming"} => pass[c].row = None
    /\ pass[c].step \in {"calling", "storing"} =>
         /\ pass[c].row \in Created
         /\ rows[pass[c].row].status = "started"
         /\ rows[pass[c].row].message = "unknown"
         /\ rows[pass[c].row].startAt <= clock
         /\ attempts[pass[c].row] = IF pass[c].step = "calling" THEN 0 ELSE 1

OneOwner ==
    \A c, d \in Callers : c # d /\ pass[c].row # None => pass[c].row # pass[d].row

DueWasRead ==
    \A c \in Callers : \A r \in pass[c].due : r.id \in Created /\ r.startAt <= clock

ScheduleInv ==
    /\ ScheduleTypes
    /\ AtMostOneStart /\ NeverEarly /\ Unstarted
    /\ \A c \in Callers : Owned(c)
    /\ OneOwner /\ DueWasRead

LEMMA TimesAreNumbers ==
    /\ \A t \in Time : t \in Nat
    /\ \A row \in ScheduledQueueStart : row.startAt \in Time
  <1>1. \A t \in Time : t \in Nat
    <2>1. MaxTime \in Nat
      BY BoundsAssumption
    <2> QED
      BY <2>1 DEF Time
  <1>2. \A row \in ScheduledQueueStart : row.startAt \in Time
    BY DEF ScheduledQueueStart
  <1> QED
    BY <1>1, <1>2

LEMMA ScheduleInit1 ==
    ASSUME ScheduleInit
    PROVE  ScheduleInv
  <1>1. Created = {}
    BY DEF ScheduleInit, Created
  <1>2. Idle \in Pass
    BY DEF Idle, Pass
  <1>3. ScheduleTypes
    BY <1>2 DEF ScheduleInit, ScheduleTypes
  <1>4. AtMostOneStart /\ NeverEarly /\ Unstarted
    BY <1>1 DEF ScheduleInit, AtMostOneStart, NeverEarly, Unstarted
  <1>5. \A c \in Callers : pass[c].step = "idle" /\ pass[c].row = None /\ pass[c].due = {}
    BY DEF ScheduleInit, Idle
  <1>6. (\A c \in Callers : Owned(c)) /\ OneOwner /\ DueWasRead
    BY <1>5 DEF Owned, OneOwner, DueWasRead
  <1> QED
    BY <1>3, <1>4, <1>6 DEF ScheduleInv

(* A row is created or moved. *)
LEMMA ScheduleKeepsInv ==
    ASSUME NEW p \in Printers, NEW t \in Time, ScheduleInv, Schedule(p, t)
    PROVE  ScheduleInv'
  <1> USE BoundsAssumption, NoneAssumption
  <1> USE DEF ScheduleInv
  <1>a. t \in Nat /\ t > clock
    <2>1. t > clock
      BY Zenon DEF Schedule, IsAcceptable
    <2> QED
      BY <2>1, TimesAreNumbers
  <1>b. UNCHANGED << clock, pass, attempts >>
    BY Zenon DEF Schedule
  <1>0. UNCHANGED << clock, pass, attempts >> /\ t \in Nat /\ t > clock
    BY <1>a, <1>b
  <1>1. PICK id \in RowIds, new \in ScheduledQueueStart :
            /\ rows' = [rows EXCEPT ![id] = new]
            /\ new.status = "pending"
            /\ attempts[id] = 0
            /\ rows[id] = None \/ rows[id].status = "pending"
    <2>1. CASE \E id \in PendingOf(p) : rows' = [rows EXCEPT ![id] = [@ EXCEPT !.startAt = t]]
      <3>1. PICK id \in PendingOf(p) : rows' = [rows EXCEPT ![id] = [@ EXCEPT !.startAt = t]]
        BY <2>1
      <3>2. id \in Created /\ rows[id] \in ScheduledQueueStart /\ rows[id].status = "pending"
        BY DEF PendingOf, Pending, Created, ScheduleTypes
      <3>3. attempts[id] = 0
        BY <3>2 DEF AtMostOneStart, ScheduleTypes, Created
      <3>4. [rows[id] EXCEPT !.startAt = t] \in ScheduledQueueStart
        BY <3>2 DEF ScheduledQueueStart
      <3>5. [rows[id] EXCEPT !.startAt = t].status = "pending"
        BY <3>2 DEF ScheduledQueueStart
      <3>6. rows' = [rows EXCEPT ![id] = [rows[id] EXCEPT !.startAt = t]]
        BY <3>1, <3>2 DEF ScheduleTypes, Created
      <3> QED
        BY <3>2, <3>3, <3>4, <3>5, <3>6 DEF Created
    <2>2. CASE \E id \in RowIds \ Created : rows' = [rows EXCEPT ![id] =
                    [printer |-> p, startAt |-> t, status |-> "pending", message |-> ""]]
      <3>1. PICK id \in RowIds \ Created : rows' = [rows EXCEPT ![id] =
                    [printer |-> p, startAt |-> t, status |-> "pending", message |-> ""]]
        BY <2>2
      <3>2. [printer |-> p, startAt |-> t, status |-> "pending", message |-> ""] \in ScheduledQueueStart
        BY DEF ScheduledQueueStart
      <3> QED
        BY <3>1, <3>2 DEF Unstarted, Created
    <2> QED
      BY <2>1, <2>2 DEF Schedule
  <1>2. /\ rows' \in [RowIds -> ScheduledQueueStart \cup {None}]
        /\ Created' = Created \cup {id}
        /\ \A other \in RowIds : other # id => rows'[other] = rows[other]
        /\ rows'[id] = new
    BY <1>1 DEF Created, ScheduleTypes
  <1>3. \A c \in Callers : pass[c].row # id
    BY <1>1 DEF Owned, ScheduleTypes, Pass, Created
  <1>4. ScheduleTypes'
    BY <1>0, <1>2 DEF ScheduleTypes
  <1>5. AtMostOneStart'
    BY <1>0, <1>1, <1>2 DEF AtMostOneStart, ScheduleTypes, Created
  <1>6. NeverEarly' /\ Unstarted'
    BY <1>0, <1>1, <1>2 DEF NeverEarly, Unstarted, ScheduleTypes, Created
  <1>7. \A c \in Callers : Owned(c)'
    BY <1>0, <1>1, <1>2, <1>3 DEF Owned, ScheduleTypes, Created
  <1>8. OneOwner' /\ DueWasRead'
    BY <1>0, <1>2 DEF OneOwner, DueWasRead
  <1> QED
    BY <1>4, <1>5, <1>6, <1>7, <1>8

LEMMA CancelKeepsInv ==
    ASSUME NEW p \in Printers, ScheduleInv, Cancel(p)
    PROVE  ScheduleInv'
  <1> USE BoundsAssumption, NoneAssumption
  <1> USE DEF ScheduleInv
  <1>1. PICK id \in PendingOf(p) :
            /\ rows' = [rows EXCEPT ![id] = [@ EXCEPT !.status = "cancelled"]]
            /\ UNCHANGED << clock, pass, attempts, lateBy, deaths >>
    BY Zenon DEF Cancel
  <1>2. id \in Created /\ rows[id] \in ScheduledQueueStart /\ rows[id].status = "pending"
    BY DEF PendingOf, Pending, Created, ScheduleTypes
  <1>3. attempts[id] = 0
    BY <1>2 DEF AtMostOneStart, ScheduleTypes, Created
  <1>4. /\ rows' \in [RowIds -> ScheduledQueueStart \cup {None}]
        /\ Created' = Created
        /\ \A other \in RowIds : other # id => rows'[other] = rows[other]
        /\ rows'[id].status = "cancelled" /\ rows'[id].startAt = rows[id].startAt
    BY <1>1, <1>2 DEF Created, ScheduleTypes, ScheduledQueueStart
  <1>5. \A c \in Callers : pass[c].row # id
    BY <1>2, <1>3 DEF Owned, ScheduleTypes, Pass, Created
  <1>6. ScheduleTypes'
    BY <1>1, <1>4 DEF ScheduleTypes
  <1>7. AtMostOneStart'
    BY <1>1, <1>3, <1>4 DEF AtMostOneStart, ScheduleTypes, Created
  <1>8. NeverEarly' /\ Unstarted'
    BY <1>1, <1>3, <1>4 DEF NeverEarly, Unstarted, ScheduleTypes, Created
  <1>9. \A c \in Callers : Owned(c)'
    BY <1>1, <1>4, <1>5 DEF Owned, ScheduleTypes, Created
  <1>10. OneOwner' /\ DueWasRead'
    BY <1>1, <1>4 DEF OneOwner, DueWasRead
  <1> QED
    BY <1>6, <1>7, <1>8, <1>9, <1>10

LEMMA TickKeepsInv ==
    ASSUME ScheduleInv, Tick
    PROVE  ScheduleInv'
  <1> USE DEF ScheduleInv
  <1>1. /\ clock \in Nat /\ clock' = clock + 1
        /\ UNCHANGED << rows, pass, attempts >>
    BY DEF Tick, ScheduleTypes
  <1>a. \A id \in Created : rows[id] \in ScheduledQueueStart
    BY DEF Created, ScheduleTypes
  <1>b. \A row \in ScheduledQueueStart : row.startAt \in Nat
    BY TimesAreNumbers
  <1>2. Created' = Created /\ \A id \in Created : rows[id].startAt \in Nat
    BY <1>1, <1>a, <1>b DEF Created
  <1>3. ScheduleTypes' /\ AtMostOneStart' /\ Unstarted' /\ OneOwner'
    BY <1>1, <1>2 DEF ScheduleTypes, AtMostOneStart, Unstarted, OneOwner
  <1>4. NeverEarly'
    BY <1>1, <1>2 DEF NeverEarly
  <1>7. \A c \in Callers : Owned(c)'
    <2> SUFFICES ASSUME NEW c \in Callers PROVE Owned(c)'
      OBVIOUS
    <2>1. Owned(c)
      OBVIOUS
    <2> QED
      BY <1>1, <1>2, <2>1 DEF Owned
  <1>5. \A c \in Callers : \A r \in pass[c].due : r.startAt \in Nat
    BY BoundsAssumption DEF ScheduleTypes, Pass, Read, Time
  <1>6. DueWasRead'
    BY <1>1, <1>2, <1>5 DEF DueWasRead
  <1> QED
    BY <1>3, <1>4, <1>6, <1>7

(* A step that leaves the table and the calls alone and forgets or keeps   *)
(* what a caller owns.                                                     *)
LEMMA PassKeepsInv ==
    ASSUME NEW c \in Callers, NEW new \in Pass, ScheduleInv,
           UNCHANGED << clock, rows, attempts >>,
           pass' = [pass EXCEPT ![c] = new],
           new.row = None, new.step \in {"idle", "claiming"},
           \A r \in new.due : r.id \in Created /\ r.startAt <= clock
    PROVE  ScheduleInv'
  <1> USE DEF ScheduleInv
  <1>1. /\ pass'[c] = new
        /\ \A d \in Callers : d # c => pass'[d] = pass[d]
        /\ pass' \in [Callers -> Pass]
    BY DEF ScheduleTypes
  <1>2. Created' = Created
    BY DEF Created
  <1>3. ScheduleTypes' /\ AtMostOneStart' /\ NeverEarly' /\ Unstarted'
    BY <1>1, <1>2 DEF ScheduleTypes, AtMostOneStart, NeverEarly, Unstarted
  <1>4. \A d \in Callers : Owned(d)'
    BY <1>1, <1>2 DEF Owned
  <1>5. OneOwner' /\ DueWasRead'
    BY <1>1, <1>2 DEF OneOwner, DueWasRead
  <1> QED
    BY <1>3, <1>4, <1>5

(* A step that changes the row a caller claims or owns: it is nobody       *)
(* else's, before and after.                                               *)
RowStep(c, new, id, changed, count) ==
    /\ UNCHANGED clock
    /\ id \in Created /\ changed.startAt = rows[id].startAt /\ rows[id].startAt <= clock
    /\ \A d \in Callers : d # c => pass[d].row # id
    /\ new.row \in {None, id}
    /\ new.due \subseteq pass[c].due
    /\ rows' = [rows EXCEPT ![id] = changed]
    /\ attempts' = [attempts EXCEPT ![id] = count]
    /\ pass' = [pass EXCEPT ![c] = new]
    /\ count <= IF \/ changed.status \in {"pending", "cancelled"}
                   \/ changed.message = "missed"
                THEN 0 ELSE 1
    /\ new.step \in {"idle", "claiming"} => new.row = None
    /\ new.step \in {"calling", "storing"} =>
          /\ new.row = id
          /\ changed.status = "started" /\ changed.message = "unknown"
          /\ count = IF new.step = "calling" THEN 0 ELSE 1

LEMMA RowKeepsInv ==
    ASSUME NEW c \in Callers, NEW new \in Pass, NEW id \in RowIds,
           NEW changed \in ScheduledQueueStart, NEW count \in Nat,
           ScheduleInv, RowStep(c, new, id, changed, count)
    PROVE  ScheduleInv'
  <1> USE NoneAssumption
  <1> USE DEF ScheduleInv, RowStep
  <1>1. /\ pass'[c] = new
        /\ \A d \in Callers : d # c => pass'[d] = pass[d]
        /\ pass' \in [Callers -> Pass]
        /\ rows'[id] = changed
        /\ \A other \in RowIds : other # id => rows'[other] = rows[other]
        /\ rows' \in [RowIds -> ScheduledQueueStart \cup {None}]
        /\ attempts'[id] = count
        /\ \A other \in RowIds : other # id => attempts'[other] = attempts[other]
        /\ attempts' \in [RowIds -> Nat]
    BY DEF ScheduleTypes
  <1>2. Created' = Created
    BY <1>1 DEF Created
  <1>3. ScheduleTypes'
    BY <1>1 DEF ScheduleTypes
  <1>4. AtMostOneStart'
    BY <1>1, <1>2 DEF AtMostOneStart, Created
  <1>5. NeverEarly' /\ Unstarted'
    BY <1>1, <1>2 DEF NeverEarly, Unstarted, Created
  <1>6. \A d \in Callers : Owned(d)'
    <2> SUFFICES ASSUME NEW d \in Callers PROVE Owned(d)'
      OBVIOUS
    <2>1. CASE d = c
      BY <1>1, <1>2, <2>1 DEF Owned
    <2>2. CASE d # c
      <3>1. Owned(d) /\ pass'[d] = pass[d] /\ pass[d].row # id
        BY <1>1, <2>2
      <3> QED
        BY <1>1, <1>2, <3>1 DEF Owned, Created
    <2> QED
      BY <2>1, <2>2
  <1>7. OneOwner'
    BY <1>1 DEF OneOwner
  <1>8. DueWasRead'
    <2>1. \A d \in Callers : pass'[d].due \subseteq pass[d].due
      BY <1>1
    <2>2. rows'[id].startAt = rows[id].startAt
      BY <1>1
    <2> QED
      BY <1>1, <1>2, <2>1 DEF DueWasRead
  <1> QED
    BY <1>3, <1>4, <1>5, <1>6, <1>7, <1>8

(* A start is due, not called yet and nobody's while its row is pending.   *)
LEMMA PendingIsFree ==
    ASSUME ScheduleInv, NEW id \in Pending
    PROVE  /\ id \in Created /\ rows[id] \in ScheduledQueueStart /\ attempts[id] = 0
           /\ \A c \in Callers : pass[c].row # id
  <1>1. id \in Created /\ rows[id] \in ScheduledQueueStart /\ rows[id].status = "pending"
    BY DEF ScheduleInv, Pending, Created, ScheduleTypes
  <1>2. attempts[id] = 0
    BY <1>1 DEF ScheduleInv, AtMostOneStart, ScheduleTypes, Created
  <1>3. \A c \in Callers : Owned(c) /\ pass[c] \in Pass
    BY DEF ScheduleInv, ScheduleTypes
  <1>4. \A c \in Callers : pass[c].row # id
    BY <1>1, <1>3, NoneAssumption DEF Owned, Pass, Created
  <1> QED
    BY <1>1, <1>2, <1>4

LEMMA ClaimKeepsInv ==
    ASSUME NEW c \in Callers, ScheduleInv, Claim(c)
    PROVE  ScheduleInv'
  <1>1. PICK r \in NextRead(c) :
          \/ /\ ~ StillAsRead(r)
             /\ pass' = [pass EXCEPT ![c] = [@ EXCEPT !.due = pass[c].due \ {r}]]
             /\ UNCHANGED rows
          \/ /\ StillAsRead(r) /\ r.late
             /\ rows' = [rows EXCEPT ![r.id] =
                  [@ EXCEPT !.status = "skipped", !.message = "missed"]]
             /\ pass' = [pass EXCEPT ![c] = [@ EXCEPT !.due = pass[c].due \ {r}]]
          \/ /\ StillAsRead(r) /\ ~ r.late
             /\ rows' = [rows EXCEPT ![r.id] =
                  [@ EXCEPT !.status = "started", !.message = "unknown"]]
             /\ pass' = [pass EXCEPT ![c] =
                  [@ EXCEPT !.due = pass[c].due \ {r}, !.row = r.id, !.step = "calling"]]
    BY Zenon DEF Claim
  <1>2. /\ pass[c].step = "claiming" /\ UNCHANGED << clock, attempts >>
        /\ pass[c] \in Pass /\ pass[c].row = None
        /\ attempts \in [RowIds -> Nat] /\ rows \in [RowIds -> ScheduledQueueStart \cup {None}]
    BY DEF Claim, ScheduleInv, ScheduleTypes, Owned
  <1>3. r \in pass[c].due /\ r.id \in Created /\ r.id \in RowIds /\ r.startAt <= clock
    BY DEF NextRead, ScheduleInv, DueWasRead, Created
  <1> DEFINE rest == [pass[c] EXCEPT !.due = pass[c].due \ {r}]
             begun == [pass[c] EXCEPT !.due = pass[c].due \ {r}, !.row = r.id, !.step = "calling"]
             skipped == [rows[r.id] EXCEPT !.status = "skipped", !.message = "missed"]
             started == [rows[r.id] EXCEPT !.status = "started", !.message = "unknown"]
  <1>4. /\ rest \in Pass /\ rest.row = None /\ rest.step = "claiming"
        /\ rest.due \subseteq pass[c].due
        /\ begun \in Pass /\ begun.row = r.id /\ begun.step = "calling"
        /\ begun.due \subseteq pass[c].due
    BY <1>2, <1>3 DEF Pass
  <1>5. CASE pass' = [pass EXCEPT ![c] = rest] /\ UNCHANGED rows
    <2>1. \A s \in rest.due : s.id \in Created /\ s.startAt <= clock
      BY <1>4 DEF ScheduleInv, DueWasRead
    <2> HIDE DEF rest
    <2> QED
      BY <1>2, <1>4, <1>5, <2>1, PassKeepsInv
  <1>6. ASSUME StillAsRead(r)
        PROVE  /\ rows[r.id] \in ScheduledQueueStart /\ attempts[r.id] = 0
               /\ \A d \in Callers : pass[d].row # r.id
               /\ rows[r.id].startAt <= clock
    <2>1. r.id \in Pending /\ rows[r.id].startAt = r.startAt
      BY <1>3, <1>6 DEF StillAsRead, Pending
    <2> QED
      BY <1>3, <2>1, PendingIsFree
  <1>7. attempts' = [attempts EXCEPT ![r.id] = attempts[r.id]]
    BY <1>2, <1>3
  <1>8. CASE StillAsRead(r) /\ rows' = [rows EXCEPT ![r.id] = skipped]
             /\ pass' = [pass EXCEPT ![c] = rest]
    <2>1. skipped \in ScheduledQueueStart /\ skipped.status = "skipped"
          /\ skipped.message = "missed" /\ skipped.startAt = rows[r.id].startAt
      BY <1>6, <1>8 DEF ScheduledQueueStart
    <2> HIDE DEF rest, skipped, begun, started
    <2>3. /\ rows[r.id].startAt <= clock
          /\ \A d \in Callers : d # c => pass[d].row # r.id
          /\ attempts' = [attempts EXCEPT ![r.id] = 0]
      BY <1>6, <1>7, <1>8
    <2>4. /\ UNCHANGED clock /\ r.id \in Created
          /\ skipped.startAt = rows[r.id].startAt
          /\ rest.row \in {None, r.id} /\ rest.due \subseteq pass[c].due
      BY <1>2, <1>3, <1>4, <2>1
    <2>5. /\ rows' = [rows EXCEPT ![r.id] = skipped] /\ pass' = [pass EXCEPT ![c] = rest]
          /\ rest.step = "claiming" /\ rest.row = None
      BY <1>4, <1>8, <2>1
    <2>2. RowStep(c, rest, r.id, skipped, 0)
      BY <2>3, <2>4, <2>5 DEF RowStep
    <2> QED
      BY <1>3, <1>4, <2>1, <2>2, RowKeepsInv
  <1>9. CASE StillAsRead(r) /\ rows' = [rows EXCEPT ![r.id] = started]
             /\ pass' = [pass EXCEPT ![c] = begun]
    <2>1. started \in ScheduledQueueStart /\ started.status = "started"
          /\ started.message = "unknown" /\ started.startAt = rows[r.id].startAt
      BY <1>6, <1>9 DEF ScheduledQueueStart
    <2> HIDE DEF rest, skipped, begun, started
    <2>3. /\ rows[r.id].startAt <= clock
          /\ \A d \in Callers : d # c => pass[d].row # r.id
          /\ attempts' = [attempts EXCEPT ![r.id] = 0]
      BY <1>6, <1>7, <1>9
    <2>4. /\ UNCHANGED clock /\ r.id \in Created
          /\ started.startAt = rows[r.id].startAt
          /\ begun.row \in {None, r.id} /\ begun.due \subseteq pass[c].due
      BY <1>2, <1>3, <1>4, <2>1
    <2>5. /\ rows' = [rows EXCEPT ![r.id] = started] /\ pass' = [pass EXCEPT ![c] = begun]
          /\ begun.step = "calling" /\ started.status = "started" /\ started.message = "unknown"
      BY <1>4, <1>9, <2>1
    <2>6. 0 <= IF \/ started.status \in {"pending", "cancelled"}
                  \/ started.message = "missed"
               THEN 0 ELSE 1
      OBVIOUS
    <2>7. /\ begun.step \notin {"idle", "claiming"} /\ begun.row = r.id
          /\ 0 = IF begun.step = "calling" THEN 0 ELSE 1
      BY <1>4
    <2>2. RowStep(c, begun, r.id, started, 0)
      BY <2>3, <2>4, <2>5, <2>6, <2>7, Zenon DEF RowStep
    <2> QED
      BY <1>3, <1>4, <2>1, <2>2, RowKeepsInv
  <1> QED
    BY <1>1, <1>5, <1>8, <1>9

LEMMA CallKeepsInv ==
    ASSUME NEW c \in Callers, ScheduleInv, CallStart(c)
    PROVE  ScheduleInv'
  <1> DEFINE id == pass[c].row
             new == [pass[c] EXCEPT !.step = "storing"]
  <1>1. /\ pass[c] \in Pass /\ id \in RowIds /\ id \in Created
        /\ rows[id].status = "started" /\ rows[id].message = "unknown"
        /\ rows[id].startAt <= clock /\ attempts[id] = 0
        /\ rows[id] \in ScheduledQueueStart
    BY DEF CallStart, ScheduleInv, ScheduleTypes, Owned, Created
  <1>2. \A d \in Callers : d # c => pass[d].row # id
    BY <1>1, NoneAssumption DEF ScheduleInv, OneOwner
  <1>3. new \in Pass /\ new.row = id /\ new.step = "storing" /\ new.due = pass[c].due
    BY <1>1 DEF Pass
  <1>4. /\ attempts' = [attempts EXCEPT ![id] = 1] /\ pass' = [pass EXCEPT ![c] = new]
        /\ UNCHANGED clock /\ rows' = [rows EXCEPT ![id] = rows[id]]
    BY <1>1 DEF CallStart, ScheduleInv, ScheduleTypes
  <1> HIDE DEF new, id
  <1>5. RowStep(c, new, id, rows[id], 1)
    BY <1>1, <1>2, <1>3, <1>4 DEF RowStep
  <1> QED
    BY <1>1, <1>3, <1>5, RowKeepsInv

LEMMA StoreKeepsInv ==
    ASSUME NEW c \in Callers, ScheduleInv, StoreOutcome(c)
    PROVE  ScheduleInv'
  <1> DEFINE id == pass[c].row
             new == [pass[c] EXCEPT !.row = None, !.step = "claiming"]
  <1>1. /\ pass[c] \in Pass /\ id \in RowIds /\ id \in Created
        /\ rows[id].startAt <= clock /\ attempts[id] = 1
        /\ rows[id] \in ScheduledQueueStart
    BY DEF StoreOutcome, ScheduleInv, ScheduleTypes, Owned, Created
  <1>2. \A d \in Callers : d # c => pass[d].row # id
    BY <1>1, NoneAssumption DEF ScheduleInv, OneOwner
  <1>3. new \in Pass /\ new.row = None /\ new.step = "claiming" /\ new.due = pass[c].due
    BY <1>1 DEF Pass
  <1>4. PICK outcome \in {"started", "skipped", "failed"} :
            rows' = [rows EXCEPT ![id] = [@ EXCEPT !.status = outcome, !.message = "outcome"]]
    BY Zenon DEF StoreOutcome
  <1> DEFINE changed == [rows[id] EXCEPT !.status = outcome, !.message = "outcome"]
  <1>5. /\ changed \in ScheduledQueueStart /\ changed.startAt = rows[id].startAt
        /\ changed.status \notin {"pending", "cancelled"} /\ changed.message = "outcome"
    BY <1>1 DEF ScheduledQueueStart
  <1>6. /\ rows' = [rows EXCEPT ![id] = changed]
        /\ attempts' = [attempts EXCEPT ![id] = 1] /\ pass' = [pass EXCEPT ![c] = new]
        /\ UNCHANGED clock
    BY <1>1, <1>4 DEF StoreOutcome, ScheduleInv, ScheduleTypes
  <1> HIDE DEF new, changed, id
  <1>7. RowStep(c, new, id, changed, 1)
    BY <1>1, <1>2, <1>3, <1>5, <1>6 DEF RowStep
  <1> QED
    BY <1>1, <1>3, <1>5, <1>7, RowKeepsInv

(* The steps that begin, end or break off a run. *)
LEMMA RunKeepsInv ==
    ASSUME NEW c \in Callers, ScheduleInv, ReadDue(c) \/ EndPass(c) \/ Die(c)
    PROVE  ScheduleInv'
  <1>1. UNCHANGED << clock, rows, attempts >>
    BY DEF ReadDue, EndPass, Die
  <1>2. CASE ReadDue(c)
    <2> DEFINE due == {[id |-> id, startAt |-> rows[id].startAt, late |-> IsLate(rows[id].startAt)] :
                          id \in DueRows}
               new == [due |-> due, row |-> None, step |-> "claiming"]
    <2>1. \A id \in DueRows : /\ id \in Created /\ id \in RowIds /\ rows[id].startAt <= clock
                              /\ rows[id].startAt \in Time
      BY DEF DueRows, Pending, Created, ScheduleInv, ScheduleTypes, ScheduledQueueStart
    <2>a. \A t \in Time : IsLate(t) \in BOOLEAN
      BY TimesAreNumbers, BoundsAssumption DEF IsLate, ScheduleInv, ScheduleTypes
    <2>b. \A id \in DueRows :
             [id |-> id, startAt |-> rows[id].startAt, late |-> IsLate(rows[id].startAt)] \in Read
      BY <2>1, <2>a DEF Read
    <2>2. due \subseteq Read
      BY <2>b
    <2>3. new \in Pass
      BY <2>2 DEF Pass
    <2>4. \A r \in new.due : r.id \in Created /\ r.startAt <= clock
      BY <2>1
    <2>5. pass' = [pass EXCEPT ![c] = new] /\ new.row = None /\ new.step = "claiming"
      BY <1>2 DEF ReadDue
    <2> HIDE DEF new
    <2> QED
      BY <1>1, <2>3, <2>4, <2>5, PassKeepsInv
  <1>3. CASE EndPass(c) \/ Die(c)
    <2>1. pass' = [pass EXCEPT ![c] = Idle]
      BY <1>3 DEF EndPass, Die
    <2>2. Idle \in Pass /\ Idle.row = None /\ Idle.step = "idle" /\ Idle.due = {}
      BY DEF Idle, Pass
    <2> QED
      BY <1>1, <2>1, <2>2, PassKeepsInv
  <1> QED
    BY <1>2, <1>3

(* Steps of the listeners do not touch the schedules. *)
LEMMA OtherKeepsInv ==
    ASSUME ScheduleInv, UNCHANGED scheduleVars
    PROVE  ScheduleInv'
  BY DEF ScheduleInv, scheduleVars, ScheduleTypes, AtMostOneStart, NeverEarly, Unstarted,
         Owned, OneOwner, DueWasRead, Created

LEMMA NextKeepsScheduleInv ==
    ASSUME ScheduleInv, [Next]_vars
    PROVE  ScheduleInv'
  <1>1. CASE UserActions \/ Tick
    BY <1>1, ScheduleKeepsInv, CancelKeepsInv, TickKeepsInv DEF UserActions
  <1>2. ASSUME NEW c \in Callers, CallerStep(c) \/ Die(c) PROVE ScheduleInv'
    BY <1>2, ClaimKeepsInv, CallKeepsInv, StoreKeepsInv, RunKeepsInv DEF CallerStep
  <1>3. CASE WorkerDies
    BY <1>2, <1>3, WorkerAssumption DEF WorkerDies
  <1>4. CASE UNCHANGED scheduleVars
    BY <1>4, OtherKeepsInv
  <1>5. CASE \/ \E p \in Printers : EditPrinter(p)
             \/ \E t \in tasks : Crash(t) \/ Unwind(t)
             \/ Reconcile \/ AbortSweep
    BY <1>4, <1>5 DEF EditPrinter, Crash, Unwind, Reconcile, LoadSnapshots, Prune, Spawn, EndSweep,
                      AbortSweep
  <1>6. CASE UNCHANGED vars
    BY <1>4, <1>6 DEF vars
  <1> QED
    BY <1>1, <1>2, <1>3, <1>5, <1>6 DEF Next

(* Every schedule is executed at most once, as it stands when it is        *)
(* claimed, whoever executes it and whoever dies (run_due_scheduled_starts *)
(* of scheduled_start.py).                                                 *)
THEOREM StartedAsScheduledAlways == Spec => []StartedAsScheduled
  <1>1. Init => ScheduleInv
    BY ScheduleInit1 DEF Init
  <1>2. ScheduleInv /\ [Next]_vars => ScheduleInv'
    BY NextKeepsScheduleInv
  <1>3. ScheduleInv => StartedAsScheduled
    BY DEF ScheduleInv, StartedAsScheduled
  <1> QED
    BY <1>1, <1>2, <1>3, PTL DEF Spec

-----------------------------------------------------------------------------
(* The inductive invariant of the listeners: tasks have different names,   *)
(* and the reconciler is about to start only what it does not watch.       *)

ListenerTypes ==
    /\ config \in [Printers -> Versions \cup {None}]
    /\ tasks \subseteq Task
    /\ active \in [Printers -> Watched \cup {None}]
    /\ sweep \in [step : {"idle", "pruning", "spawning"},
                  snapshots : [Printers -> Versions \cup {None}],
                  todo : SUBSET Printers]
    /\ edits \in Nat

NamedApart == \A t, u \in tasks : t.serial = u.serial => t = u

TodoIsUnwatched == \A p \in sweep.todo : active[p] = None /\ sweep.snapshots[p] # None

ListenerInv == ListenerTypes /\ OneListener /\ NamedApart /\ TodoIsUnwatched

LEMMA ListenerInit ==
    ASSUME Init
    PROVE  ListenerInv
  <1>1. 0 \in Versions
    BY WorkerAssumption DEF Versions
  <1>2. ListenerTypes
    BY <1>1 DEF Init, ListenerTypes, NoSweep
  <1>3. OneListener /\ NamedApart /\ TodoIsUnwatched
    BY DEF Init, OneListener, NamedApart, TodoIsUnwatched, NoSweep, RunningTasks
  <1> QED
    BY <1>2, <1>3 DEF ListenerInv

(* A step that stops tasks and leaves the reconciler alone.                *)
LEMMA StoppingKeepsListeners ==
    ASSUME ListenerInv, UNCHANGED << config, active, sweep, edits >>, tasks' \subseteq Task,
           \A t \in tasks' : t.state = "running" => t \in tasks,
           NamedApart'
    PROVE  ListenerInv'
  <1>1. OneListener'
    BY DEF ListenerInv, OneListener, RunningTasks
  <1>2. ListenerTypes' /\ TodoIsUnwatched'
    BY DEF ListenerInv, ListenerTypes, TodoIsUnwatched
  <1> QED
    BY <1>1, <1>2 DEF ListenerInv

LEMMA CrashKeepsListeners ==
    ASSUME NEW t \in tasks, ListenerInv, Crash(t) \/ Unwind(t)
    PROVE  ListenerInv'
  <1>1. UNCHANGED << config, active, sweep, edits >>
    BY DEF Crash, Unwind
  <1>2. CASE Crash(t)
    <2> DEFINE ended == WithState(t, "ended")
    <2>1. t \in Task /\ tasks \subseteq Task
      BY DEF ListenerInv, ListenerTypes
    <2>2. ended \in Task /\ ended.serial = t.serial /\ ended.state = "ended"
      BY <2>1 DEF Task, WithState
    <2>3. tasks' = (tasks \ {t}) \cup {ended}
      BY <1>2 DEF Crash
    <2> HIDE DEF ended
    <2>4. NamedApart'
      BY <2>2, <2>3 DEF ListenerInv, NamedApart
    <2>5. tasks' \subseteq Task /\ \A u \in tasks' : u.state = "running" => u \in tasks
      BY <2>1, <2>2, <2>3
    <2> QED
      BY <1>1, <2>4, <2>5, StoppingKeepsListeners
  <1>3. CASE Unwind(t)
    <2>1. tasks' \subseteq tasks
      BY <1>3 DEF Unwind
    <2>2. NamedApart' /\ tasks' \subseteq Task
      BY <2>1 DEF ListenerInv, ListenerTypes, NamedApart
    <2> QED
      BY <1>1, <2>1, <2>2, StoppingKeepsListeners
  <1> QED
    BY <1>2, <1>3

LEMMA PruneKeepsListeners ==
    ASSUME ListenerInv, Prune
    PROVE  ListenerInv'
  <1> DEFINE stopped == {active[p].serial : p \in Cancelled}
             kept == {u \in tasks : \A p \in Dropped : u.serial # active[p].serial}
             After(t) == IF t.serial \in stopped THEN WithState(t, "cancelled") ELSE t
  <1>1. tasks' = {After(t) : t \in kept}
    BY DEF Prune, TasksPruned
  <1>2. \A t \in tasks : /\ After(t) \in Task /\ After(t).serial = t.serial
                         /\ After(t).printer = t.printer
                         /\ After(t).state = "running" => After(t) = t /\ t.serial \notin stopped
    BY DEF ListenerInv, ListenerTypes, Task, WithState
  <1> HIDE DEF After
  <1>3. tasks' \subseteq Task /\ NamedApart'
    BY <1>1, <1>2 DEF ListenerInv, NamedApart
  <1>4. /\ active' = [p \in Printers |-> IF p \in Dropped \cup Cancelled THEN None ELSE active[p]]
        /\ sweep' = [sweep EXCEPT !.step = "spawning",
              !.todo = {p \in Printers : sweep.snapshots[p] # None /\ active'[p] = None}]
        /\ UNCHANGED << config, edits >>
    BY Zenon DEF Prune
  <1>5. sweep'.todo = {p \in Printers : sweep.snapshots[p] # None /\ active'[p] = None}
        /\ sweep'.snapshots = sweep.snapshots /\ sweep'.step = "spawning"
    BY <1>4 DEF ListenerInv, ListenerTypes
  <1>6. active' \in [Printers -> Watched \cup {None}]
    BY <1>4 DEF ListenerInv, ListenerTypes
  <1>7. ListenerTypes'
    <2>1. sweep' \in [step : {"idle", "pruning", "spawning"},
                      snapshots : [Printers -> Versions \cup {None}],
                      todo : SUBSET Printers]
      BY <1>4 DEF ListenerInv, ListenerTypes
    <2> QED
      BY <1>3, <1>4, <1>6, <2>1 DEF ListenerInv, ListenerTypes
  <1>8. TodoIsUnwatched'
    BY <1>5 DEF TodoIsUnwatched
  <1>9. OneListener'
    <2> SUFFICES ASSUME NEW p \in Printers, NEW t \in RunningTasks(p)'
                 PROVE  /\ active'[p] # None /\ active'[p].serial = t.serial
                        /\ \A u \in RunningTasks(p)' : u = t
      BY DEF OneListener
    <2>1. ASSUME NEW u \in RunningTasks(p)'
          PROVE  u \in kept /\ u \in RunningTasks(p) /\ u.serial \notin stopped
      BY <1>1, <1>2, <2>1 DEF RunningTasks
    <2>2. /\ t \in kept /\ t \in RunningTasks(p) /\ t.serial \notin stopped
          /\ \A u \in RunningTasks(p)' : u \in RunningTasks(p)
      BY <2>1
    <2>3. /\ active[p] # None /\ active[p].serial = t.serial
          /\ \A u \in RunningTasks(p) : u = t
      BY <2>2 DEF ListenerInv, OneListener
    <2>4. p \notin Dropped /\ p \notin Cancelled
      BY <2>2, <2>3
    <2> QED
      BY <1>4, <2>2, <2>3, <2>4
  <1> QED
    BY <1>3, <1>7, <1>8, <1>9 DEF ListenerInv

LEMMA SpawnKeepsListeners ==
    ASSUME NEW p \in Printers, ListenerInv, Spawn(p)
    PROVE  ListenerInv'
  <1>1. /\ p \in sweep.todo /\ sweep' = [sweep EXCEPT !.todo = sweep.todo \ {p}]
        /\ UNCHANGED << config, edits >> /\ active[p] = None
        /\ sweep.snapshots[p] \in Versions
    BY DEF Spawn, ListenerInv, ListenerTypes, TodoIsUnwatched
  <1>2. /\ sweep'.todo = sweep.todo \ {p} /\ sweep'.snapshots = sweep.snapshots
        /\ sweep' \in [step : {"idle", "pruning", "spawning"},
                       snapshots : [Printers -> Versions \cup {None}],
                       todo : SUBSET Printers]
    BY <1>1 DEF ListenerInv, ListenerTypes
  <1>3. CASE UNCHANGED << tasks, active >>
    BY <1>1, <1>2, <1>3 DEF ListenerInv, ListenerTypes, OneListener, RunningTasks, NamedApart,
                            TodoIsUnwatched
  <1>4. CASE config[p] # None
    <2>1. PICK n \in FreshSerial :
            /\ tasks' = tasks \cup {[printer |-> p, config |-> config[p],
                                     state |-> "running", serial |-> n]}
            /\ active' = [active EXCEPT ![p] = [serial |-> n, snapshot |-> sweep.snapshots[p]]]
      BY <1>4, Zenon DEF Spawn
    <2> DEFINE new == [printer |-> p, config |-> config[p], state |-> "running", serial |-> n]
               watch == [serial |-> n, snapshot |-> sweep.snapshots[p]]
    <2>2. n \in Nat \ {0} /\ \A t \in tasks : t.serial # n
      BY DEF FreshSerial
    <2>3. new \in Task /\ new.serial = n /\ new.printer = p /\ new.state = "running"
      BY <1>4, <2>2 DEF Task, ListenerInv, ListenerTypes
    <2>4. watch \in Watched /\ watch.serial = n /\ watch # None
      BY <1>1, <2>2, WatchedAssumption DEF Watched
    <2>5. tasks' = tasks \cup {new} /\ active' = [active EXCEPT ![p] = watch]
      BY <2>1
    <2> HIDE DEF new, watch
    <2>6. /\ active'[p] = watch /\ \A q \in Printers : q # p => active'[q] = active[q]
          /\ active' \in [Printers -> Watched \cup {None}]
      BY <2>4, <2>5 DEF ListenerInv, ListenerTypes
    <2>7. ListenerTypes'
      BY <1>1, <1>2, <2>3, <2>5, <2>6 DEF ListenerInv, ListenerTypes
    <2>8. NamedApart'
      BY <2>2, <2>3, <2>5 DEF ListenerInv, NamedApart
    <2>9. TodoIsUnwatched'
      BY <1>2, <2>6 DEF ListenerInv, ListenerTypes, TodoIsUnwatched
    <2>10. OneListener'
      <3>1. RunningTasks(p) = {}
        BY <1>1 DEF ListenerInv, OneListener
      <3>2. RunningTasks(p)' = {new}
        BY <2>3, <2>5, <3>1 DEF RunningTasks
      <3>3. \A q \in Printers : q # p => RunningTasks(q)' = RunningTasks(q)
        BY <2>3, <2>5 DEF RunningTasks
      <3> QED
        BY <2>3, <2>4, <2>6, <3>2, <3>3 DEF ListenerInv, OneListener
    <2> QED
      BY <2>7, <2>8, <2>9, <2>10 DEF ListenerInv
  <1> QED
    BY <1>3, <1>4 DEF Spawn

(* Steps that change neither a task nor the reconciler's map.              *)
LEMMA PassKeepsListeners ==
    ASSUME ListenerInv, UNCHANGED << tasks, active >>,
           config' \in [Printers -> Versions \cup {None}], edits' \in Nat,
           \/ UNCHANGED sweep
           \/ /\ sweep'.todo = {}
              /\ sweep' \in [step : {"idle", "pruning", "spawning"},
                             snapshots : [Printers -> Versions \cup {None}],
                             todo : SUBSET Printers]
    PROVE  ListenerInv'
  <1>1. ListenerTypes' /\ TodoIsUnwatched'
    BY DEF ListenerInv, ListenerTypes, TodoIsUnwatched
  <1>2. OneListener' /\ NamedApart'
    BY DEF ListenerInv, OneListener, NamedApart, RunningTasks
  <1> QED
    BY <1>1, <1>2 DEF ListenerInv

LEMMA NextKeepsListeners ==
    ASSUME ListenerInv, [Next]_vars
    PROVE  ListenerInv'
  <1>0. config \in [Printers -> Versions \cup {None}] /\ edits \in Nat
    BY DEF ListenerInv, ListenerTypes
  <1>1. CASE UNCHANGED listenerVars
    BY <1>0, <1>1, PassKeepsListeners DEF listenerVars
  <1>2. ASSUME NEW p \in Printers, EditPrinter(p) PROVE ListenerInv'
    <2>1. edits' \in Nat /\ edits + 1 \in Versions /\ UNCHANGED << tasks, active, sweep >>
      BY <1>0, <1>2, WorkerAssumption DEF EditPrinter, Versions
    <2>2. config' \in [Printers -> Versions \cup {None}]
      BY <1>0, <1>2, <2>1 DEF EditPrinter
    <2> QED
      BY <2>1, <2>2, PassKeepsListeners
  <1>3. CASE LoadSnapshots \/ EndSweep \/ AbortSweep
    <2>1. UNCHANGED << config, edits, tasks, active >>
      BY <1>3 DEF LoadSnapshots, EndSweep, AbortSweep
    <2>2. \/ sweep' = [step |-> "pruning", snapshots |-> config, todo |-> {}]
          \/ sweep' = NoSweep
      BY <1>3 DEF LoadSnapshots, EndSweep, AbortSweep
    <2>3. /\ sweep'.todo = {}
          /\ sweep' \in [step : {"idle", "pruning", "spawning"},
                         snapshots : [Printers -> Versions \cup {None}],
                         todo : SUBSET Printers]
      BY <1>0, <2>2 DEF NoSweep
    <2> QED
      BY <1>0, <2>1, <2>3, PassKeepsListeners
  <1>4. CASE WorkerDies
    <2>1. /\ tasks' = {} /\ active' = [p \in Printers |-> None] /\ sweep' = NoSweep
          /\ UNCHANGED << config, edits >>
      BY <1>4 DEF WorkerDies
    <2>2. ListenerTypes'
      BY <1>0, <2>1 DEF ListenerTypes, NoSweep
    <2>3. OneListener' /\ NamedApart' /\ TodoIsUnwatched'
      BY <2>1 DEF OneListener, NamedApart, TodoIsUnwatched, NoSweep, RunningTasks
    <2> QED
      BY <2>2, <2>3 DEF ListenerInv
  <1>5. CASE \E t \in tasks : Crash(t) \/ Unwind(t)
    BY <1>5, CrashKeepsListeners
  <1>6. CASE Prune \/ \E p \in Printers : Spawn(p)
    BY <1>6, PruneKeepsListeners, SpawnKeepsListeners
  <1>7. CASE UNCHANGED vars
    BY <1>1, <1>7 DEF vars
  <1> QED
    BY <1>1, <1>2, <1>3, <1>4, <1>5, <1>6, <1>7 DEF Next, Reconcile

(* Every printer has at most one listener that runs, and the reconciler    *)
(* knows it, whatever crashes, dies or changes during its pass             *)
(* (_reconcile_printers of moonraker_worker.py).                           *)
THEOREM OneListenerAlways == Spec => []OneListener
  <1>1. Init => ListenerInv
    BY ListenerInit
  <1>2. ListenerInv /\ [Next]_vars => ListenerInv'
    BY NextKeepsListeners
  <1>3. ListenerInv => OneListener
    BY DEF ListenerInv
  <1> QED
    BY <1>1, <1>2, <1>3, PTL DEF Spec

-----------------------------------------------------------------------------
(* The operator dialogs. *)

QueueOK ==
    /\ status \in [Entries -> Statuses]
    /\ next \in Entries \cup {NoEntry}
    /\ NextIsWaiting

\* The entry that the printer's task uploads is claimed, and nothing else is on the printer.
\* That it is claimed, not just busy, keeps the web pages from deciding or restarting it.
UploadIsAlone ==
    job.step = "uploading" =>
        /\ job.action.entry \in Entries /\ status[job.action.entry] = "claimed"
        /\ \A x \in Entries : x # job.action.entry => status[x] \notin {"claimed", "printing", "review"}

\* The inductive invariant.
DialogInv == DialogTypeOK /\ NextIsWaiting /\ UploadIsAlone

\* Entry e goes from one status to another; at most a new attempt begins to wait with it.
Moves(e, from, to) ==
    /\ e \in Entries /\ status[e] \in from /\ status'[e] \in to
    /\ \A x \in Entries : x # e => status'[x] = status[x] \/ (status[x] = "absent" /\ status'[x] = "waiting")

\* What steps do to the queue: nothing, or one of these moves.
QueueMove ==
    \/ UNCHANGED queueVars
    \/ QueueOK' /\ \E e \in Entries :
          \/ Moves(e, {"absent"}, {"waiting"})
          \/ Moves(e, {"waiting"}, {"removed"})
          \/ Moves(e, {"waiting"}, {"claimed"}) /\ Busy = {}
          \/ Moves(e, {"claimed"}, {"printing", "waiting"})
          \/ Moves(e, {"printing"}, {"review"})
          \/ Moves(e, {"review"}, {"passed", "failed"})
          \/ UNCHANGED status

-----------------------------------------------------------------------------
(* The operations on the queue.                                            *)

\* With a next entry that waits, NextIsWaiting needs no more than a witness.
LEMMA NextWaits ==
  ASSUME next' \in Entries, status'[next'] = "waiting"
  PROVE  NextIsWaiting'
BY DEF NextIsWaiting, With

\* The next entry, if there is one, waits.
LEMMA NextFacts ==
  ASSUME QueueOK
  PROVE  /\ next # NoEntry => next \in Entries /\ status[next] = "waiting"
         /\ next = NoEntry => \A e \in Entries : status[e] # "waiting"
         /\ NoEntry \notin Entries
BY DialogAssumption DEF QueueOK, NextIsWaiting, With

\* A waiting entry is removed or claimed.
LEMMA LeavingWaiting ==
  ASSUME QueueOK, NEW e \in Entries, status[e] = "waiting", NEW s \in {"removed", "claimed"}, LeaveWaiting(e, s)
  PROVE  QueueOK' /\ Moves(e, {"waiting"}, {s})
BY DEF QueueOK, LeaveWaiting, Moves, Statuses

\* An entry is queued, or its start has failed.
LEMMA BeginningToWait ==
  ASSUME QueueOK, NEW e \in Entries, status[e] \in {"absent", "claimed"}, BeginWaiting(e)
  PROVE  QueueOK' /\ Moves(e, {status[e]}, {"waiting"})
<1>1. status' \in [Entries -> Statuses] /\ status'[e] = "waiting" /\ \A x \in Entries : x # e => status'[x] = status[x]
  BY DEF QueueOK, BeginWaiting, Statuses
<1>2. next' \in Entries /\ status'[next'] = "waiting"
  BY <1>1, NextFacts DEF BeginWaiting
<1> QED BY <1>1, <1>2, NextWaits DEF QueueOK, Moves

\* A start is recorded.
LEMMA Recording ==
  ASSUME QueueOK, NEW e \in Entries, status[e] = "claimed", Record(e)
  PROVE  QueueOK' /\ Moves(e, {"claimed"}, {"printing"})
<1>1. /\ status' \in [Entries -> Statuses] /\ status'[e] = "printing" /\ next' = next
      /\ \A x \in Entries : x # e => status'[x] = status[x]
  BY DEF QueueOK, Record, Statuses
<1>2. NextIsWaiting'
  BY <1>1 DEF QueueOK, NextIsWaiting, With
<1> QED BY <1>1, <1>2 DEF QueueOK, Moves

\* A verdict, with or without a retry.
LEMMA Deciding ==
  ASSUME QueueOK, NEW e \in Entries, status[e] = "review", NEW passed \in BOOLEAN, Decide(e, passed)
  PROVE  QueueOK' /\ Moves(e, {"review"}, {"passed", "failed"})
<1>1. CASE UNCHANGED next /\ status' = [status EXCEPT ![e] = IF passed THEN "passed" ELSE "failed"]
  <2>1. /\ status' \in [Entries -> Statuses] /\ status'[e] \in {"passed", "failed"}
        /\ \A x \in Entries : x # e => status'[x] = status[x]
    BY <1>1 DEF QueueOK, Statuses
  <2>2. NextIsWaiting'
    BY <1>1, <2>1 DEF QueueOK, NextIsWaiting, With
  <2> QED BY <1>1, <2>1, <2>2 DEF QueueOK, Moves
<1>2. ASSUME NEW retry \in With("absent"), status' = [status EXCEPT ![e] = "failed", ![retry] = "waiting"],
             next' \in {retry, next} \ {NoEntry}
      PROVE  QueueOK' /\ Moves(e, {"review"}, {"passed", "failed"})
  <2>1. retry \in Entries /\ status[retry] = "absent" /\ retry # e
    BY DEF With
  <2>2. /\ status' \in [Entries -> Statuses] /\ status'[e] = "failed" /\ status'[retry] = "waiting"
        /\ \A x \in Entries : x # e /\ x # retry => status'[x] = status[x]
    BY <1>2, <2>1 DEF QueueOK, Statuses
  <2>3. next' \in Entries /\ status'[next'] = "waiting"
    BY <1>2, <2>1, <2>2, NextFacts
  <2> QED BY <2>1, <2>2, <2>3, NextWaits DEF QueueOK, Moves
<1> QED BY <1>1, <1>2 DEF Decide

\* The next entry is claimed on a free printer.
LEMMA Claiming ==
  ASSUME QueueOK, Busy = {}, ClaimNext
  PROVE  next \in Entries /\ QueueOK' /\ Moves(next, {"waiting"}, {"claimed"})
BY NextFacts, LeavingWaiting DEF ClaimNext

-----------------------------------------------------------------------------
\* The claim of a running upload lasts through every move that leaves the task alone.
LEMMA UploadKept ==
  ASSUME QueueOK, UploadIsAlone, QueueMove, job' = job,
         \A e \in Entries : status[e] = "claimed" /\ status'[e] # "claimed" => ~Uploading(e)
  PROVE  UploadIsAlone'
<1> SUFFICES ASSUME job.step = "uploading"
             PROVE  /\ status'[job.action.entry] = "claimed"
                    /\ \A x \in Entries : x # job.action.entry => status'[x] \notin {"claimed", "printing", "review"}
  BY DEF UploadIsAlone
<1> DEFINE u == job.action.entry
<1>1. u \in Entries /\ status[u] = "claimed" /\ \A x \in Entries : x # u => status[x] \notin {"claimed", "printing", "review"}
  BY DEF UploadIsAlone
<1>2. status'[u] = "claimed" /\ Busy # {}
  BY <1>1 DEF Uploading, Busy, With
<1>3. ASSUME NEW e \in Entries, NEW from, NEW to, Moves(e, from, to), from \cap {"claimed"} = {}, to \cap {"claimed"} = {}
      PROVE  e # u
  BY <1>1, <1>3 DEF Moves
<1>4. \A x \in Entries : x # u => status'[x] \notin {"claimed", "printing", "review"}
  BY <1>1, <1>2 DEF QueueMove, queueVars, Moves
<1> QED BY <1>2, <1>4

\* What the pages do is one of the moves, and never touches an entry that is uploaded.
LEMMA WebSteps ==
  ASSUME QueueOK, WebStep
  PROVE  QueueMove /\ \A e \in Entries : status[e] = "claimed" /\ status'[e] # "claimed" => ~Uploading(e)
<1>1. ASSUME NEW e \in With("absent"), BeginWaiting(e)
      PROVE  QueueOK' /\ Moves(e, {"absent"}, {"waiting"}) /\ e \in Entries
  BY <1>1, BeginningToWait DEF With
<1>2. CASE Busy = {} /\ ClaimNext
  BY <1>2, Claiming DEF QueueMove, Moves
<1>3. ASSUME NEW e \in With("claimed"), ~Uploading(e), Record(e) \/ BeginWaiting(e)
      PROVE  QueueOK' /\ Moves(e, {"claimed"}, {"printing", "waiting"}) /\ e \in Entries
  BY <1>3, Recording, BeginningToWait DEF With, Moves
<1>4. ASSUME NEW e \in With("review"), NEW passed \in BOOLEAN, Decide(e, passed)
      PROVE  QueueOK' /\ Moves(e, {"review"}, {"passed", "failed"}) /\ e \in Entries
  BY <1>4, Deciding DEF With
<1>5. ASSUME NEW e \in With("waiting"), LeaveWaiting(e, "removed")
      PROVE  QueueOK' /\ Moves(e, {"waiting"}, {"removed"}) /\ e \in Entries
  BY <1>5, LeavingWaiting DEF With
<1>6. ASSUME next # NoEntry, next' \in With("waiting") \ {next}, UNCHANGED status
      PROVE  QueueOK' /\ next \in Entries
  <2>1. next' \in Entries /\ status'[next'] = "waiting"
    BY <1>6 DEF With
  <2> QED BY <1>6, <2>1, NextFacts, NextWaits DEF QueueOK
<1>7. QueueMove
  BY <1>1, <1>2, <1>3, <1>4, <1>5, <1>6 DEF WebStep, QueueMove
<1>8. \A e \in Entries : status[e] = "claimed" /\ status'[e] # "claimed" => ~Uploading(e)
  BY <1>1, <1>2, <1>3, <1>4, <1>5, <1>6, Claiming DEF WebStep, Moves
<1> QED BY <1>7, <1>8


-----------------------------------------------------------------------------
\* What the task has to handle names an entry, unless it is the menu.
LEMMA ActionFacts ==
  ASSUME NEW a \in Action \cup {NoAction}
  PROVE  /\ a.kind \in {"good", "bad", "start", "ended"} => a \in Action /\ a.entry \in Entries
         /\ a # NoAction <=> a \in Action
         /\ a.kind \in {"good", "bad", "start", "ended", "menu", "none"}
BY DEF Action, NoAction

\* The dialogs there are.
LEMMA DialogFacts ==
  /\ \A e \in Entries : ReviewDialog(e) \in Dialog /\ StartDialog(e) \in Dialog
  /\ Handled \in Dialog /\ Info \in Dialog /\ NoPrompt \in Dialog
  /\ NoAction \in Action \cup {NoAction} /\ ShowMenu \in Action
BY DEF Dialog, ReviewDialog, StartDialog, Handled, Info, NoPrompt, Action, ShowMenu

\* What is remembered of a dialog is an entry or nothing.
LEMMA ReviewEntryType ==
  ASSUME NEW d \in Dialog
  PROVE  ReviewEntryPk(d) \in Entries \cup {NoEntry}
BY DEF Dialog, ReviewEntryPk

Jobs == [step : {"idle", "acting", "reading", "uploading", "sending"},
         action : Action \cup {NoAction}, dialog : Dialog]

\* DialogTypeOK without the queue and the counters.
TaskTypes ==
    /\ prompt \in Dialog /\ inbox \in Seq(Action) /\ job \in Jobs
    /\ open_review_pk \in Entries \cup {NoEntry}
    /\ detached \in Action \cup {NoAction} /\ adrift \in Dialog

CounterTypes ==
    /\ forgotten \in BOOLEAN
    /\ presses \in 0 .. MaxPresses /\ failures \in 0 .. MaxFailures /\ restarts \in 0 .. MaxRestarts

\* DialogTypeOK, cut where the proofs need it.
LEMMA TypeParts ==
  /\ DialogTypeOK /\ NextIsWaiting <=> QueueOK /\ TaskTypes /\ CounterTypes
  /\ (DialogTypeOK /\ NextIsWaiting)' <=> QueueOK' /\ TaskTypes' /\ CounterTypes'
BY DEF DialogTypeOK, QueueOK, TaskTypes, CounterTypes, Jobs

\* The job that sends a dialog.
LEMMA Showing ==
  ASSUME TaskTypes, NEW d \in Dialog, Show(d)
  PROVE  open_review_pk' \in Entries \cup {NoEntry} /\ job' \in Jobs /\ job'.step = "sending"
<1>1. job.action \in Action \cup {NoAction}
  BY DEF TaskTypes, Jobs
<1> QED BY <1>1, ReviewEntryType DEF Show, Jobs

\* The dialogs that are built from the queue.
LEMMA NextJobType ==
  ASSUME QueueOK
  PROVE  NextJobDialog \in Dialog /\ \A d \in MenuDialogs : d \in Dialog
<1>1. NextJobDialog \in Dialog
  BY DialogFacts DEF NextJobDialog, QueueOK
<1> QED BY <1>1, DialogFacts DEF MenuDialogs, With

\* The task between two actions.
LEMMA IdleJobType == IdleJob \in Jobs /\ IdleJob.step = "idle"
BY DialogFacts DEF IdleJob, Jobs

\* Nothing is shown or uploaded at the start.
LEMMA InitDialogInv == DialogInit => DialogInv
<1> SUFFICES ASSUME DialogInit
             PROVE  DialogInv
  OBVIOUS
<1>1. QueueOK
  BY DEF DialogInit, QueueOK, Statuses
<1>2. TaskTypes
  BY DialogFacts, IdleJobType DEF DialogInit, TaskTypes
<1>3. CounterTypes
  <2>1. forgotten = FALSE /\ presses = 0 /\ failures = 0 /\ restarts = 0
    BY DEF DialogInit
  <2>2. MaxPresses \in Nat /\ MaxFailures \in Nat /\ MaxRestarts \in Nat
    BY DialogAssumption
  <2>3. 0 \in 0 .. MaxPresses /\ 0 \in 0 .. MaxFailures /\ 0 \in 0 .. MaxRestarts
    BY <2>2
  <2> QED BY <2>1, <2>3 DEF CounterTypes
<1>4. UploadIsAlone
  BY IdleJobType DEF DialogInit, UploadIsAlone
<1> QED BY <1>1, <1>2, <1>3, <1>4, TypeParts DEF DialogInv

-----------------------------------------------------------------------------
\* Every step changes the queue by one of the moves.
LEMMA StepMoves == DialogInv /\ [DialogNext]_dialogVars => QueueMove
<1> SUFFICES ASSUME DialogInv, [DialogNext]_dialogVars
             PROVE  QueueMove
  OBVIOUS
<1>a. QueueOK /\ TaskTypes
  BY TypeParts DEF DialogInv
<1>b. job.action \in Action \cup {NoAction} /\ detached \in Action \cup {NoAction}
  BY <1>a DEF TaskTypes, Jobs
<1>1. CASE WebStep
  BY <1>1, <1>a, WebSteps
<1>2. ASSUME NEW e \in Entries, PrintEnds(e)
      PROVE  QueueMove
  <2>1. status[e] = "printing" /\ next' = next /\ status' = [status EXCEPT ![e] = "review"]
    BY <1>2 DEF PrintEnds, With
  <2>2. /\ status' \in [Entries -> Statuses] /\ status'[e] = "review"
        /\ \A x \in Entries : x # e => status'[x] = status[x]
    BY <1>a, <2>1 DEF QueueOK, Statuses
  <2>3. QueueOK'
    BY <1>a, <2>1, <2>2 DEF QueueOK, NextIsWaiting, With
  <2> QED BY <2>1, <2>2, <2>3 DEF QueueMove, Moves
<1>3. CASE HandleReview
  <2>1. job.action.entry \in Entries
    BY <1>3, <1>b, ActionFacts DEF HandleReview, Act
  <2> QED BY <1>3, <1>a, <2>1, Deciding DEF HandleReview, Reviewable, QueueMove, queueVars
<1>4. CASE HandleStart
  BY <1>4, <1>a, Claiming DEF HandleStart, Startable, QueueMove, queueVars
<1>5. CASE StartSucceeds \/ StartFails
  <2>1. job.action.entry \in Entries /\ status[job.action.entry] = "claimed"
    BY <1>5 DEF StartSucceeds, StartFails, DialogInv, UploadIsAlone
  <2> QED BY <1>5, <1>a, <2>1, Recording, BeginningToWait DEF StartSucceeds, StartFails, QueueMove, Moves
<1>6. CASE DetachedActs
  <2>1. detached.kind \in {"good", "bad"} => detached.entry \in Entries
    BY <1>b, ActionFacts
  <2> QED BY <1>6, <1>a, <2>1, Deciding, Claiming DEF DetachedActs, Reviewable, Startable, QueueMove, queueVars
<1>7. CASE \/ Press \/ ClosePrompt \/ Take \/ HandleMenu \/ ShowNextJob \/ OnReviewPending \/ Delivered
           \/ CloseIfStale \/ SendFails \/ ActionFails \/ Restart \/ AdriftArrives \/ UNCHANGED dialogVars
  BY <1>7 DEF Press, ClosePrompt, Take, HandleMenu, ShowNextJob, OnReviewPending, Delivered, CloseIfStale,
              SendFails, ActionFails, Restart, AdriftArrives, dialogVars, queueVars, QueueMove
<1> QED BY <1>1, <1>2, <1>3, <1>4, <1>5, <1>6, <1>7 DEF DialogNext, UnderLock

\* What the task remembers keeps its types.
LEMMA StepTaskTypes == DialogInv /\ [DialogNext]_dialogVars => TaskTypes' /\ CounterTypes'
<1> SUFFICES ASSUME DialogInv, [DialogNext]_dialogVars
             PROVE  TaskTypes' /\ CounterTypes'
  OBVIOUS
<1>a. QueueOK /\ TaskTypes /\ CounterTypes
  BY TypeParts DEF DialogInv
<1>b. /\ job.action \in Action \cup {NoAction} /\ job.dialog \in Dialog
      /\ job.action.kind \in {"good", "bad", "start", "ended"} => job.action \in Action /\ job.action.entry \in Entries
  BY <1>a, ActionFacts DEF TaskTypes, Jobs
<1>1. CASE WebStep
  BY <1>1, <1>a DEF WebStep, TaskTypes, CounterTypes, bounds
<1>2. ASSUME NEW e \in Entries, PrintEnds(e)
      PROVE  TaskTypes' /\ CounterTypes'
  <2>1. [kind |-> "ended", entry |-> e] \in Action
    BY DEF Action
  <2> QED BY <1>2, <1>a, <2>1 DEF PrintEnds, TaskTypes, CounterTypes, bounds
<1>3. CASE Press
  <2>1. \A b \in Buttons : b \in Action
    BY <1>a DEF Buttons, Action, ShowMenu, TaskTypes, Dialog
  <2>2. PICK first \in Buttons, second \in Buttons \cup {NoAction} :
          LET pressed == IF second = NoAction THEN << first >> ELSE << first, second >>
          IN  /\ presses + Len(pressed) <= MaxPresses
              /\ presses' = presses + Len(pressed)
              /\ \/ inbox' = inbox \o pressed /\ UNCHANGED failures
                 \/ /\ failures < MaxFailures
                    /\ failures' = failures + 1
                    /\ UNCHANGED inbox
    BY <1>3 DEF Press
  <2> DEFINE pressed == IF second = NoAction THEN << first >> ELSE << first, second >>
  <2>3. pressed \in Seq(Action) /\ Len(pressed) \in Nat
    BY <2>1
  <2>4. presses + Len(pressed) <= MaxPresses /\ presses' = presses + Len(pressed)
    BY <2>2
  <2>5. inbox' \in {inbox \o pressed, inbox} /\ failures' \in 0 .. MaxFailures
    <3>1. failures \in 0 .. MaxFailures /\ MaxFailures \in Nat
      BY <1>a, DialogAssumption DEF CounterTypes
    <3>2. \/ inbox' = inbox \o pressed /\ failures' = failures
          \/ inbox' = inbox /\ failures < MaxFailures /\ failures' = failures + 1
      BY <2>2
    <3> QED BY <3>1, <3>2
  <2> HIDE DEF pressed
  <2>6. inbox' \in Seq(Action)
    <3>1. inbox \in Seq(Action)
      BY <1>a DEF TaskTypes
    <3>2. inbox \o pressed \in Seq(Action)
      BY <2>3, <3>1
    <3> QED BY <2>5, <3>1, <3>2
  <2>7. presses' \in 0 .. MaxPresses
    <3>1. presses \in 0 .. MaxPresses /\ MaxPresses \in Nat
      BY <1>a, DialogAssumption DEF CounterTypes
    <3>2. PICK k \in Nat : presses + k <= MaxPresses /\ presses' = presses + k
      BY <2>3, <2>4
    <3> QED BY <3>1, <3>2
  <2> QED BY <1>3, <1>a, <2>5, <2>6, <2>7, DialogFacts DEF Press, TaskTypes, CounterTypes
<1>4. CASE ClosePrompt \/ AdriftArrives
  BY <1>4, <1>a, DialogFacts DEF ClosePrompt, AdriftArrives, TaskTypes, CounterTypes, bounds
<1>5. CASE Take
  <2>1. Head(inbox) \in Action /\ Tail(inbox) \in Seq(Action)
    BY <1>5, <1>a DEF Take, TaskTypes
  <2>2. job' \in Jobs
    BY <1>5, <2>1, DialogFacts DEF Take, Jobs
  <2> QED BY <1>5, <1>a, <2>1, <2>2 DEF Take, TaskTypes, CounterTypes, bounds
<1>6. CASE HandleReview \/ HandleStart
  <2>1. CASE Show(Handled)
    BY <1>6, <1>a, <2>1, Showing, DialogFacts DEF HandleReview, HandleStart, TaskTypes, CounterTypes, bounds
  <2>2. ASSUME NEW s \in {"reading", "uploading"}, job' = [job EXCEPT !.step = s], UNCHANGED open_review_pk
        PROVE  TaskTypes' /\ CounterTypes'
    <3>1. job' \in Jobs
      BY <1>a, <2>2 DEF TaskTypes, Jobs
    <3> QED BY <1>6, <1>a, <2>2, <3>1 DEF HandleReview, HandleStart, TaskTypes, CounterTypes, bounds
  <2> QED BY <1>6, <2>1, <2>2 DEF HandleReview, HandleStart
<1>7. CASE StartSucceeds
  BY <1>7, <1>a, IdleJobType DEF StartSucceeds, TaskTypes, CounterTypes
<1>8. CASE StartFails \/ HandleMenu \/ ShowNextJob \/ CloseIfStale
  <2>1. PICK d \in Dialog : Show(d)
    BY <1>8, <1>a, DialogFacts, NextJobType DEF StartFails, HandleMenu, ShowNextJob, CloseIfStale
  <2> QED BY <1>8, <1>a, <2>1, Showing
             DEF StartFails, HandleMenu, ShowNextJob, CloseIfStale, TaskTypes, CounterTypes, bounds
<1>9. CASE OnReviewPending
  <2>1. CASE job' = IdleJob /\ UNCHANGED open_review_pk
    BY <1>9, <1>a, <2>1, IdleJobType DEF OnReviewPending, TaskTypes, CounterTypes, bounds
  <2>2. CASE Show(ReviewDialog(job.action.entry))
    <3>1. ReviewDialog(job.action.entry) \in Dialog
      BY <1>9, <1>b, DialogFacts DEF OnReviewPending, Act
    <3> QED BY <1>9, <1>a, <2>2, <3>1, Showing DEF OnReviewPending, TaskTypes, CounterTypes, bounds
  <2> QED BY <1>9, <2>1, <2>2 DEF OnReviewPending
<1>10. CASE Delivered
  BY <1>10, <1>a, <1>b, IdleJobType DEF Delivered, TaskTypes, CounterTypes, bounds
<1>11. CASE SendFails
  BY <1>11, <1>a, IdleJobType, DialogAssumption DEF SendFails, TaskTypes, CounterTypes
<1>12. CASE ActionFails
  BY <1>12, <1>a, Showing, DialogFacts, DialogAssumption DEF ActionFails, TaskTypes, CounterTypes
<1>13. CASE Restart
  <2>1. detached' \in Action \cup {NoAction} /\ adrift' \in Dialog
    BY <1>13, <1>b, DialogFacts DEF Restart
  <2>2. restarts' \in 0 .. MaxRestarts
    BY <1>13, <1>a, DialogAssumption DEF Restart, CounterTypes
  <2>3. inbox' \in Seq(Action)
    BY <1>13 DEF Restart
  <2> QED BY <1>13, <1>a, <2>1, <2>2, <2>3, IdleJobType DEF Restart, TaskTypes, CounterTypes
<1>14. CASE DetachedActs
  BY <1>14, <1>a, DialogFacts DEF DetachedActs, TaskTypes, CounterTypes, bounds
<1>15. CASE UNCHANGED dialogVars
  BY <1>15, <1>a DEF dialogVars, TaskTypes, CounterTypes
<1> QED BY <1>1, <1>2, <1>3, <1>4, <1>5, <1>6, <1>7, <1>8, <1>9, <1>10, <1>11, <1>12, <1>13, <1>14, <1>15
        DEF DialogNext, UnderLock

\* A claimed entry stays alone on the printer until its upload ends.
LEMMA StepUploadIsAlone == DialogInv /\ [DialogNext]_dialogVars => UploadIsAlone'
<1> SUFFICES ASSUME DialogInv, [DialogNext]_dialogVars
             PROVE  UploadIsAlone'
  OBVIOUS
<1>a. QueueOK /\ TaskTypes /\ UploadIsAlone /\ QueueMove
  BY TypeParts, StepMoves DEF DialogInv
<1>b. job \in Jobs
  BY <1>a DEF TaskTypes
<1>1. CASE WebStep
  <2>1. job' = job /\ \A e \in Entries : status[e] = "claimed" /\ status'[e] # "claimed" => ~Uploading(e)
    BY <1>1, <1>a, WebSteps DEF WebStep
  <2> QED BY <1>a, <2>1, UploadKept
<1>2. ASSUME NEW e \in Entries, PrintEnds(e)
      PROVE  UploadIsAlone'
  <2>1. job' = job /\ \A x \in Entries : status[x] = "claimed" => status'[x] = "claimed"
    BY <1>2, <1>a DEF PrintEnds, With, QueueOK
  <2> QED BY <1>a, <2>1, UploadKept
<1>3. CASE DetachedActs
  <2>1. job' = job
    BY <1>3 DEF DetachedActs
  <2>2. detached \in Action \cup {NoAction}
    BY <1>a DEF TaskTypes
  <2>3. detached.kind \in {"good", "bad"} => detached.entry \in Entries
    BY <2>2, ActionFacts
  <2>4. \A x \in Entries : status[x] = "claimed" => status'[x] = "claimed"
    BY <1>3, <1>a, <2>3, Deciding, Claiming DEF DetachedActs, Reviewable, Startable, queueVars, Moves
  <2> QED BY <1>a, <2>1, <2>4, UploadKept
<1>4. CASE Press \/ ClosePrompt \/ AdriftArrives \/ UNCHANGED dialogVars
  <2>1. job' = job /\ status' = status
    BY <1>4 DEF Press, ClosePrompt, AdriftArrives, dialogVars, queueVars
  <2> QED BY <1>a, <2>1 DEF UploadIsAlone
<1>5. CASE HandleStart
  <2>1. CASE Show(Handled)
    BY <1>a, <2>1, Showing, DialogFacts DEF UploadIsAlone
  <2>2. ASSUME Startable(job.action.entry), ClaimNext, job' = [job EXCEPT !.step = "uploading"]
        PROVE  UploadIsAlone'
    <3>1. next \in Entries /\ Moves(next, {"waiting"}, {"claimed"}) /\ Busy = {} /\ next = job.action.entry
      BY <1>a, <2>2, Claiming DEF Startable
    <3>2. job'.action.entry = next
      BY <1>b, <2>2, <3>1 DEF Jobs
    <3>3. \A x \in Entries : status[x] \notin {"claimed", "printing", "review"}
      BY <3>1 DEF Busy, With
    <3>4. status'[next] = "claimed" /\ \A x \in Entries : x # next => status'[x] \notin {"claimed", "printing", "review"}
      BY <3>1, <3>3 DEF Moves
    <3> QED BY <3>1, <3>2, <3>4 DEF UploadIsAlone
  <2> QED BY <1>5, <2>1, <2>2 DEF HandleStart
<1>6. CASE HandleReview
  BY <1>6, <1>a, <1>b, Showing, DialogFacts DEF HandleReview, UploadIsAlone, Jobs
<1>7. CASE StartFails \/ HandleMenu \/ ShowNextJob \/ CloseIfStale \/ ActionFails
  <2>1. PICK d \in Dialog : Show(d)
    BY <1>7, <1>a, DialogFacts, NextJobType DEF StartFails, HandleMenu, ShowNextJob, CloseIfStale, ActionFails
  <2> QED BY <1>a, <2>1, Showing DEF UploadIsAlone
<1>8. CASE Take \/ StartSucceeds \/ OnReviewPending \/ Delivered \/ SendFails \/ Restart
  <2>1. job'.step # "uploading"
    BY <1>8, IdleJobType DEF Take, StartSucceeds, OnReviewPending, Delivered, SendFails, Restart, Show
  <2> QED BY <2>1 DEF UploadIsAlone
<1> QED BY <1>1, <1>2, <1>3, <1>4, <1>5, <1>6, <1>7, <1>8 DEF DialogNext, UnderLock

\* No step breaks DialogInv ...
LEMMA StepDialogInv == DialogInv /\ [DialogNext]_dialogVars => DialogInv'
<1> SUFFICES ASSUME DialogInv, [DialogNext]_dialogVars
             PROVE  DialogInv'
  OBVIOUS
<1>1. QueueOK /\ QueueMove
  BY TypeParts, StepMoves DEF DialogInv
<1>2. QueueOK'
  BY <1>1 DEF QueueMove, QueueOK, queueVars, NextIsWaiting, With
<1> QED BY <1>2, StepTaskTypes, StepUploadIsAlone, TypeParts DEF DialogInv

\* ... so it always holds.
LEMMA DialogInvAlways == DialogSpec => []DialogInv
BY InitDialogInv, StepDialogInv, PTL DEF DialogSpec

\* Every reachable state of the dialogs has the types of DialogTypeOK.
THEOREM DialogTypes == DialogSpec => []DialogTypeOK
BY DialogInvAlways, PTL DEF DialogInv

\* As long as the task uploads an entry, it is the one its dialog offered, and nothing else
\* is claimed, printed or to be reviewed: whatever pages, late presses and threads of a
\* task that was restarted do meanwhile.
THEOREM StartsWhatWasOfferedAlways == DialogSpec => []StartsWhatWasOffered
<1>1. DialogInv => StartsWhatWasOffered
  BY DEF DialogInv, UploadIsAlone, StartsWhatWasOffered, Busy, With
<1> QED BY <1>1, DialogInvAlways, PTL

\* No second press, page or cancelled action changes a verdict.
THEOREM VerdictsAreFinalAlways == DialogSpec => VerdictsAreFinal
<1> DEFINE Final == \A e \in Entries : status[e] \in {"passed", "failed"} => status'[e] = status[e]
<1>1. DialogInv /\ [DialogNext]_dialogVars => [Final]_dialogVars
  BY StepMoves DEF QueueMove, Moves, queueVars
<1> QED BY <1>1, DialogInvAlways, PTL DEF DialogSpec, VerdictsAreFinal
=============================================================================
