--------------------------- MODULE PrintedCopies ---------------------------
(***************************************************************************)
(* How many copies of its parts a print job has printed                    *)
(* (core/models/parts.py, core/services/gcode_objects.py,                  *)
(* core/services/threemf.py and the exclusions of core/models/queue.py).   *)
(*                                                                         *)
(* Slicing bundles every mesh of every copy as an object of its own; the   *)
(* slicer decides which plate an object lies on, and the labels of the     *)
(* G-code tell afterwards.  On the printer an object may be excluded; the  *)
(* Moonraker worker stores that with the attempt, an operator may correct  *)
(* it on two web pages, and a copy counts once all its meshes lie on       *)
(* passed plates and none is excluded.                                     *)
(*                                                                         *)
(* What really came out of the printer is kept beside the records          *)
(* ("layout", "spoiled"), so that the count can be compared with it.       *)
(* Every attempt has a printer of its own here; who may start when is the  *)
(* subject of PrintQueue, and which event belongs to which attempt that of *)
(* PrinterSync.                                                            *)
(***************************************************************************)
EXTENDS Integers, Sequences, FiniteSets, SequencesExt

CONSTANTS
    Bundle,         \* sequence of [quantity, meshes], the parts of the job
    Layouts,        \* what the slicer may do: object -> plate, 0 if on none
    Users,          \* open pages
    None,           \* no value
    MaxAttempts,    \* bound on the number of attempts
    MaxSpoiled      \* bound on the objects excluded on printers

ASSUME BundleAssumption ==
    /\ Bundle \in Seq([quantity : Nat \ {0}, meshes : Nat \ {0}])
    /\ MaxAttempts \in Nat /\ MaxSpoiled \in Nat

Parts == DOMAIN Bundle
Repeat(x, n) == [i \in 1 .. n |-> x]

(* The 3MF file: the objects in the order they are written, each a mesh.   *)
(* The number of an object is its place.                                   *)
Written ==
    FlattenSeq([p \in Parts |-> FlattenSeq([k \in 1 .. Bundle[p].meshes |->
        Repeat([part |-> p, mesh |-> k], Bundle[p].quantity)])])
Objects == DOMAIN Written

ObjectsBefore(p) == SumFunction([q \in 1 .. p - 1 |-> Bundle[q].meshes * Bundle[q].quantity])

(* The mapping of object numbers to copies, derived independently.         *)
\* Fault: the meshes of a copy are numbered together.
CopyMajor ==
    UNION {{[id |-> ObjectsBefore(p) + (c - 1) * Bundle[p].meshes + k, part |-> p, copy |-> c] :
        k \in 1 .. Bundle[p].meshes, c \in 1 .. Bundle[p].quantity} : p \in Parts}
BundleObjects ==
    UNION {{[id |-> ObjectsBefore(p) + (k - 1) * Bundle[p].quantity + c, part |-> p, copy |-> c] :
        k \in 1 .. Bundle[p].meshes, c \in 1 .. Bundle[p].quantity} : p \in Parts}

CopiesOf(p) == 1 .. Bundle[p].quantity
IdsOf(p, c) == {b.id : b \in {b \in BundleObjects : b.part = p /\ b.copy = c}}

(***************************************************************************)
(* Slicing: "layout" is the plate of an object, 0 if it lies on none, and  *)
(* "labelled" are the plates whose G-code names its objects.               *)
(***************************************************************************)
PlatesOf(layout) == {layout[o] : o \in Objects} \ {0}

(* An answer of the slicer has a plate, or it is an error.                 *)
ASSUME LayoutsAssumption == \A l \in Layouts : l \in [Objects -> Nat] /\ PlatesOf(l) # {}

(* The object numbers read from the G-code of a plate; a lone plate        *)
(* without labels is taken to hold them all.                               *)
ReadIds(layout, labelled, plate) ==
    IF plate \in labelled THEN {o \in Objects : layout[o] = plate}
    ELSE IF PlatesOf(layout) = {plate} THEN Objects
    ELSE {}

IsAssignable(layout, labelled) == labelled = PlatesOf(layout) \/ Cardinality(PlatesOf(layout)) = 1

(* The rows recorded for a sliced job: the copies on each plate, with      *)
(* their objects there.                                                    *)
PlateParts(layout, labelled) ==
    LET Row(plate, p, c) ==
            [plate |-> plate, part |-> p, copy |-> c, ids |-> IdsOf(p, c) \cap ReadIds(layout, labelled, plate)]
    IN  IF ~IsAssignable(layout, labelled) THEN {}
        ELSE {row \in UNION {{Row(plate, p, c) : plate \in PlatesOf(layout), c \in CopiesOf(p)} : p \in Parts} :
                 row.ids # {}}

AttemptIds == 1 .. MaxAttempts

(* An attempt is seen from its start on.  "void" is one that failed or was *)
(* removed from the queue: neither counts, and its plate is free again.    *)
Stages == {"none", "printing", "review", "passed", "void"}
OpenStages == {"printing", "review"}
EditableStages == {"review", "passed"}

VARIABLES
    layout,     \* object -> plate it lies on, 0 if none (what the slicer did)
    known,      \* plate_parts_known of the job
    rows,       \* the PrintJobPlatePart rows
    attempt,    \* id -> PrintQueue row
    spoiled,    \* id -> objects excluded on the printer during the attempt
    heard,      \* id -> objects of an update the worker is handling
    page        \* user -> the page with check boxes open in the browser

vars == << layout, known, rows, attempt, spoiled, heard, page >>

Plates == PlatesOf(layout)
RowsOn(plate) == {row \in rows : row.plate = plate}

(* "names" is excluded_objects, "excluded" the rows of                     *)
(* PrintAttemptExclusion; "done" is completed_at, as the rank of the       *)
(* attempt among those that are done.  "corrected" is a history variable:  *)
(* an operator has saved other exclusions than there were.                 *)
NoAttempt == [plate |-> 0, stage |-> "none", names |-> {}, excluded |-> {}, done |-> 0, corrected |-> FALSE]

TypeOK ==
    /\ layout \in Layouts
    /\ known \in BOOLEAN
    /\ attempt \in [AttemptIds ->
           [plate : Plates \cup {0}, stage : Stages, names : SUBSET Objects, excluded : SUBSET rows,
            done : 0 .. MaxAttempts, corrected : BOOLEAN]]
    /\ spoiled \in [AttemptIds -> SUBSET Objects]
    /\ heard \in [AttemptIds -> SUBSET Objects]
    /\ \A u \in Users : page[u] = None \/ (page[u].attempt \in AttemptIds /\ page[u].seen \subseteq rows)

(* A slicer that leaves an object out has labelled its plates: a plate     *)
(* without labels is only taken to hold what was bundled if all of it was  *)
(* placed.                                                                 *)
Init ==
    /\ layout \in Layouts
    /\ \E labelled \in SUBSET PlatesOf(layout) :
        /\ labelled = PlatesOf(layout) \/ \A o \in Objects : layout[o] # 0
        /\ known = IsAssignable(layout, labelled)
        /\ rows = PlateParts(layout, labelled)
    /\ attempt = [a \in AttemptIds |-> NoAttempt]
    /\ spoiled = [a \in AttemptIds |-> {}]
    /\ heard = [a \in AttemptIds |-> {}]
    /\ page = [u \in Users |-> None]

(***************************************************************************)
(* What the database derives from attempts and rows.                       *)
(***************************************************************************)
Passed(plate) == {a \in AttemptIds : attempt[a].plate = plate /\ attempt[a].stage = "passed"}
Completed == {plate \in Plates : Passed(plate) # {}}
IsExcluded(row) == \E a \in AttemptIds : attempt[a].stage = "passed" /\ row \in attempt[a].excluded

Counting(p, c) == {row \in rows : row.part = p /\ row.copy = c /\ row.plate \in Completed /\ ~IsExcluded(row)}
MeshesOf(S) == SumFunction([row \in S |-> Cardinality(row.ids)])

CompleteCopies(p) == {c \in CopiesOf(p) : MeshesOf(Counting(p, c)) >= Bundle[p].meshes}
HasLegacyCount == ~known \/ rows = {}

PrintedInJob(p) ==
    IF HasLegacyCount THEN IF Completed = Plates THEN Bundle[p].quantity ELSE 0
    ELSE Cardinality(CompleteCopies(p))

(* The overview: a row per passed plate, with the copies it completed.     *)
(* Completion times are equal only in theory; then the plate number        *)
(* decides.                                                                *)
CompletedAt(plate) == attempt[CHOOSE a \in Passed(plate) : TRUE].done
FinishedLater(plate, other) ==
    IF CompletedAt(plate) # CompletedAt(other) THEN CompletedAt(plate) > CompletedAt(other) ELSE plate > other
ExcludedCopies(p) ==
    {row.copy : row \in {row \in rows : row.part = p /\ row.plate \in Completed /\ IsExcluded(row)}}
\* Fault: a complete copy is listed on every plate it lies on.
OnEachPlate(p, c) == {row.plate : row \in Counting(p, c)}
FinishedOn(p, c) ==
    {plate \in {row.plate : row \in Counting(p, c)} :
        \A row \in Counting(p, c) : row.plate = plate \/ FinishedLater(plate, row.plate)}
OverviewCopies(p, plate) ==
    Cardinality({c \in CompleteCopies(p) \ ExcludedCopies(p) : plate \in FinishedOn(p, c)})
OverviewTotal(p) ==
    IF HasLegacyCount THEN PrintedInJob(p) ELSE SumFunction([plate \in Completed |-> OverviewCopies(p, plate)])

(* The copies that lie on no plate, at least not completely.               *)
UnplacedCopies(p) ==
    IF HasLegacyCount THEN 0
    ELSE Cardinality({c \in CopiesOf(p) :
             MeshesOf({row \in rows : row.part = p /\ row.copy = c}) < Bundle[p].meshes})

(***************************************************************************)
(* Attempts.                                                               *)
(***************************************************************************)
\* A plate that has passed is not queued again.  (A form validated before it passed can do
\* so, see MaySave of PrintQueue; that is left out here.)
MayQueue(plate) ==
    \A a \in AttemptIds : attempt[a].plate = plate => attempt[a].stage \notin OpenStages \cup {"passed"}

(* Attempts are numbered in the order of their creation.                   *)
StartAttempt(plate) ==
    LET a == Cardinality({b \in AttemptIds : attempt[b].stage # "none"}) + 1
    IN  /\ MayQueue(plate) /\ a \in AttemptIds
        /\ attempt' = [attempt EXCEPT ![a] = [NoAttempt EXCEPT !.plate = plate, !.stage = "printing"]]
        /\ UNCHANGED << layout, known, rows, spoiled, heard, page >>

(* On the printer somebody excludes an object.  That takes labels in the   *)
(* G-code; for a lone plate without any the model allows more than the     *)
(* printer.  The printer may still be at it when its attempt awaits review *)
(* already, as a cancel command that failed leaves it running.             *)
ExcludeOnPrinter(a) ==
    /\ attempt[a].stage \in {"printing", "review"}
    /\ SumFunction([b \in AttemptIds |-> Cardinality(spoiled[b])]) < MaxSpoiled
    /\ \E row \in RowsOn(attempt[a].plate) : \E o \in row.ids \ spoiled[a] :
        spoiled' = [spoiled EXCEPT ![a] = @ \cup {o}]
    /\ UNCHANGED << layout, known, rows, attempt, heard, page >>

(* The worker loads the printing entry for an update; it handles the       *)
(* updates of a printer one after the other.                               *)
Hear(a) ==
    /\ attempt[a].stage = "printing"
    /\ heard[a] = {} /\ spoiled[a] \ attempt[a].names # {}
    /\ heard' = [heard EXCEPT ![a] = spoiled[a]]
    /\ UNCHANGED << layout, known, rows, attempt, spoiled, page >>

\* Fault: exclusions are recorded until the review.
NotResolved(a) == attempt[a].stage \in OpenStages
IsPrinting(a) == attempt[a].stage = "printing"

RowsWith(plate, ids) == {row \in RowsOn(plate) : row.ids \cap ids # {}}

(* record_excluded_objects() reads the row again under its lock.  Names    *)
(* recorded before are not excluded once more.                             *)
RecordExcluded(a) ==
    /\ heard[a] # {}
    /\ heard' = [heard EXCEPT ![a] = {}]
    /\ attempt' =
           IF IsPrinting(a)
           THEN [attempt EXCEPT
                    ![a].names = @ \cup heard[a],
                    ![a].excluded = @ \cup RowsWith(attempt[a].plate, heard[a] \ attempt[a].names)]
           ELSE attempt
    /\ UNCHANGED << layout, known, rows, spoiled, page >>

Rank == Cardinality({a \in AttemptIds : attempt[a].done # 0}) + 1

(* The worker sees the end of the print, or an operator cancels it while   *)
(* the worker may be handling an update.                                   *)
Finish(a) ==
    /\ attempt[a].stage = "printing"
    /\ attempt' = [attempt EXCEPT ![a].stage = "review", ![a].done = Rank]
    /\ UNCHANGED << layout, known, rows, spoiled, heard, page >>

(* A verdict without check boxes: the list of the queue or the printer's   *)
(* screen.  Whether a failure is retried at once is the subject of         *)
(* PrintQueue.                                                             *)
Pass(a) ==
    /\ attempt[a].stage = "review"
    /\ attempt' = [attempt EXCEPT ![a].stage = "passed"]
    /\ UNCHANGED << layout, known, rows, spoiled, heard, page >>

FailOrRemove(a) ==
    /\ attempt[a].stage \in OpenStages
    /\ attempt' = [attempt EXCEPT ![a].stage = "void"]
    /\ UNCHANGED << layout, known, rows, spoiled, heard, page >>

(***************************************************************************)
(* The review page and the page of an attempt's exclusions.                *)
(***************************************************************************)
OpenPage(u) ==
    /\ page[u] = None
    /\ \E a \in AttemptIds :
        /\ attempt[a].stage \in EditableStages
        /\ \E kind \in {"review", "exclusions"} :
            /\ kind = "review" => attempt[a].stage = "review"
            /\ page' = [page EXCEPT ![u] = [kind |-> kind, attempt |-> a, seen |-> attempt[a].excluded]]
    /\ UNCHANGED << layout, known, rows, attempt, spoiled, heard >>

WithExclusions(a, ticked) ==
    [attempt EXCEPT ![a].excluded = ticked, ![a].corrected = @ \/ ticked # attempt[a].excluded]

(* A Pass from the review page stores the check boxes in the transaction   *)
(* of the verdict.  A page that comes too late stores nothing.             *)
SubmitPage(u) ==
    LET a == page[u].attempt
        IsCurrent == attempt[a].stage \in IF page[u].kind = "review" THEN {"review"} ELSE EditableStages
    IN  /\ page[u] # None
        /\ page' = [page EXCEPT ![u] = None]
        /\ \/ /\ IsCurrent
              /\ \E ticked \in SUBSET RowsOn(attempt[a].plate) :
                    attempt' = IF page[u].kind = "review"
                               THEN [WithExclusions(a, ticked) EXCEPT ![a].stage = "passed"]
                               ELSE WithExclusions(a, ticked)
           \/ ~IsCurrent /\ UNCHANGED attempt
        /\ UNCHANGED << layout, known, rows, spoiled, heard >>

Next ==
    \/ \E plate \in Plates : StartAttempt(plate)
    \/ \E a \in AttemptIds :
        \/ ExcludeOnPrinter(a) \/ Hear(a) \/ RecordExcluded(a)
        \/ Finish(a) \/ Pass(a) \/ FailOrRemove(a)
    \/ \E u \in Users : OpenPage(u) \/ SubmitPage(u)

Spec == Init /\ [][Next]_vars

(***************************************************************************)
(* Properties.                                                             *)
(***************************************************************************)
(* The objects of a part that came out well, by mesh.                      *)
Good(p, k) ==
    {o \in Objects : Written[o] = [part |-> p, mesh |-> k] /\
        \E a \in AttemptIds : attempt[a].stage = "passed" /\ attempt[a].plate = layout[o] /\ o \notin spoiled[a]}
SpoiledOf(p) ==
    {o \in Objects : Written[o].part = p /\ \E a \in AttemptIds : attempt[a].stage = "passed" /\ o \in spoiled[a]}

(* Every exclusion reached the application, and no operator knew better.   *)
IsTrusted(a) == attempt[a].names = spoiled[a] /\ ~attempt[a].corrected

(* The count is backed by what was printed: never more copies than there   *)
(* are good objects of every mesh, and when all plates have passed, every  *)
(* copy counts but the unplaced ones and one per spoiled object            *)
(* (Part._printed_in_job with the object numbers of the bundle, the labels *)
(* of the G-code and the exclusions of several attempts, retries and       *)
(* plates).                                                                *)
CountIsBacked ==
    (known /\ \A a \in AttemptIds : attempt[a].stage = "passed" => IsTrusted(a)) =>
        \A p \in Parts :
            /\ \A k \in 1 .. Bundle[p].meshes : PrintedInJob(p) <= Cardinality(Good(p, k))
            /\ Completed = Plates =>
                   PrintedInJob(p) >= Bundle[p].quantity - UnplacedCopies(p) - Cardinality(SpoiledOf(p))

(* The overview of printed plates adds up to the count, for a copy that is *)
(* split over plates, excluded on one of them or printed again as well     *)
(* (Part.printed_plates and _printed_in_job, which compute it apart).      *)
OverviewAddsUp == \A p \in Parts : OverviewTotal(p) = PrintedInJob(p)

(* The first correction of an attempt takes back an exclusion that the     *)
(* printer reported only if its page showed it: none is recorded behind    *)
(* the back of an operator who has the review open                         *)
(* (PrintQueue.record_excluded_objects and set_excluded_plate_parts, which *)
(* replaces all exclusions; of two operators who correct the same attempt  *)
(* the later one wins, whatever the other has put back meanwhile).         *)
ExclusionsAreSeen ==
    [][\A a \in AttemptIds : ~attempt[a].corrected =>
          \A row \in RowsWith(attempt[a].plate, attempt[a].names) \cap (attempt[a].excluded \ attempt'[a].excluded) :
              \E u \in Users :
                  /\ page[u] # None /\ page'[u] = None
                  /\ page[u].attempt = a /\ row \in page[u].seen]_vars
============================================================================
