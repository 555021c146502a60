---------------------------- MODULE PrinterQueue ----------------------------
(***************************************************************************)
(* The waiting entries of one printer and the order in which they are      *)
(* printed: entries join at the end or, as a retry, at position 0, the     *)
(* first one is started, any one can be removed or moved by hand.          *)
(*                                                                         *)
(* The code reorders a Python list and writes the result back as positions *)
(* and one priority.  The module states what the list does (on sequences)  *)
(* and checks that the rows written by Moved say the same.                 *)
(***************************************************************************)
EXTENDS QueueOrder, SequencesExt

CONSTANTS
    Priorities,
    MaxEntries,    \* bound: rows ever inserted
    None           \* no entry

ASSUME Priorities \subseteq Nat /\ MaxEntries \in Nat

VARIABLES
    rows,       \* the open rows: primary key -> [priority, position]
    running,    \* the row on the printer (printing or awaiting review), or None
    nextPk

vars == <<rows, running, nextPk>>

Pk == 1..MaxEntries

waiting == DOMAIN rows \ {running}

\* Positions never become negative, and the row on the printer is an open one.
TypeOK ==
    /\ DOMAIN rows \subseteq 1..(nextPk - 1)
    /\ rows \in [DOMAIN rows -> [priority : Priorities, position : Nat]]
    /\ running \in DOMAIN rows \cup {None}
    /\ nextPk \in 1..(MaxEntries + 1)

-----------------------------------------------------------------------------
(* The execution order as a list, and what the code does to it.            *)

\* ordered_waiting_entries
OrderedWaiting == SetToSortSeq(waiting, LAMBDA a, b : Precedes(rows, a, b))

\* waiting.pop(current); waiting.insert(target, moved), with 0-based indices.
PopInsert(list, a, t) ==
    LET i == CHOOSE k \in DOMAIN list : list[k] = a
    IN  InsertAt(RemoveAt(list, i), t + 1, a)

-----------------------------------------------------------------------------
Init == rows = <<>> /\ running = None /\ nextPk = 1

\* The rows after the row `gone` left (None: no row) and a new one joined.
Insert(prio, n, gone) ==
    /\ nextPk \in Pk
    /\ rows' = [a \in (DOMAIN rows \ {gone}) \cup {nextPk} |->
                  IF a = nextPk THEN [priority |-> prio, position |-> n] ELSE rows[a]]
    /\ nextPk' = nextPk + 1

\* max_pos + 1: the running entry is open and counts, too.
EndOfQueue == 1 + Max({0} \cup {rows[a].position : a \in DOMAIN rows})

Enqueue(prio) == Insert(prio, EndOfQueue, None) /\ UNCHANGED running

StartNext(a) ==
    /\ running = None
    /\ IsNext(rows, waiting, a)
    /\ running' = a
    /\ UNCHANGED <<rows, nextPk>>

\* A waiting entry is removed; the running one is passed, given up or cancelled.
Leave(a) ==
    /\ rows' = Restrict(rows, DOMAIN rows \ {a})
    /\ running' = IF running = a THEN None ELSE running
    /\ UNCHANGED nextPk

RetryPosition(a) == 0

\* The running entry fails and is tried again.
FailWithRetry ==
    /\ running # None
    /\ Insert(rows[running].priority, RetryPosition(running), running)
    /\ running' = None

MoveTo(a, t) ==
    /\ UNCHANGED <<running, nextPk>>
    /\ a \in waiting
    /\ rows' = Moved(rows, waiting, a, ClampIndex(waiting, t))

\* PrintQueueMoveView: a direction, or a position counted from 1.
Move(a, direction) == MoveTo(a, DirectionTarget(rows, waiting, a, direction))

Directions == {"up", "down", "top", "bottom"}

Next ==
    \/ \E prio \in Priorities : Enqueue(prio)
    \/ \E a \in waiting : StartNext(a)
    \/ \E a \in DOMAIN rows : Leave(a)
    \/ FailWithRetry
    \/ \E a \in waiting, direction \in Directions : Move(a, direction)
    \/ \E a \in waiting, position \in 1..(MaxEntries + 1) : MoveTo(a, position - 1)

Spec == Init /\ [][Next]_vars

-----------------------------------------------------------------------------
(* Properties.                                                             *)

\* A move does to the execution order exactly what the list operations do,
\* although the order is sorted by priority first: the entry is printed at the
\* place it was dropped, and the others keep their order.
MoveFollowsTheList ==
    [][\A a \in waiting, t \in 0..MaxEntries :
          MoveTo(a, t) => OrderedWaiting' = PopInsert(OrderedWaiting, a, ClampIndex(waiting, t))]_vars

=============================================================================
