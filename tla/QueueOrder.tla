----------------------------- MODULE QueueOrder -----------------------------
(***************************************************************************)
(* The order in which a printer's waiting queue entries are printed, and   *)
(* the manual move of one entry (core/services/queue.py).                  *)
(*                                                                         *)
(* The operators work on a function q from row numbers (primary keys) to   *)
(* records with a priority and a position, and on the set W of the         *)
(* printer's waiting rows.  An index counts the entries ahead, from 0, as  *)
(* the list index of the code does.                                        *)
(***************************************************************************)
EXTENDS Integers, FiniteSets

\* QUEUE_EXECUTION_ORDER = ("-priority", "position", "added_at", "pk").
\* added_at and pk are both given at insertion, so pk decides the last two.
Precedes(q, a, b) ==
    \/ q[a].priority > q[b].priority
    \/ /\ q[a].priority = q[b].priority
       /\ \/ q[a].position < q[b].position
          \/ q[a].position = q[b].position /\ a < b

\* next_waiting_entry: the first waiting row of the printer.
IsNext(q, W, a) == a \in W /\ \A b \in W \ {a} : Precedes(q, a, b)

\* The list index of a in ordered_waiting_entries.
Index(q, W, a) == Cardinality({b \in W : Precedes(q, b, a)})

\* Where the entry at list index i ends up when the entry at index `from` is
\* popped and inserted again at index `to`.
IndexAfterMove(from, to, i) ==
    IF i = from THEN to
    ELSE IF from < i /\ i <= to THEN i - 1
    ELSE IF to <= i /\ i < from THEN i + 1
    ELSE i

\* target = max(0, min(target, last))
ClampIndex(W, t) ==
    IF t < 0 \/ W = {} THEN 0 ELSE IF t >= Cardinality(W) THEN Cardinality(W) - 1 ELSE t

\* The list index a direction button asks for (before clamping).
DirectionTarget(q, W, a, direction) ==
    CASE direction = "up"     -> Index(q, W, a) - 1
      [] direction = "down"   -> Index(q, W, a) + 1
      [] direction = "top"    -> 0
      [] direction = "bottom" -> Cardinality(W) - 1

\* Faults: the entry keeps its priority, or always takes its predecessor's.
KeptPriority(q, W, a, t) == q[a].priority

\* The priority the moved entry ends up with: lowered to that of the entry
\* that now precedes it, then raised to that of the entry that now follows.
AdoptedPriority(q, W, a, t) ==
    LET At(i)   == {b \in W \ {a} : IndexAfterMove(Index(q, W, a), t, Index(q, W, b)) = i}
        Lowered == {q[b].priority : b \in {c \in At(t - 1) : q[a].priority > q[c].priority}}
        first   == IF Lowered = {} THEN q[a].priority ELSE CHOOSE p \in Lowered : TRUE
        Raised  == {q[b].priority : b \in {c \in At(t + 1) : first < q[c].priority}}
    IN  IF Raised = {} THEN first ELSE CHOOSE p \in Raised : TRUE

\* move_queue_entry: the rows after entry a was moved to index t.  Every waiting
\* row is renumbered 1..n, only the moved one may change its priority.
Moved(q, W, a, t) ==
    [b \in DOMAIN q |->
        IF b \notin W THEN q[b]
        ELSE [q[b] EXCEPT
                !.position = 1 + IndexAfterMove(Index(q, W, a), t, Index(q, W, b)),
                !.priority = IF b = a THEN AdoptedPriority(q, W, a, t) ELSE @]]
=============================================================================
