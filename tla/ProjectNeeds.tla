---------------------------- MODULE ProjectNeeds ----------------------------
(***************************************************************************)
(* What the pages of projects say of the whole tree: how many copies of a  *)
(* part are needed and how far they are printed, the filament they take    *)
(* and the hardware to buy.                                                *)
(*                                                                         *)
(* Nothing of it is stored.  Every page walks down from its own project    *)
(* and multiplies the quantities of sub-projects on the way; the need of a *)
(* sub-project also counts the quantities above it.                        *)
(*                                                                         *)
(* Every project has one part, which has its estimate, and one assignment  *)
(* of hardware; filament is counted in what one copy takes.                *)
(***************************************************************************)
EXTENDS ProjectTree, FiniteSets, Functions

CONSTANTS
    PartQuantity,        \* copies of its part in one instance of a project
    PrintedQuantity,     \* copies printed of a part that has print history
    HardwareQuantity     \* pieces of hardware in one instance of a project

ASSUME QuantityAssumption ==
    /\ PartQuantity \in Nat \ {0} /\ PrintedQuantity \in Nat /\ HardwareQuantity \in Nat \ {0}
    /\ 0 \notin Quantities /\ IsFiniteSet(Projects)

-----------------------------------------------------------------------------
Ancestors(p) == {a \in Projects \ {p} : Exists(a) /\ p \in Subtree(a)}

\* The product of the quantities of sub-projects; that of a root does not count.
Product(S) == FoldFunctionOnSet(LAMBDA x, y : x * y, 1, [a \in S |-> node[a].quantity], {a \in S : Parent(a) # None})

\* Fault: the quantity of the project itself is left out.
MultiplierAbove(p) == Product(Ancestors(p))

\* How many instances of p the whole tree needs.
ChainMultiplier(p) == Product(Ancestors(p) \cup {p})

\* The number of instances of every project of the subtree in `multiplier` of p.
Walk(p, multiplier) ==
    LET Factor[q \in Subtree(p)] == IF q = p THEN multiplier ELSE Factor[Parent(q)] * node[q].quantity
    IN  Factor

CollectParts(p, multiplier) ==
    LET nodes == Walk(p, multiplier)
    IN  [q \in DOMAIN nodes |-> nodes[q] * PartQuantity]

Least(m, n) == IF m < n THEN m ELSE n

Remaining(row) == row.needed - Least(row.printed, row.needed)

BuildProgress(p) ==
    LET parts   == CollectParts(p, ChainMultiplier(p))
        rows    == [q \in DOMAIN parts |->
                      [needed |-> parts[q], printed |-> IF used[q] = "history" THEN PrintedQuantity ELSE 0]]
        needed  == SumFunction(parts)
        printed == SumFunction([q \in DOMAIN rows |-> Least(rows[q].printed, rows[q].needed)])
    IN  [needed |-> needed, printed |-> printed, percent |-> (printed * 100) \div needed, parts |-> rows]

AggregatedStatus(p) ==
    LET rows == BuildProgress(p).parts
    IN  IF \A q \in DOMAIN rows : Remaining(rows[q]) = 0   THEN "complete"
        ELSE IF \E q \in DOMAIN rows : rows[q].printed > 0 THEN "in_progress"
        ELSE "ready"

\* The parts that are needed, or the filament they take.
TotalPartsCount(p) == SumFunction(CollectParts(p, ChainMultiplier(p)))

FilamentRequirements(p) ==
    LET rows == BuildProgress(p).parts
    IN  [total     |-> SumFunction([q \in DOMAIN rows |-> rows[q].needed]),
         remaining |-> SumFunction([q \in DOMAIN rows |-> Remaining(rows[q])])]

\* Unlike parts and filament, the hardware of a sub-project is that of one instance.
CollectHardware(p) == Walk(p, 1)

HardwareRequirements(p) ==
    LET nodes == CollectHardware(p)
    IN  SumFunction([q \in DOMAIN nodes |-> nodes[q] * HardwareQuantity])

-----------------------------------------------------------------------------
(* However a tree was moved, edited and copied together, its pages agree:  *)
(* a part is needed as often on the page of its own project as on every    *)
(* page above (build_progress, "for the whole tree"), so that it is        *)
(* complete on all of them or on none; 100 % means that no part and no     *)
(* filament is left to print; and the hardware of a project is its own and *)
(* that of its sub-projects as often as it needs them.  (Stated while      *)
(* nothing is under way: requests may be abandoned and removals of files   *)
(* end, so that is every tree there can be.)                               *)
NeedsAgree ==
    doomed \cup scanned = {} /\ (\A r \in Requests : request[r].at = "idle") =>
    LET existing    == {p \in Projects : Exists(p)}
        children(p) == {c \in existing : Parent(c) = p}
    IN  \A p \in existing :
          LET page == BuildProgress(p) IN
          /\ \A q \in DOMAIN page.parts \ {p} : page.parts[q] = BuildProgress(q).parts[q]
          /\ AggregatedStatus(p) = "complete" <=> page.percent = 100
          /\ FilamentRequirements(p) =
               [total |-> TotalPartsCount(p), remaining |-> page.needed - page.printed]
          /\ HardwareRequirements(p) = HardwareQuantity
               + SumFunction([c \in children(p) |-> node[c].quantity * HardwareRequirements(c)])

=============================================================================
