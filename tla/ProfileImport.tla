--------------------------- MODULE ProfileImport ---------------------------
(***************************************************************************)
(* The import of OrcaSlicer profiles and the resolution of their           *)
(* inheritance (core/services/profile_import.py), and what is sent to the  *)
(* slicer (core/services/slicing.py).  Machine, filament and process       *)
(* profiles have a table each and go through the same generic functions;   *)
(* a file may leave its type out.                                          *)
(*                                                                         *)
(* A file names its parent, and may state a former name of its own.  A     *)
(* profile whose parent is missing waits as pending and is resolved when   *)
(* the parent has been imported, with the profiles that wait for it in     *)
(* turn.  An import is a sequence of separate queries and whole-row saves  *)
(* of rows read earlier, and no transaction spans them, so the imports of  *)
(* two web processes interleave, and one that fails leaves the rest undone.*)
(*                                                                         *)
(* The settings of a profile are stored laid over those of its parent, but *)
(* the slicer is sent the files themselves, laid over each other along the *)
(* chain of parents as it is then.  Uploads are numbered, and stored       *)
(* settings are the sequence of the uploads they were made of, the base    *)
(* first; what a file says of one setting is told apart only where it is   *)
(* asked what becomes of it (Stored, Sent).                                *)
(***************************************************************************)
EXTENDS Integers, Sequences, FiniteSets

CONSTANTS
    Kinds,          \* the types of profiles
    Names,          \* orca_name of the profiles of one user
    FormerNames,    \* those of them that files state as their former name
    Rank,           \* name -> its place in the order of the names shown
    TypeOf,         \* the type a file of that name states, NoValue if it states none
    NoValue,        \* no value
    Importers,      \* web processes that import
    MaxUploads,     \* bound on the number of uploads
    MaxFaults,      \* bound on the number of failures
    MaxChain,       \* bound on the number of files a rebuild collects
    Overlapping     \* TRUE: an import may begin before another one is through

ParentNames == Names \cup {NoValue}

(* A row of a profile table.  "former" is renamed_from, "own" uploaded_json.*)
Profile == [kind : Kinds, name : Names, inherits : ParentNames, former : ParentNames,
            own : 1 .. MaxUploads, state : {"pending", "resolved"}, settings : Seq(1 .. MaxUploads)]

ASSUME NamesAssumption ==
    /\ {"machine", "filament", "process"} \subseteq Kinds
    /\ NoValue \notin Names \cup Profile
    /\ FormerNames \subseteq Names
    /\ \A n \in Names : TypeOf[n] \in Kinds \cup {NoValue} /\ Rank[n] \in Nat
    /\ \A m, n \in Names : Rank[m] = Rank[n] => m = n
    /\ MaxUploads \in Nat /\ MaxFaults \in Nat /\ MaxChain \in Nat /\ Overlapping \in BOOLEAN

VARIABLES
    table,      \* kind -> name -> row, NoValue if there is no such profile
    importer,   \* process -> what it is doing
    slicer,     \* what a slicing puts together
    uploads,    \* number of uploads so far
    faults,     \* number of failures so far
    replaced,   \* history: a profile was imported again or deleted, or one took another's
                \* place as a parent
    neglected   \* history: profiles whose import or resolution failed, or which got another
                \* parent, and the parents whose children were not looked up for a failure

tableVars == << table, importer, uploads, replaced, neglected >>
importVars == << tableVars, slicer, faults >>

(* "self" is the row in memory, "layers" the settings of its parent,       *)
(* "todo" the rows still to be resolved below a parent, each with the      *)
(* settings of that parent, and "parents" the rows whose waiting children  *)
(* have still to be looked up.                                             *)
IdleImporter == [step |-> "idle", self |-> NoValue, layers |-> << >>, todo |-> {}, parents |-> {}]

Work == [child : Profile, layers : Seq(1 .. MaxUploads)]

(* "leaf" is the profile to be sent, "current" the one the climb is at,    *)
(* "visited" the names met, and "chain" the files collected, the base      *)
(* first.                                                                  *)
IdleSlicer == [step |-> "idle", leaf |-> NoValue, current |-> NoValue, visited |-> {}, chain |-> << >>]

Slicings == [step : {"idle", "climbing", "done"}, leaf : Profile \cup {NoValue},
             current : Profile \cup {NoValue}, visited : SUBSET Names, chain : Seq(1 .. MaxUploads)]

ImportTypeOK ==
    /\ table \in [Kinds -> [Names -> Profile \cup {NoValue}]]
    /\ uploads \in 0 .. MaxUploads /\ faults \in 0 .. MaxFaults
    /\ replaced \in BOOLEAN /\ neglected \subseteq Kinds \X Names
    /\ \A i \in Importers :
         /\ importer[i].step \in {"idle", "finding", "resolving", "giving up", "children"}
         /\ importer[i].self \in Profile \cup {NoValue}
         /\ importer[i].layers \in Seq(1 .. MaxUploads)
         /\ importer[i].todo \subseteq Work
         /\ importer[i].parents \subseteq Profile
    /\ slicer.step \in {"idle", "climbing", "done"}
    /\ slicer.leaf \in Profile \cup {NoValue} /\ slicer.current \in Profile \cup {NoValue}
    /\ slicer.visited \subseteq Names /\ slicer.chain \in Seq(1 .. MaxUploads)

ImportInit ==
    /\ table = [k \in Kinds |-> [n \in Names |-> NoValue]]
    /\ importer = [i \in Importers |-> IdleImporter]
    /\ slicer = IdleSlicer
    /\ uploads = 0 /\ faults = 0
    /\ replaced = FALSE /\ neglected = {}

-----------------------------------------------------------------------------
RowsOf(k) == {table[k][n] : n \in Names} \ {NoValue}
Rows == UNION {RowsOf(k) : k \in Kinds}
Key(r) == << r.kind, r.name >>
Goes(i, s) == importer' = [importer EXCEPT ![i] = s]
SaveRow(row) == table' = [table EXCEPT ![row.kind][row.name] = row]
Others(i) == \A j \in Importers \ {i} : importer[j].step = "idle"
AllIdle == \A i \in Importers : importer[i].step = "idle"

(* _find_parent_by_name: in the table of the same type, by its present     *)
(* name; if there is none, the first in the order of the names shown of    *)
(* those that state it as their former one.                                *)
FindParent(kind, inherits) ==
    LET exact  == {r \in RowsOf(kind) : r.name = inherits}
        former == {r \in RowsOf(kind) : inherits # NoValue /\ r.former = inherits}
    IN  IF exact # {} THEN exact
        ELSE {r \in former : \A s \in former : Rank[r.name] <= Rank[s.name]}

(* History: another profile than before is found for a name.               *)
ParentChanges(kind) ==
    \E x \in Names : FindParent(kind, x) # {} /\ FindParent(kind, x)' # FindParent(kind, x)

(* History: profiles that wait, and which profile n leaves to another one, *)
(* as it is deleted or renamed.                                            *)
LeftToAnother(kind, n) ==
    {Key(r) : r \in {r \in RowsOf(kind) :
        /\ r.name # n /\ r.state = "pending"
        /\ \E p \in FindParent(kind, r.inherits)' : p.name # n /\ p \notin FindParent(kind, r.inherits)}}

(* A file is refused where another type is expected than the one it states.*)
IsOfType(n, kind) == TypeOf[n] \in {kind, NoValue}

(* update_or_create, which keeps the state and the settings of a profile   *)
(* that exists.                                                            *)
Upload(i, kind, n, inherits, former) ==
    /\ importer[i].step = "idle" /\ IsOfType(n, kind)
    /\ Overlapping \/ Others(i)
    /\ uploads < MaxUploads
    /\ uploads' = uploads + 1
    /\ LET old == table[kind][n]
           row == IF old = NoValue
                  THEN [kind |-> kind, name |-> n, inherits |-> inherits, former |-> former,
                        own |-> uploads', state |-> "pending", settings |-> << >>]
                  ELSE [old EXCEPT !.inherits = inherits, !.former = former, !.own = uploads']
       IN  SaveRow(row) /\ Goes(i, [IdleImporter EXCEPT !.step = "finding", !.self = row])
    /\ replaced' = (replaced \/ table[kind][n] # NoValue \/ ParentChanges(kind))
    /\ neglected' = (neglected \ {<< kind, n >>}) \cup LeftToAnother(kind, n)
    /\ UNCHANGED << slicer, faults >>

(* The three pages for an import. *)
ImportMachineProfile(i, n, inherits, former) == Upload(i, "machine", n, inherits, former)
ImportFilamentProfile(i, n, inherits, former) == Upload(i, "filament", n, inherits, former)
ImportProcessProfile(i, n, inherits, former) == Upload(i, "process", n, inherits, former)

(* _try_resolve_generic up to its decision: a base profile needs nothing,  *)
(* any other one a parent that is resolved.                                *)
Decide(i) ==
    LET self == importer[i].self
        parent == FindParent(self.kind, self.inherits)
        ready == {p \in parent : p.state = "resolved"}
    IN
    /\ importer[i].step = "finding"
    /\ \/ /\ self.inherits = NoValue
          /\ Goes(i, [importer[i] EXCEPT !.step = "resolving", !.layers = << >>])
       \/ /\ self.inherits # NoValue
          /\ \E p \in ready :
               Goes(i, [importer[i] EXCEPT !.step = "resolving", !.layers = p.settings])
       \/ /\ self.inherits # NoValue
          /\ ready = {}
          /\ Goes(i, [importer[i] EXCEPT !.step = "giving up"])
    /\ UNCHANGED << table, slicer, uploads, faults, replaced, neglected >>

(* The profile is saved as pending; the import is over. *)
SavePending(i) ==
    /\ importer[i].step = "giving up"
    /\ SaveRow([importer[i].self EXCEPT !.state = "pending"])
    /\ Goes(i, IdleImporter)
    /\ UNCHANGED << slicer, uploads, faults, replaced, neglected >>

(* _merge_with_parent_generic and _resolve_profile_generic: the file laid  *)
(* over the settings of the parent; the whole row in memory is saved.      *)
Resolved(row, layers) ==
    [row EXCEPT !.state = "resolved", !.settings = Append(layers, row.own)]

SaveResolved(i) ==
    /\ importer[i].step = "resolving"
    /\ LET row == Resolved(importer[i].self, importer[i].layers) IN
       /\ SaveRow(row)
       /\ Goes(i, [IdleImporter EXCEPT !.step = "children", !.parents = {row}])
    /\ UNCHANGED << slicer, uploads, faults, replaced, neglected >>

\* Fault: profiles that name the parent by its former name are forgotten.
ByPresentName(parent) ==
    {r \in RowsOf(parent.kind) : r.inherits = parent.name /\ r.state = "pending"}

(* The pending profiles that inherit from a parent just resolved. *)
WaitingChildren(parent) ==
    {r \in RowsOf(parent.kind) :
        /\ r.inherits \in {parent.name, parent.former} \ {NoValue}
        /\ r.state = "pending"}

(* _auto_resolve_children_generic: its query.  It does not ask which parent*)
(* would be found for the child.                                           *)
FindChildren(i, parent) ==
    /\ importer[i].step = "children"
    /\ parent \in importer[i].parents
    /\ Goes(i, [importer[i] EXCEPT
         !.parents = @ \ {parent},
         !.todo = @ \cup {[child |-> r, layers |-> parent.settings] : r \in WaitingChildren(parent)}])
    /\ replaced' = (replaced \/ \E r \in WaitingChildren(parent) : FindParent(r.kind, r.inherits) # {parent})
    /\ neglected' = neglected \ {Key(parent)}
    /\ UNCHANGED << table, slicer, uploads, faults >>

(* One turn of its loop: the child as read by the query is resolved and    *)
(* saved; then its own children are looked up.                             *)
ResolveChild(i, work) ==
    /\ importer[i].step = "children"
    /\ importer[i].parents = {}
    /\ work \in importer[i].todo
    /\ LET row == Resolved(work.child, work.layers) IN
       /\ SaveRow(row)
       /\ Goes(i, [importer[i] EXCEPT !.todo = @ \ {work}, !.parents = {row}])
    /\ UNCHANGED << slicer, uploads, faults, replaced, neglected >>

EndImport(i) ==
    /\ importer[i].step = "children"
    /\ importer[i].parents = {} /\ importer[i].todo = {}
    /\ Goes(i, IdleImporter)
    /\ UNCHANGED << table, slicer, uploads, faults, replaced, neglected >>

(* A turn of the loop fails before the child is saved: this is logged, and *)
(* the loop goes on.                                                       *)
ResolveFails(i, work) ==
    /\ importer[i].step = "children"
    /\ importer[i].parents = {}
    /\ work \in importer[i].todo
    /\ faults < MaxFaults /\ faults' = faults + 1
    /\ Goes(i, [importer[i] EXCEPT !.todo = @ \ {work}])
    /\ neglected' = neglected \cup {Key(work.child)}
    /\ UNCHANGED << table, slicer, uploads, replaced >>

(* ... or after it, as its own children are looked up.                     *)
LookupFails(i, parent) ==
    /\ importer[i].step = "children"
    /\ parent \in importer[i].parents
    /\ faults < MaxFaults /\ faults' = faults + 1
    /\ Goes(i, [importer[i] EXCEPT !.parents = @ \ {parent}])
    /\ neglected' = neglected \cup {Key(parent)}
    /\ UNCHANGED << table, slicer, uploads, replaced >>

(* An error that the loop does not catch, or the end of the process: what  *)
(* the import has still to do is in its memory alone.                      *)
Break(i) ==
    /\ importer[i].step # "idle"
    /\ faults < MaxFaults /\ faults' = faults + 1
    /\ Goes(i, IdleImporter)
    /\ neglected' = neglected \cup
         (IF importer[i].step = "children"
          THEN {Key(p) : p \in importer[i].parents} \cup {Key(w.child) : w \in importer[i].todo}
          ELSE {Key(importer[i].self)})
    /\ UNCHANGED << table, slicer, uploads, replaced >>

(* The delete views: nothing refers to a profile by its key here, so that  *)
(* one which others inherit from goes as well.  (Not while an import runs: *)
(* a save of a row deleted meanwhile is not modelled.)                     *)
Delete(kind, n) ==
    /\ table[kind][n] # NoValue /\ AllIdle
    /\ table' = [table EXCEPT ![kind][n] = NoValue]
    /\ replaced' = TRUE
    /\ neglected' = neglected \cup LeftToAnother(kind, n)
    /\ UNCHANGED << importer, slicer, uploads, faults >>

-----------------------------------------------------------------------------
(* _build_slicer_kwargs and to_orca_json, for one of the three profiles of *)
(* a slicing: one that is missing or pending is left out, and the slicer   *)
(* falls back to defaults of its own.  A base profile, and one that names  *)
(* itself as its parent, is sent as it is.                                 *)
StartRebuild(kind, n) ==
    LET row == table[kind][n] IN
    /\ slicer.step = "idle"
    /\ row # NoValue /\ row.state = "resolved"
    /\ slicer' = [step |-> IF row.inherits \in {NoValue, n} THEN "done" ELSE "climbing",
                  leaf |-> row, current |-> row, visited |-> {n}, chain |-> << row.own >>]
    /\ UNCHANGED << tableVars, faults >>

(* _rebuild_full_json_generic: a turn of its loop, with a query of its own.*)
NextUp == {p \in FindParent(slicer.current.kind, slicer.current.inherits) :
             /\ p.state = "resolved"
             /\ slicer.current.inherits \notin {NoValue} \cup slicer.visited}

Climb ==
    /\ slicer.step = "climbing"
    /\ \E p \in NextUp :
         /\ Len(slicer.chain) < MaxChain
         /\ slicer' = [slicer EXCEPT !.current = p, !.visited = @ \cup {p.name}, !.chain = << p.own >> \o @]
    /\ UNCHANGED << tableVars, faults >>

(* The loop ends at a base profile, at a name seen before, and at a parent *)
(* that is missing or not resolved; the files collected are merged.        *)
EndRebuild ==
    /\ slicer.step = "climbing"
    /\ NextUp = {}
    /\ slicer' = [slicer EXCEPT !.step = "done"]
    /\ UNCHANGED << tableVars, faults >>

(* The slicer is called. *)
CallSlicer ==
    /\ slicer.step = "done"
    /\ slicer' = IdleSlicer
    /\ UNCHANGED << tableVars, faults >>

ImportStep(i) ==
    \/ Decide(i) \/ SavePending(i) \/ SaveResolved(i) \/ EndImport(i) \/ Break(i)
    \/ \E parent \in importer[i].parents : FindChildren(i, parent) \/ LookupFails(i, parent)
    \/ \E work \in importer[i].todo : ResolveChild(i, work) \/ ResolveFails(i, work)

SlicerStep ==
    \/ \E kind \in Kinds, n \in Names : StartRebuild(kind, n)
    \/ Climb \/ EndRebuild \/ CallSlicer

ImportNext ==
    \/ \E i \in Importers, n \in Names, inherits \in ParentNames, former \in FormerNames \cup {NoValue} :
         \/ ImportMachineProfile(i, n, inherits, former)
         \/ ImportFilamentProfile(i, n, inherits, former)
         \/ ImportProcessProfile(i, n, inherits, former)
    \/ \E i \in Importers : ImportStep(i)
    \/ \E kind \in Kinds, n \in Names : Delete(kind, n)
    \/ SlicerStep

ImportSpec == ImportInit /\ [][ImportNext]_importVars

-----------------------------------------------------------------------------
(* How a file gives a setting: as a value of the type that is expected, as *)
(* an empty text or list, as one that cannot be parsed (or null), or not   *)
(* at all.  (A setting the importer has no type for is always "plain".)    *)
Setting == [1 .. MaxUploads -> {"plain", "empty", "unreadable", "absent"}]

\* Fault: a value that cannot be parsed leaves that of the parent.
OrBelow(s) == [file \in 1 .. MaxUploads |-> [below \in 0 .. MaxUploads |->
    IF s[file] \in {"plain", "empty"} THEN file ELSE below]]

(* The file whose value is stored with a profile, 0 if none is, when it is *)
(* laid over a parent that has that of file "below".  What the profile's   *)
(* own file gives is parsed, and dropped if that fails; what it does not   *)
(* give comes from the parent, unless it is empty there                    *)
(* (_get_resolved_settings_generic, _merge_with_parent_generic and         *)
(* _parse_value).                                                          *)
Laid(s) == [file \in 1 .. MaxUploads |-> [below \in 0 .. MaxUploads |->
    CASE s[file] \in {"plain", "empty"} -> file
      [] s[file] = "unreadable" -> 0
      [] s[file] = "absent" -> IF below # 0 /\ s[below] = "empty" THEN 0 ELSE below]]

(* The same in the merge of the files for the slicer, where the later one  *)
(* overrides, whatever it gives.                                           *)
Overridden(s) == [file \in 1 .. MaxUploads |-> [below \in 0 .. MaxUploads |->
    IF s[file] = "absent" THEN below ELSE file]]

(* The files laid over each other, one after the other. *)
Upon(lay, files) ==
    LET upTo[n \in 0 .. Len(files)] == IF n = 0 THEN 0 ELSE lay[files[n]][upTo[n - 1]]
    IN  upTo[Len(files)]

Stored(s, files) == Upon(Laid(s), files)
Sent(s, files) == Upon(Overridden(s), files)

(* Safety. *)

(* Between imports, a profile waits only for a parent that is missing or   *)
(* waits itself: step 3 of the workflow in OrcaProfileBase, "When the      *)
(* parent is uploaded and resolved, pending children are automatically     *)
(* resolved".  Otherwise it could not be used until it is uploaded again,  *)
(* which is so if its import or its parent's failed, or if the parent it   *)
(* waited for has left it to another one.                                  *)
PendingHasAReason ==
    AllIdle =>
        \A r \in Rows : r.state = "pending" =>
            \A p \in FindParent(r.kind, r.inherits) :
                p.state = "pending" \/ neglected \cap {Key(r), Key(p)} # {}

(* Whatever the order in which the files are imported, and while imports   *)
(* go on: what the slicer is sent of each setting is what is stored and    *)
(* shown with the profile, and where nothing is stored, it is sent nothing *)
(* either or what could not be stored, an empty or unreadable value.  This *)
(* is so until a profile is imported again or deleted, or one takes the    *)
(* place of another as a parent.                                           *)
ShownIsSent ==
    slicer.step = "done" /\ ~ replaced =>
        \A s \in Setting :
            LET shown == Stored(s, slicer.leaf.settings)
                sent == Sent(s, slicer.chain)
            IN  \/ shown = sent
                \/ shown = 0 /\ s[sent] \in {"empty", "unreadable"}

=============================================================================
