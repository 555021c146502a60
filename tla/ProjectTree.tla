---------------------------- MODULE ProjectTree ----------------------------
(***************************************************************************)
(* The tree of projects and the files its rows refer to.                   *)
(*                                                                         *)
(* Web and API requests create, edit, move, copy and delete projects       *)
(* concurrently.  An edit loads the row, is validated, and later saves the *)
(* WHOLE row; a copy reads the subtree, duplicates its files and only then *)
(* inserts the new rows.  Every write transaction holds SQLite's write     *)
(* lock from its start (transaction_mode IMMEDIATE), so what it reads is   *)
(* current; what was read before it began may not be.                      *)
(*                                                                         *)
(* A file that a row no longer refers to is removed after the commit, by   *)
(* the same process if it lives that long, or by the clean-up command.     *)
(* One file per project stands for its image, documents and model files.   *)
(***************************************************************************)
EXTENDS Naturals

CONSTANTS
    Projects,     \* primary keys of projects
    Existing,     \* the projects there are at the start
    Quantities,   \* how often a sub-project is needed in its parent
    Presets,
    Files,        \* storage names
    Requests,     \* edits and copies that may be in progress at once
    None,
    StaleMoves,   \* TRUE: a PATCH without a parent may write back one that others have changed
    StaleFiles,   \* TRUE: an edit may write back the name of a file that others have replaced
    MaxEdits      \* bound on what users do

ASSUME ConstantsAssumption ==
    /\ Existing \subseteq Projects
    /\ 1 \in Quantities /\ Quantities \subseteq Nat
    /\ None \notin Projects \cup Presets \cup Files
    /\ StaleMoves \in BOOLEAN /\ StaleFiles \in BOOLEAN
    /\ MaxEdits \in Nat

Row == [parent: Projects \cup {None}, quantity: Quantities,
        preset: Presets \cup {None}, image: Files \cup {None}]

ASSUME NoneAssumption == None \notin Row

VARIABLES
    node,         \* node[p]: the row of project p, None if there is none
    presets,      \* the presets that exist
    used,         \* used[p]: are parts of p in an unfinished job, or do they have print history
    stored,       \* the files in the media storage
    old,          \* the files older than the minimum age of the clean-up command
    doomed,       \* files a request deletes once its transaction has committed
    scanned,      \* files the running clean-up command found without a reference
    request,      \* request[r]: the progress of request r
    edits

vars == <<node, presets, used, stored, old, doomed, scanned, request, edits>>

-----------------------------------------------------------------------------
(* Walks over the tree                                                     *)

Exists(p) == node[p] # None
Parent(p) == IF Exists(p) THEN node[p].parent ELSE None

ClosedBelow(S) == \A q \in Projects : Parent(q) \in S => q \in S

\* What the walk down by levels collects: p and everything below it.
Subtree(p) == {q \in Projects : \A S \in SUBSET Projects : p \in S /\ ClosedBelow(S) => q \in S}

\* The preset found first on the way up.
EffectivePreset(p) ==
    IF node[p].preset # None THEN node[p].preset
    ELSE LET Above   == {a \in Projects : a # p /\ Exists(a) /\ p \in Subtree(a) /\ node[a].preset # None}
             Nearest == {a \in Above : \A b \in Above : a \in Subtree(b)}
         IN  IF Nearest = {} THEN None ELSE node[CHOOSE a \in Nearest : TRUE].preset

Referenced(f) == \E p \in Projects : Exists(p) /\ node[p].image = f

\* Names the storage gives to a new file: none that exists, and (an assumption) none that
\* was removed while a second removal of it is under way.
FreshNames == Files \ (stored \cup scanned \cup doomed)

-----------------------------------------------------------------------------
Idle == [at |-> "idle", project |-> None, seen |-> None, hop |-> None,
         target |-> None, nodes |-> [p \in {} |-> None], files |-> [p \in {} |-> None]]

Init ==
    /\ \E parent \in [Existing -> Existing \cup {None}], q \in Quantities,
          s \in Presets, illustrated \in Existing \cup {None}, f \in Files :
          /\ \A S \in SUBSET Existing : S # {} => \E p \in S : parent[p] \notin S
          /\ node = [p \in Projects |->
                       IF p \in Existing
                       THEN [parent |-> parent[p],
                             quantity |-> IF parent[p] = None THEN 1 ELSE q,
                             preset |-> IF parent[p] = None THEN s ELSE None,
                             image |-> IF p = illustrated THEN f ELSE None]
                       ELSE None]
          /\ stored = IF illustrated = None THEN {} ELSE {f}
    /\ presets = Presets
    /\ used = [p \in Projects |-> "no"]
    /\ old = {} /\ doomed = {} /\ scanned = {}
    /\ request = [r \in Requests |-> Idle]
    /\ edits = 0

-----------------------------------------------------------------------------
(* Edits and moves                                                         *)

\* Fault: a project is only refused as its own parent.
IsAnother(p, q) == q # p

\* The check inside the write transaction: the new parent is not below the project.
IsOutside(p, q) == q \notin Subtree(p)

\* What a foreign key can refer to.
Referable(q, s) == (q # None => Exists(q)) /\ s \in presets \cup {None}

\* The rule of the forms and the serializer for top-level projects.
IsProper(q, s, n) == q = None => s # None /\ n = 1

\* The row is loaded, and with it the row of its parent.
LoadEdit(r, p) ==
    /\ request[r].at = "idle" /\ Exists(p) /\ edits < MaxEdits
    /\ request' = [request EXCEPT ![r] =
                     [Idle EXCEPT !.at = "loaded", !.project = p, !.seen = node[p],
                                  !.hop = IF Parent(p) = None THEN None ELSE Parent(Parent(p))]]
    /\ edits' = edits + 1
    /\ UNCHANGED <<node, presets, used, stored, old, doomed, scanned>>

\* The whole row is written, or inserted again if it was deleted meanwhile; a file it
\* no longer names is to be deleted after the commit.
Save(r, saved) ==
    LET p == request[r].project
    IN  /\ Referable(saved.parent, saved.preset)
        /\ node' = [node EXCEPT ![p] = saved]
        /\ stored' = stored \cup ({saved.image} \ {None, request[r].seen.image})
        /\ doomed' = IF Exists(p) /\ node[p].image # saved.image
                     THEN doomed \cup ({node[p].image} \ {None}) ELSE doomed
        /\ request' = [request EXCEPT ![r] = Idle]
        /\ UNCHANGED <<presets, used, old, scanned, edits>>

FileIsCurrent(r) ==
    LET p == request[r].project
    IN  StaleFiles \/ request[r].seen.image = IF Exists(p) THEN node[p].image ELSE None

ParentIsCurrent(r) ==
    LET p == request[r].project
    IN  StaleMoves \/ (Exists(p) /\ request[r].seen.parent = Parent(p))

\* The form of the web interface always names a parent and may carry a new file.
SaveForm(r) ==
    LET p == request[r].project IN
    /\ request[r].at = "loaded" /\ FileIsCurrent(r)
    /\ \E q \in Projects \cup {None}, n \in Quantities, s \in presets \cup {None},
          f \in FreshNames \cup {None, request[r].seen.image} :
          /\ q # None => IsOutside(p, q)
          /\ IsProper(q, s, n)
          /\ Save(r, [parent |-> q, quantity |-> n, preset |-> s, image |-> f])

\* PATCH with a parent in its body.
PatchParent(r) ==
    LET p == request[r].project IN
    /\ request[r].at = "loaded" /\ FileIsCurrent(r)
    /\ \E q \in Projects \cup {None}, n \in Quantities, s \in presets \cup {None} :
          /\ q # None => IsOutside(p, q)
          /\ IsProper(q, s, n)
          /\ Save(r, [request[r].seen EXCEPT !.parent = q, !.quantity = n, !.preset = s])

\* PATCH without a parent: only Project.save looks for a cycle, and it walks up from the
\* row of the parent as it was loaded.
PatchFields(r) ==
    LET p == request[r].project
        q == request[r].seen.parent IN
    /\ request[r].at = "loaded" /\ FileIsCurrent(r) /\ ParentIsCurrent(r)
    /\ q # None => q # p /\ (request[r].hop = None \/ IsOutside(p, request[r].hop))
    /\ \E n \in Quantities, s \in presets \cup {None} :
          /\ IsProper(q, s, n)
          /\ Save(r, [request[r].seen EXCEPT !.quantity = n, !.preset = s])

\* A project of its own or below an existing one, without a file or with a new one.
Create ==
    /\ edits < MaxEdits
    /\ \E p \in Projects, q \in Projects \cup {None}, n \in Quantities, s \in presets \cup {None},
          f \in FreshNames \cup {None} :
          /\ ~Exists(p) /\ Referable(q, s) /\ IsProper(q, s, n)
          /\ node' = [node EXCEPT ![p] = [parent |-> q, quantity |-> n, preset |-> s, image |-> f]]
          /\ stored' = stored \cup ({f} \ {None})
    /\ edits' = edits + 1
    /\ UNCHANGED <<presets, used, old, doomed, scanned, request>>

\* A preset is deleted: every reference to it becomes null.
DeletePreset(s) ==
    /\ s \in presets /\ edits < MaxEdits
    /\ presets' = presets \ {s}
    /\ node' = [p \in Projects |-> IF Exists(p) /\ node[p].preset = s
                                     THEN [node[p] EXCEPT !.preset = None] ELSE node[p]]
    /\ edits' = edits + 1
    /\ UNCHANGED <<used, stored, old, doomed, scanned, request>>

-----------------------------------------------------------------------------
(* Deletion, and what forbids it                                           *)

\* A part of the project joins a job or is printed, or its jobs are deleted.
UseParts(p) ==
    /\ Exists(p) /\ edits < MaxEdits
    /\ \/ used[p] = "no" /\ used' = [used EXCEPT ![p] = "job"]
       \/ used[p] = "job" /\ \E u \in {"no", "history"} : used' = [used EXCEPT ![p] = u]
       \/ used[p] = "history" /\ used' = [used EXCEPT ![p] = "no"]
    /\ edits' = edits + 1
    /\ UNCHANGED <<node, presets, stored, old, doomed, scanned, request>>

\* Copies printed elsewhere are booked by hand, which is print history, too.
BookPrinted(p) ==
    /\ Exists(p) /\ used[p] # "history" /\ edits < MaxEdits
    /\ used' = [used EXCEPT ![p] = "history"]
    /\ edits' = edits + 1
    /\ UNCHANGED <<node, presets, stored, old, doomed, scanned, request>>

\* The last booking is removed; the part may be in a job.
RemoveBooking(p) ==
    /\ used[p] = "history" /\ edits < MaxEdits
    /\ \E u \in {"no", "job"} : used' = [used EXCEPT ![p] = u]
    /\ edits' = edits + 1
    /\ UNCHANGED <<node, presets, stored, old, doomed, scanned, request>>

\* Fault: only the project's own parts are looked at.
IsUnused(p) == used[p] = "no"

\* Parts of the subtree that have print history, and those in an unfinished job.
HistoryBlocks(p) == \E q \in Subtree(p) : used[q] = "history"
JobsBlock(p)     == \E q \in Subtree(p) : used[q] = "job"

IsRemovable(p) == ~HistoryBlocks(p) /\ ~JobsBlock(p)

\* The rows of the subtree go with the project, their files after the commit.
Delete(p) ==
    /\ Exists(p) /\ edits < MaxEdits /\ IsRemovable(p)
    /\ node' = [q \in Projects |-> IF q \in Subtree(p) THEN None ELSE node[q]]
    /\ used' = [q \in Projects |-> IF q \in Subtree(p) THEN "no" ELSE used[q]]
    /\ doomed' = doomed \cup ({node[q].image : q \in {x \in Subtree(p) : Exists(x)}} \ {None})
    /\ edits' = edits + 1
    /\ UNCHANGED <<presets, stored, old, scanned, request>>

-----------------------------------------------------------------------------
(* Copies                                                                  *)

\* Fault: the top of a copy keeps the preset of its own, inherited or not.
OwnPreset(p, q) == node[p].preset

\* A new top-level project gets the effective preset, as roots must have one.
TopPreset(p, q) == IF q = None THEN EffectivePreset(p) ELSE node[p].preset

\* The subtree is read, and the preset of its top determined.
BeginCopy(r, p, q) ==
    /\ request[r].at = "idle" /\ Exists(p) /\ edits < MaxEdits
    /\ q # None => Exists(q) /\ IsOutside(p, q)
    /\ LET top == [node[p] EXCEPT !.parent = q, !.preset = TopPreset(p, q),
                                  !.quantity = IF q = None THEN 1 ELSE @]
       IN  request' = [request EXCEPT ![r] =
                         [Idle EXCEPT !.at = "copying", !.project = p, !.target = q,
                                      !.nodes = [x \in Subtree(p) |-> IF x = p THEN top ELSE node[x]]]]
    /\ edits' = edits + 1
    /\ UNCHANGED <<node, presets, used, stored, old, doomed, scanned>>

\* The copy page offers every project outside the subtree, or none, as the target.
CopyProject(r, p, q) == BeginCopy(r, p, q)

\* The page of project q offers everything but its own subtree and what is above it.
AddExistingSubproject(r, p, q) ==
    /\ BeginCopy(r, p, q)
    /\ q # None /\ p \notin Subtree(q)

\* Every file of the subtree is duplicated, outside any transaction; one that is missing
\* by now is left out.
CopyFiles(r) ==
    LET nodes == request[r].nodes
        found == {x \in DOMAIN nodes : nodes[x].image \in stored} IN
    /\ request[r].at = "copying"
    /\ \E name \in [found -> FreshNames] :
          /\ \A x, y \in found : name[x] = name[y] => x = y
          /\ stored' = stored \cup {name[x] : x \in found}
          /\ request' = [request EXCEPT ![r] =
                           [Idle EXCEPT !.at = "copied", !.project = request[r].project,
                              !.target = request[r].target, !.nodes = nodes,
                              !.files = [x \in DOMAIN nodes |-> IF x \in found THEN name[x] ELSE None]]]
    /\ UNCHANGED <<node, presets, used, old, doomed, scanned, edits>>

Copies(r) == {request[r].files[x] : x \in DOMAIN request[r].files} \ {None}

\* The copies of `nodes` get new keys; the top one goes below q.
InsertRows(nodes, p, q, files) ==
    \E id \in [DOMAIN nodes -> {x \in Projects : ~Exists(x)}] :
       /\ \A x, y \in DOMAIN nodes : id[x] = id[y] => x = y
       /\ node' = [y \in Projects |->
                     IF \E x \in DOMAIN nodes : id[x] = y
                     THEN LET x == CHOOSE z \in DOMAIN nodes : id[z] = y
                          IN  [nodes[x] EXCEPT !.parent = IF x = p THEN q ELSE id[@], !.image = files[x]]
                     ELSE node[y]]

\* The rows are inserted in one transaction, after a second look at the tree.
InsertCopy(r) ==
    LET nodes == request[r].nodes
        p == request[r].project
        q == request[r].target IN
    /\ request[r].at = "copied"
    /\ q # None => Exists(q) /\ IsOutside(p, q)
    /\ \A x \in DOMAIN nodes : nodes[x].preset \in presets \cup {None}
    /\ InsertRows(nodes, p, q, request[r].files)
    /\ request' = [request EXCEPT ![r] = Idle]
    /\ UNCHANGED <<presets, used, stored, old, doomed, scanned, edits>>

\* The copy fails, and the files written so far are deleted.
FailCopy(r) ==
    /\ request[r].at = "copied"
    /\ stored' = stored \ Copies(r)
    /\ request' = [request EXCEPT ![r] = Idle]
    /\ UNCHANGED <<node, presets, used, old, doomed, scanned, edits>>

\* A validation refuses the request, or its process is killed: copied files stay.
Abandon(r) ==
    /\ request[r].at # "idle"
    /\ request' = [request EXCEPT ![r] = Idle]
    /\ UNCHANGED <<node, presets, used, stored, old, doomed, scanned, edits>>

-----------------------------------------------------------------------------
(* Removal of files                                                        *)

\* After a commit, or never if the process is killed first.
DeleteDoomed(f) ==
    /\ f \in doomed
    /\ doomed' = doomed \ {f}
    /\ \/ stored' = IF Referenced(f) THEN stored ELSE stored \ {f}
       \/ UNCHANGED stored
    /\ old' = old \cap stored'
    /\ UNCHANGED <<node, presets, used, scanned, request, edits>>

\* The minimum age is longer than any copy takes.
Age(f) ==
    /\ f \in stored \ old
    /\ \A r \in Requests : f \notin Copies(r)
    /\ old' = old \cup {f}
    /\ UNCHANGED <<node, presets, used, stored, doomed, scanned, request, edits>>

\* Fault: the age of a file does not matter.
Unreferenced == {f \in stored : ~Referenced(f)}

Orphans == {f \in old : ~Referenced(f)}

\* cleanup_orphan_media lists the orphans; with no reference at all it refuses to go on.
Scan ==
    /\ scanned = {} /\ Orphans # {}
    /\ \E f \in Files : Referenced(f)
    /\ scanned' = Orphans
    /\ UNCHANGED <<node, presets, used, stored, old, doomed, request, edits>>

\* It looks again before it deletes each of them.
CleanUp(f) ==
    /\ f \in scanned
    /\ scanned' = scanned \ {f}
    /\ stored' = IF Referenced(f) THEN stored ELSE stored \ {f}
    /\ old' = old \cap stored'
    /\ UNCHANGED <<node, presets, used, doomed, request, edits>>

-----------------------------------------------------------------------------
Next ==
    \/ \E r \in Requests, p \in Projects : LoadEdit(r, p)
    \/ \E r \in Requests, p \in Projects, q \in Projects \cup {None} :
          CopyProject(r, p, q) \/ AddExistingSubproject(r, p, q)
    \/ \E r \in Requests : SaveForm(r) \/ PatchParent(r) \/ PatchFields(r) \/ CopyFiles(r)
                           \/ InsertCopy(r) \/ FailCopy(r) \/ Abandon(r)
    \/ Create \/ Scan
    \/ \E p \in Projects : UseParts(p) \/ BookPrinted(p) \/ RemoveBooking(p) \/ Delete(p)
    \/ \E s \in Presets : DeletePreset(s)
    \/ \E f \in Files : DeleteDoomed(f) \/ Age(f) \/ CleanUp(f)

Spec == Init /\ [][Next]_vars

-----------------------------------------------------------------------------
TypeOK ==
    /\ node \in [Projects -> Row \cup {None}]
    /\ presets \subseteq Presets
    /\ used \in [Projects -> {"no", "job", "history"}]
    /\ old \subseteq stored /\ stored \subseteq Files
    /\ doomed \subseteq Files /\ scanned \subseteq Files
    /\ \A r \in Requests :
          /\ request[r].at \in {"idle", "loaded", "copying", "copied"}
          /\ request[r].seen \in Row \cup {None}
          /\ \A x \in DOMAIN request[r].nodes : request[r].nodes[x] \in Row
    /\ edits \in 0..MaxEdits

(* Projects form a forest: every group of projects has a member whose      *)
(* parent is not in the group, so no project is above itself.              *)
(* ProjectViewSet.perform_update and ProjectUpdateView.form_valid promise  *)
(* it in the face of concurrent moves; the walks over the tree rely on it. *)
Forest == \A S \in SUBSET Projects : S # {} => \E p \in S : Parent(p) \notin S

(* A top-level project is needed once and, as long as no preset was        *)
(* deleted, has a preset its parts can inherit, however it came to be at   *)
(* the top (ProjectEditForm.clean, ProjectSerializer.validate, deep_copy). *)
RootsAreProper ==
    \A p \in Projects :
        Exists(p) /\ Parent(p) = None
        => node[p].quantity = 1 /\ (node[p].preset # None \/ presets # Presets)

(* A project whose parts have print history is not deleted, also when it   *)
(* was just moved below a project that is: the history goes first, with    *)
(* its jobs and bookings (Project.history_blocking_parts).                 *)
HistoryIsKept ==
    [][\A p \in Projects : used[p] = "history" => node'[p] # None]_vars

(* The file a row refers to is in the storage: neither the removal after a *)
(* commit nor the clean-up command takes a file that is, or will be, used. *)
ReferencedFilesExist == \A p \in Projects : Exists(p) /\ node[p].image # None => node[p].image \in stored

=============================================================================
