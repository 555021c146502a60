--------------------------- MODULE PartEstimates ---------------------------
(***************************************************************************)
(* The background estimate of a part: what one copy of it needs in         *)
(* filament and time, sliced with the part's effective print preset.       *)
(*                                                                         *)
(* Three kinds of actors write the row of a part.  Web and API requests    *)
(* read a row, save the WHOLE row (Django's Model.save) and then, in a     *)
(* second write, clear the estimate or queue a new one.  The OrcaSlicer    *)
(* worker (one at a time, see SlicingWorker) claims a pending part, reads  *)
(* it, slices it and stores the result only if the part is still           *)
(* "estimating".  A process that starts puts every part left "estimating"  *)
(* back to "pending".                                                      *)
(***************************************************************************)
EXTENDS Naturals, FiniteSets

CONSTANTS
    Parts,        \* primary keys of parts
    Projects,
    Presets,      \* print presets
    Models,       \* contents of model files
    Requests,     \* web and API requests that may be in progress at once
    None,
    StaleReads,   \* TRUE: a request may write back a row others have changed
    MaxEdits,     \* bound on requests of users
    MaxRestarts   \* bound on starts of processes

ASSUME ConstantsAssumption ==
    /\ Parts \subseteq Nat
    /\ None \notin Presets \cup Models \cup Projects \cup Parts
    /\ StaleReads \in BOOLEAN
    /\ MaxEdits \in Nat /\ MaxRestarts \in Nat

VARIABLES
    row,          \* row[x]: the row of part x, None if there is none
    default,      \* default[j]: the preset parts of project j inherit
    presets,      \* the presets that exist
    machine,      \* there is a resolved machine profile that can be used
    worker,       \* the estimate the worker is busy with
    unsupported,  \* parts the worker left alone for want of a machine profile
    request,      \* request[r]: the progress of request r
    starting,     \* a process has started and has not yet run its recovery
    edits, restarts

vars == <<row, default, presets, machine, worker, unsupported, request, starting, edits, restarts>>

-----------------------------------------------------------------------------
(* Rows, estimates and requests                                            *)

Statuses == {"none", "pending", "estimating", "success", "error"}

\* `made` is what the stored amounts were computed from: a pair <<model, preset>>.
Row == [project: Projects, preset: Presets \cup {None}, model: Models \cup {None},
        status: Statuses, made: (Models \X Presets) \cup {None}, with: Presets \cup {None}]

ASSUME NoneAssumption == None \notin Row \cup (Models \X Presets)

\* `seen` is the row as the request has it in memory, `projects` the subtree it has changed,
\* `todo` the parts it has still to queue.
Request == [at: {"idle", "loaded", "edited", "moved", "copied", "retreed", "listed"},
            part: Parts \cup {None}, seen: Row \cup {None}, projects: SUBSET Projects,
            todo: SUBSET Parts]

Idle == [at |-> "idle", part |-> None, seen |-> None, projects |-> {}, todo |-> {}]
NoWork == [at |-> "free", part |-> None, model |-> None, preset |-> None]

Exists(x) == row[x] # None
Effective(p) == IF p.preset # None THEN p.preset ELSE default[p.project]
IsEstimable(p) == p.model # None /\ Effective(p) # None

Cleared(p, queued) ==
    [p EXCEPT !.status = IF queued THEN "pending" ELSE "none", !.made = None, !.with = None]

\* A part that kept its estimate at a move is estimated again only for another preset.
Requeued(p, known) ==
    IF p.model = None \/ Effective(known) = known.with
    THEN p
    ELSE Cleared(p, Effective(known) # None)

Init ==
    /\ \E j \in Projects, m \in Models :
          row = [y \in Parts |-> IF \A z \in Parts : y <= z
                   THEN [project |-> j, preset |-> None, model |-> m, status |-> "pending",
                         made |-> None, with |-> None]
                   ELSE None]
    /\ default \in [Projects -> Presets]
    /\ presets = Presets
    /\ machine \in BOOLEAN
    /\ worker = NoWork
    /\ unsupported = {}
    /\ request = [r \in Requests |-> Idle]
    /\ starting = FALSE
    /\ edits = 0 /\ restarts = 0

-----------------------------------------------------------------------------
(* Requests of users                                                       *)

BetweenWrites(x) == \E r \in Requests : request[r].at = "edited" /\ request[r].part = x

\* The request reads the part it is about.
Read(r, x) ==
    /\ request[r].at = "idle" /\ Exists(x) /\ edits < MaxEdits
    /\ StaleReads \/ ~BetweenWrites(x)
    /\ request' = [request EXCEPT ![r] = [Idle EXCEPT !.at = "loaded", !.part = x, !.seen = row[x]]]
    /\ edits' = edits + 1
    /\ UNCHANGED <<row, default, presets, machine, worker, unsupported, starting, restarts>>

Timely(r) == StaleReads \/ request[r].seen = row[request[r].part]

\* A row that refers to a deleted preset violates a foreign key.
Referable(p) == {p.preset, p.with} \subseteq presets \cup {None}

\* The whole row is saved: the fields the user changed and the others as they were read.
Save(r, saved, next) ==
    /\ Referable(saved)
    /\ row' = [row EXCEPT ![request[r].part] = saved]
    /\ request' = [request EXCEPT ![r] =
                     IF next = "idle" THEN Idle ELSE [@ EXCEPT !.at = next, !.seen = saved]]
    /\ UNCHANGED <<default, presets, machine, worker, unsupported, starting, edits, restarts>>

\* The form of a part, and the upload of a model file over the API: a new model or preset
\* of its own makes the estimate void, a move may do so.
SaveForm(r) ==
    /\ request[r].at = "loaded" /\ Timely(r)
    /\ \E j \in Projects, s \in presets \cup {None}, m \in Models \cup {None} :
          LET seen == request[r].seen
          IN  Save(r, [seen EXCEPT !.project = j, !.preset = s, !.model = m],
                   IF s # seen.preset \/ m # seen.model THEN "edited"
                   ELSE IF j # seen.project THEN "moved" ELSE "idle")

\* PATCH of a part over the API: only a move is followed by a look at the estimate.
SavePatch(r) ==
    /\ request[r].at = "loaded" /\ Timely(r)
    /\ \E j \in Projects, s \in presets \cup {None} :
          LET seen == request[r].seen
          IN  Save(r, [seen EXCEPT !.project = j, !.preset = s],
                   IF j # seen.project THEN "moved" ELSE "idle")

\* The request is refused by a validation, or its process is killed before the save.
GiveUp(r) ==
    /\ request[r].at = "loaded"
    /\ request' = [request EXCEPT ![r] = Idle]
    /\ UNCHANGED <<row, default, presets, machine, worker, unsupported, starting, edits, restarts>>

\* A copy of the part, without a started estimate and in any project.
Copy(r) ==
    /\ request[r].at = "loaded"
    /\ \E y \in Parts, j \in Projects :
          LET seen  == request[r].seen
              reset == seen.status \in {"pending", "estimating"}
              new   == [seen EXCEPT !.project = j,
                          !.status = IF reset THEN "none" ELSE @,
                          !.with = IF reset THEN None ELSE @]
          IN  /\ ~Exists(y) /\ Referable(new)
              /\ row' = [row EXCEPT ![y] = new]
              /\ request' = [request EXCEPT ![r] = [Idle EXCEPT !.at = "copied", !.part = y, !.seen = new]]
    /\ UNCHANGED <<default, presets, machine, worker, unsupported, starting, edits, restarts>>

\* The second write after an edit: the estimate is void.
Trigger(r) ==
    /\ request[r].at = "edited"
    /\ row' = [row EXCEPT ![request[r].part] = Cleared(@, IsEstimable(request[r].seen))]
    /\ request' = [request EXCEPT ![r] = Idle]
    /\ UNCHANGED <<default, presets, machine, worker, unsupported, starting, edits, restarts>>

\* The second write after a move or a copy: it compares the preset in memory.
Requeue(r) ==
    /\ request[r].at \in {"moved", "copied"}
    /\ row' = [row EXCEPT ![request[r].part] = Requeued(@, request[r].seen)]
    /\ request' = [request EXCEPT ![r] = Idle]
    /\ UNCHANGED <<default, presets, machine, worker, unsupported, starting, edits, restarts>>

\* A project is moved or gets another preset: what its subtree inherits changes.
EditProject(r, js, s) ==
    /\ request[r].at = "idle" /\ edits < MaxEdits
    /\ default' = [j \in Projects |-> IF j \in js THEN s ELSE default[j]]
    /\ request' = [request EXCEPT ![r] = [Idle EXCEPT !.at = "retreed", !.projects = js]]
    /\ edits' = edits + 1
    /\ UNCHANGED <<row, presets, machine, worker, unsupported, starting, restarts>>

\* The second transaction of that request looks at the rows as they are now.
RequeueSubtree(r) ==
    /\ request[r].at = "retreed"
    /\ row' = [x \in Parts |-> IF Exists(x) /\ row[x].project \in request[r].projects
                                 THEN Requeued(row[x], row[x]) ELSE row[x]]
    /\ request' = [request EXCEPT ![r] = Idle]
    /\ UNCHANGED <<default, presets, machine, worker, unsupported, starting, edits, restarts>>

\* "Estimate again" for one part.
ReEstimate(x) ==
    /\ Exists(x) /\ IsEstimable(row[x]) /\ edits < MaxEdits
    /\ row' = [row EXCEPT ![x] = Cleared(@, TRUE)]
    /\ edits' = edits + 1
    /\ UNCHANGED <<default, presets, machine, worker, unsupported, request, starting, restarts>>

\* "Estimate again" for a project: the parts of its subtree that can be estimated are
\* listed, and then queued one by one.
ListParts(r, js) ==
    /\ request[r].at = "idle" /\ edits < MaxEdits
    /\ LET eligible == {x \in Parts : Exists(x) /\ row[x].project \in js /\ IsEstimable(row[x])}
       IN  /\ eligible # {}
           /\ request' = [request EXCEPT ![r] = [Idle EXCEPT !.at = "listed", !.todo = eligible]]
    /\ edits' = edits + 1
    /\ UNCHANGED <<row, default, presets, machine, worker, unsupported, starting, restarts>>

QueueListed(r, x) ==
    /\ request[r].at = "listed" /\ x \in request[r].todo
    /\ row' = [row EXCEPT ![x] = Cleared(@, TRUE)]
    /\ request' = [request EXCEPT ![r] = IF @.todo = {x} THEN Idle
                                         ELSE [Idle EXCEPT !.at = "listed", !.todo = request[r].todo \ {x}]]
    /\ UNCHANGED <<default, presets, machine, worker, unsupported, starting, edits, restarts>>

\* The first machine profile that can be used is imported, or the last one is deleted.
ChangeMachines ==
    /\ edits < MaxEdits
    /\ machine' = ~machine
    /\ edits' = edits + 1
    /\ UNCHANGED <<row, default, presets, worker, unsupported, request, starting, restarts>>

\* A preset is deleted: every reference to it becomes null, and nothing is queued.
DeletePreset(s) ==
    /\ s \in presets /\ edits < MaxEdits
    /\ presets' = presets \ {s}
    /\ \E d \in presets' \cup {None} : default' = [j \in Projects |-> IF default[j] = s THEN d ELSE default[j]]
    /\ row' = [x \in Parts |-> IF Exists(x)
                 THEN [row[x] EXCEPT !.preset = IF @ = s THEN None ELSE @, !.with = IF @ = s THEN None ELSE @]
                 ELSE None]
    /\ edits' = edits + 1
    /\ UNCHANGED <<machine, worker, unsupported, request, starting, restarts>>

-----------------------------------------------------------------------------
(* The worker                                                              *)

Pending == {x \in Parts : Exists(x) /\ row[x].status = "pending"}

Claim ==
    /\ worker.at = "free"
    /\ \E x \in Pending :
          /\ \A y \in Pending : x <= y
          /\ row' = [row EXCEPT ![x] = [@ EXCEPT !.status = "estimating"]]
          /\ worker' = [NoWork EXCEPT !.at = "claimed", !.part = x]
          /\ unsupported' = unsupported \ {x}
    /\ UNCHANGED <<default, presets, machine, request, starting, edits, restarts>>

\* A profile the preset names is preferred, but any other will do.
FindCompatibleMachine == machine

\* The worker reads the part, its preset and a machine profile for it.
LoadPart ==
    /\ worker.at = "claimed"
    /\ LET p == row[worker.part]
       IN  \/ /\ ~IsEstimable(p)
              /\ worker' = [worker EXCEPT !.at = "aborting"]
              /\ UNCHANGED unsupported
           \/ /\ IsEstimable(p) /\ ~FindCompatibleMachine
              /\ worker' = NoWork
              /\ unsupported' = unsupported \cup {worker.part}
           \/ /\ IsEstimable(p) /\ FindCompatibleMachine
              /\ worker' = [worker EXCEPT !.at = "slicing", !.model = p.model, !.preset = Effective(p)]
              /\ UNCHANGED unsupported
    /\ UNCHANGED <<row, default, presets, machine, request, starting, edits, restarts>>

\* Fault: the result is stored even if the part was edited or queued again meanwhile.
AlwaysStored(x) == TRUE

StillEstimating(x) == row[x].status = "estimating"

\* The slicer has returned values; a preset deleted meanwhile cannot be referred to.
FinishEstimate ==
    /\ worker.at = "slicing" /\ worker.preset \in presets
    /\ row' = IF StillEstimating(worker.part)
              THEN [row EXCEPT ![worker.part] =
                      [@ EXCEPT !.status = "success", !.made = <<worker.model, worker.preset>>,
                                !.with = worker.preset]]
              ELSE row
    /\ worker' = NoWork
    /\ UNCHANGED <<default, presets, machine, unsupported, request, starting, edits, restarts>>

\* The slicer has failed or returned nothing, or the result cannot be stored.
FailEstimate ==
    /\ worker.at = "slicing"
    /\ row' = IF StillEstimating(worker.part)
              THEN [row EXCEPT ![worker.part] = [@ EXCEPT !.status = "error"]] ELSE row
    /\ worker' = NoWork
    /\ UNCHANGED <<default, presets, machine, unsupported, request, starting, edits, restarts>>

\* Fault: the worker gives up without a word in the row.
AbortSilently ==
    /\ worker.at = "aborting"
    /\ worker' = NoWork
    /\ UNCHANGED <<row, default, presets, machine, unsupported, request, starting, edits, restarts>>

\* No model file or no preset: the part is reset, whatever its state is by now.
AbortEstimate ==
    /\ worker.at = "aborting"
    /\ row' = [row EXCEPT ![worker.part] = [@ EXCEPT !.status = "none", !.with = None]]
    /\ worker' = NoWork
    /\ UNCHANGED <<default, presets, machine, unsupported, request, starting, edits, restarts>>

-----------------------------------------------------------------------------
(* Starts of processes; the worker may have died with an earlier one       *)

StartProcess ==
    /\ restarts < MaxRestarts
    /\ worker' \in {worker, NoWork}
    /\ starting' = TRUE
    /\ restarts' = restarts + 1
    /\ UNCHANGED <<row, default, presets, machine, unsupported, request, edits>>

\* Fault: parts left estimating by a dead worker are not looked for.
RequeueNothing ==
    /\ starting
    /\ starting' = FALSE
    /\ UNCHANGED <<row, default, presets, machine, worker, unsupported, request, edits, restarts>>

RequeueStuck ==
    /\ starting
    /\ starting' = FALSE
    /\ row' = [x \in Parts |-> IF Exists(x) /\ row[x].status = "estimating"
                                 THEN [row[x] EXCEPT !.status = "pending"] ELSE row[x]]
    /\ UNCHANGED <<default, presets, machine, worker, unsupported, request, edits, restarts>>

-----------------------------------------------------------------------------
RequestNext ==
    \/ \E r \in Requests, x \in Parts : Read(r, x)
    \/ \E r \in Requests : SaveForm(r) \/ SavePatch(r) \/ GiveUp(r) \/ Copy(r)
                           \/ Trigger(r) \/ Requeue(r) \/ RequeueSubtree(r)
    \/ \E r \in Requests, js \in (SUBSET Projects) \ {{}}, s \in presets : EditProject(r, js, s)
    \/ \E r \in Requests, js \in (SUBSET Projects) \ {{}} : ListParts(r, js)
    \/ \E r \in Requests, x \in Parts : QueueListed(r, x)
    \/ \E x \in Parts : ReEstimate(x)
    \/ ChangeMachines
    \/ \E s \in Presets : DeletePreset(s)

Estimating == LoadPart \/ FinishEstimate \/ FailEstimate \/ AbortEstimate

WorkerNext == Claim \/ Estimating

Next == RequestNext \/ WorkerNext \/ StartProcess \/ RequeueStuck

Spec == Init /\ [][Next]_vars

(* A worker with a part goes on, since a call of the slicer returns or     *)
(* times out, and so do a starting process and a request that has saved,   *)
(* to its second write.  That a worker comes for a pending part is not     *)
(* assumed: SlicingWorker shows how none may.                              *)
FairSpec ==
    /\ Spec
    /\ WF_vars(Estimating)
    /\ WF_vars(RequeueStuck)
    /\ \A r \in Requests : WF_vars(Trigger(r) \/ Requeue(r) \/ RequeueSubtree(r)
                                    \/ \E x \in Parts : QueueListed(r, x))

-----------------------------------------------------------------------------
TypeOK ==
    /\ row \in [Parts -> Row \cup {None}]
    /\ default \in [Projects -> Presets \cup {None}]
    /\ presets \subseteq Presets
    /\ machine \in BOOLEAN
    /\ worker \in [at: {"free", "claimed", "slicing", "aborting"}, part: Parts \cup {None},
                   model: Models \cup {None}, preset: Presets \cup {None}]
    /\ unsupported \subseteq Parts
    /\ request \in [Requests -> Request]
    /\ starting \in BOOLEAN
    /\ edits \in 0..MaxEdits /\ restarts \in 0..MaxRestarts

(* A stored estimate was computed from the model the part has now, with    *)
(* the preset the row names (unless that preset was deleted).  The only    *)
(* exception is the moment between the two writes of an edit.  This is     *)
(* what the condition of Part.finish_estimate and the second write of      *)
(* PartUpdateView are for.                                                 *)
EstimateIsOfThePresentModel ==
    \A x \in Parts :
        Exists(x) /\ row[x].status = "success" /\ ~BetweenWrites(x)
        => /\ row[x].made # None
           /\ row[x].made[1] = row[x].model
           /\ row[x].with \in {row[x].made[2], None}

(* A part shown as "estimating" is in the worker's hands, or a starting    *)
(* process is about to put it back, or the worker found no machine profile *)
(* to slice it with: then nothing but a new request or a restart ends that *)
(* state, even when a profile is imported.                                 *)
EstimatingIsUnderWay ==
    \A x \in Parts :
        Exists(x) /\ row[x].status = "estimating"
        => worker.part = x \/ starting \/ x \in unsupported

Awaited(x) == Exists(x) /\ row[x].status \in {"pending", "estimating"}

(* Whatever users, failures and restarts do, a queued estimate ends: with a*)
(* result, an error or none, unless the part is left alone for want of a   *)
(* machine profile, or waits for good for a worker that could claim it at  *)
(* any time.  No other part stays in estimating.                           *)
EstimatesSettle ==
    \A x \in Parts :
        \/ []<>(~Awaited(x) \/ x \in unsupported)
        \/ <>[](x \in Pending /\ ENABLED Claim)

=============================================================================
