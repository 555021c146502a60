---------------------------- MODULE PrinterSync ----------------------------
(***************************************************************************)
(* One printer, the notifications it sends over its WebSocket, and the     *)
(* worker that turns them into the start and the end of queue entries.     *)
(*                                                                         *)
(* The printer prints whatever file it is told to, by LayerNexus or at its *)
(* own screen; the worker knows it only through notifications that arrive  *)
(* later, that are lost while the connection is down, and that name a file *)
(* which several plates may share.  Of Klipper's states "paused" is a case *)
(* of "printing", the states that end a print (complete, cancelled, error) *)
(* are "over", and "loading" is the "standby" before a print starts.       *)
(***************************************************************************)
EXTENDS Integers, FiniteSets, SequencesExt

CONSTANTS
    Plates,
    Files,
    FileOf,        \* the name under which a plate's G-code is uploaded
    NoFile, NoPlate,
    Silent,        \* a field that a notification does not carry
    Timely,        \* notifications are handled before a later start is recorded,
                   \* and before G-code is uploaded after a later print; and
                   \* no print ends before its start is recorded
    LostReplies,   \* the reply to an accepted start may be lost
    MaxAttempts,   \* bound: attempts created
    MaxRuns,       \* bound: prints on the printer
    MaxWire,       \* bound: notifications on their way
    MaxLosses      \* bound: losses of the connection or of the subscription

ASSUME PrinterSyncAssumption ==
    /\ IsFiniteSet(Plates) /\ FileOf \in [Plates -> Files]
    /\ NoFile \notin Files /\ NoPlate \notin Plates
    /\ Silent \notin Files \cup {NoFile, 0, 1} /\ Silent \notin {"standby", "printing", "over"}
    /\ Timely \in BOOLEAN /\ LostReplies \in BOOLEAN
    /\ {MaxAttempts, MaxRuns, MaxWire, MaxLosses} \subseteq Nat

VARIABLES
    attempt,     \* plate -> its latest attempt
    nextPk,
    remote,      \* plates whose remote_job_id is stored
    earlier,     \* plate -> the plates whose last recorded start is before its own
    starter,     \* the process inside start_next_for_printer
    canceller,   \* the attempt a Cancel request is about to mark as finished
    disk,        \* file on the printer -> plate whose G-code it holds
    printer,     \* what the printer does
    wire,        \* notifications on their way to the worker
    connection,  \* the worker's WebSocket: lost, open or subscribed
    current,     \* the worker's current_filename
    handler,     \* the worker's handling of one notification
    losses,      \* number of lost connections and subscriptions
    unheard,     \* prints whose end was not reported to the worker
    aborted,     \* prints ended by a firmware restart
    untold       \* files whose G-code the database does not tell: an upload has replaced
                 \* it whose start or whose name is not recorded, or a print of it was
                 \* miscounted for that

database == <<attempt, nextPk, remote, earlier>>
requests == <<starter, canceller>>
device   == <<disk, printer>>
link     == <<wire, connection, current, losses>>
history  == <<unheard, aborted, untold>>
vars     == <<database, requests, device, link, handler, history>>

Stages == {"idle", "waiting", "claimed", "printing", "review"}

InStage(stage) == {p \in Plates : attempt[p].stage = stage}
Running        == printer.state \in {"loading", "printing"}
Current(p)     == Running /\ attempt[p].run = printer.run

\* What a notification says of print_stats (state and file), of virtual_sdcard
\* and of the history; `run` and `gcode` say for the properties which print it
\* is about.
Message == [kind : {"status", "added", "finished"},
            state : {"standby", "printing", "over", Silent},
            file : Files \cup {NoFile, Silent}, progress : {0, 1, Silent},
            run : 0..MaxRuns, gcode : Plates \cup {NoPlate}]

NoMessage == [kind |-> "status", state |-> Silent, file |-> Silent,
              progress |-> Silent, run |-> 0, gcode |-> NoPlate]

NoStarter == [step |-> "none", plate |-> NoPlate, run |-> 0]
Resting   == [step |-> "none", msg |-> NoMessage, plate |-> NoPlate, pk |-> 0,
              progress |-> Silent, named |-> FALSE]

\* A row is an open attempt of its plate, progress is 0 or 1 (none, some) once
\* it was recorded; nobody starts twice or starts what is not claimed.
TypeOK ==
    /\ attempt \in [Plates -> [stage : Stages, pk : 0..MaxAttempts,
                               progress : {0, 1, Silent}, run : 0..MaxRuns, refused : BOOLEAN]]
    /\ nextPk \in 1..(MaxAttempts + 1)
    /\ remote \subseteq Plates
    /\ earlier \in [Plates -> SUBSET Plates]
    /\ starter \in [step : {"none", "upload", "start", "reply", "name"},
                    plate : Plates \cup {NoPlate}, run : 0..MaxRuns]
    /\ starter.step \in {"upload", "start", "reply"} => starter.plate \in InStage("claimed")
    /\ canceller \in (Plates \X (0..MaxAttempts)) \cup {<<NoPlate, 0>>}
    /\ disk \in [Files -> Plates \cup {NoPlate}]
    /\ printer \in [state : {"standby", "loading", "printing", "over"},
                    file : Files \cup {NoFile}, progress : {0, 1},
                    run : 0..MaxRuns, gcode : Plates \cup {NoPlate}]
    /\ wire \in Seq(Message)
    /\ connection \in {"lost", "open", "subscribed"}
    /\ current \in Files \cup {NoFile}
    /\ handler \in [step : {"none", "adopt", "apply"}, msg : Message,
                    plate : Plates \cup {NoPlate}, pk : 0..MaxAttempts,
                    progress : {0, 1, Silent}, named : BOOLEAN]
    /\ losses \in 0..MaxLosses
    /\ unheard \subseteq 0..MaxRuns
    /\ aborted \subseteq 0..MaxRuns
    /\ untold \subseteq Files

-----------------------------------------------------------------------------
(* Notifications.  Klipper sends the fields that changed.                  *)

About(m) == [m EXCEPT !.run = printer'.run, !.gcode = printer'.gcode]

StatusUpdate(state, file, progress) ==
    About([NoMessage EXCEPT !.state = state, !.file = file, !.progress = progress])

HistoryChanged(action) == About([NoMessage EXCEPT !.kind = action, !.file = printer.file])

\* snapshot_event: the answer to a subscription, without the states of an end.
Snapshot ==
    StatusUpdate(CASE printer'.state = "over"    -> Silent
                   [] printer'.state = "loading" -> "standby"
                   [] OTHER -> printer'.state,
                 printer'.file, printer'.progress)

\* Changes of the history go to every connection, changes of status to subscribers.
IsSent(m) == connection = "subscribed" \/ (connection = "open" /\ m.kind # "status")

Sent(m) == IF IsSent(m) THEN <<m>> ELSE <<>>

Send(m) == Len(wire) < MaxWire /\ wire' = wire \o Sent(m)

\* print_stats and the history are different parts of Moonraker.
SendBoth(a, b) ==
    /\ Len(wire) + 1 < MaxWire
    /\ wire' \in {wire \o Sent(a) \o Sent(b), wire \o Sent(b) \o Sent(a)}

-----------------------------------------------------------------------------
(* The printer.                                                            *)

\* SDCARD_PRINT_FILE resets print_stats and loads the file; the print follows.
Load(file) ==
    /\ ~Running /\ disk[file] # NoPlate /\ printer.run < MaxRuns
    /\ printer' = [state |-> "loading", file |-> file, progress |-> 0,
                   run |-> printer.run + 1, gcode |-> disk[file]]
    /\ Send(StatusUpdate("standby", IF file = printer.file THEN Silent ELSE file, 0))
    /\ unheard' = IF connection # "lost" THEN unheard ELSE unheard \cup ({printer.run} \ {0})

\* Somebody starts a file at the printer.
StartedAtPrinter(file) ==
    /\ Load(file)
    /\ UNCHANGED <<database, requests, disk, connection, current, losses, handler,
                   aborted, untold>>

PrintBegins ==
    /\ printer.state = "loading"
    /\ printer' = [printer EXCEPT !.state = "printing"]
    /\ SendBoth(StatusUpdate("printing", Silent, Silent), HistoryChanged("added"))
    /\ UNCHANGED <<database, requests, disk, connection, current, losses, handler, history>>

PrintProgresses ==
    /\ printer.state = "printing" /\ printer.progress = 0
    /\ printer' = [printer EXCEPT !.progress = 1]
    /\ Send(StatusUpdate(Silent, Silent, 1))
    /\ UNCHANGED <<database, requests, disk, connection, current, losses, handler, history>>

Recorded == Timely => starter.step # "reply"

\* The print ends by itself, at the printer's screen or by a cancel request.
Stop ==
    /\ printer' = [printer EXCEPT !.state = "over"]
    /\ SendBoth(StatusUpdate("over", Silent, Silent), HistoryChanged("finished"))
    /\ unheard' = IF connection # "lost" THEN unheard ELSE unheard \cup ({printer.run} \ {0})

PrintEnds ==
    /\ printer.state = "printing" /\ Recorded
    /\ Stop
    /\ UNCHANGED <<database, requests, disk, connection, current, losses, handler,
                   aborted, untold>>

\* Klipper forgets the print.  Moonraker drops the subscription and reports the
\* job as finished only if it had begun; at klippy_ready the worker subscribes again.
FirmwareRestart ==
    /\ Running /\ Recorded
    /\ printer' = [printer EXCEPT !.state = "standby", !.file = NoFile, !.progress = 0]
    /\ IF printer.state = "printing" THEN Send(HistoryChanged("finished")) ELSE UNCHANGED wire
    /\ \/ connection = "subscribed" /\ losses < MaxLosses
          /\ connection' = "open" /\ losses' = losses + 1
       \/ connection # "subscribed" /\ UNCHANGED <<connection, losses>>
    /\ aborted' = aborted \cup {printer.run}
    /\ UNCHANGED <<database, requests, disk, current, handler, unheard, untold>>

-----------------------------------------------------------------------------
(* The connection.                                                         *)

\* What was on its way is lost with the connection, which the watchdog closes when
\* it has been silent for too long.
LoseConnection(dropped) ==
    /\ connection # "lost" /\ losses < MaxLosses
    /\ connection' = "lost" /\ wire' = <<>> /\ losses' = losses + 1
    /\ unheard' = unheard \cup ({m.run : m \in Range(wire) \cup dropped}
                                 \ (IF Running THEN {0, printer.run} ELSE {0}))
    /\ UNCHANGED <<database, requests, device, aborted, untold>>

Disconnect == LoseConnection({}) /\ UNCHANGED <<current, handler>>

\* The worker's task of the printer dies or is cancelled, and with it what it knew.
TaskLost == LoseConnection({handler.msg}) /\ current' = NoFile /\ handler' = Resting

\* Connect, and send a request to subscribe.
Connect ==
    /\ connection = "lost"
    /\ connection' = "open"
    /\ UNCHANGED <<database, requests, device, wire, current, losses, handler, history>>

\* The request is accepted, and the snapshot handled as a status update.  As long
\* as it is rejected nothing changes, and the watchdog sends it again.
Subscribed ==
    /\ connection = "open" /\ Len(wire) < MaxWire
    /\ connection' = "subscribed" /\ UNCHANGED printer
    /\ wire' = Append(wire, Snapshot)
    /\ UNCHANGED <<database, requests, disk, current, losses, handler, history>>

-----------------------------------------------------------------------------
(* The worker: _handle_event_for_printer, one transaction per step.        *)

Loaded(p, m) == [step |-> "apply", msg |-> m, plate |-> p, pk |-> attempt[p].pk,
                 progress |-> attempt[p].progress, named |-> p \in remote]

\* reported_print_filename
ReportedFile(m) == IF m.kind = "status" THEN m.file ELSE Silent

\* _load_active_queue_entry
Receive ==
    /\ handler = Resting /\ wire # <<>>
    /\ LET m == Head(wire)
       IN  /\ current' = IF ReportedFile(m) # Silent THEN ReportedFile(m) ELSE current
           /\ \/ \E p \in InStage("printing") : handler' = Loaded(p, m)
              \/ /\ InStage("printing") = {}
                 /\ handler' = [Resting EXCEPT !.step = "adopt", !.msg = m]
    /\ wire' = Tail(wire)
    /\ UNCHANGED <<database, requests, device, connection, losses, history>>

\* _started_print: the file of a print that the notification shows to be running
StartedFile(m) ==
    CASE m.kind = "added"                              -> m.file
      [] m.kind = "status" /\ m.state = "printing" -> IF m.file = Silent THEN current ELSE m.file
      [] OTHER                                     -> NoFile

Matches(m) == {p \in InStage("waiting") \cap remote : FileOf[p] = StartedFile(m)}

\* The plate that was the last to start a file of this name.  (Plates whose name was
\* not stored are not looked at.)
StartsOf(file) == {p \in remote : FileOf[p] = file}
IsLast(p, file) == p \in StartsOf(file) /\ StartsOf(file) \ {p} \subseteq earlier[p]

LastStarted(file) ==
    IF \E p \in Plates : IsLast(p, file) THEN CHOOSE p \in Plates : IsLast(p, file) ELSE NoPlate

\* Fault: any of the entries that match.
AnyMatch(m) == Matches(m)

\* _unambiguous_match
UnambiguousMatch(m) ==
    IF Cardinality(Matches(m)) <= 1 THEN Matches(m)
    ELSE Matches(m) \cap {LastStarted(StartedFile(m))}

\* PrintQueue.mark_started, its first write
MarkedStarted(p, run) ==
    /\ attempt' = [attempt EXCEPT ![p].stage = "printing", ![p].progress = Silent, ![p].run = run]
    /\ earlier' = [q \in Plates |-> IF q = p THEN Plates \ {p} ELSE earlier[q] \ {p}]

PrinterFree == InStage("printing") \cup InStage("claimed") = {}

\* adopt_external_print, and the adopted entry is handled further.
Adopt ==
    /\ handler.step = "adopt"
    /\ LET m     == handler.msg
           found == IF PrinterFree THEN UnambiguousMatch(m) ELSE {}
       IN  \/ \E p \in found :
                 /\ MarkedStarted(p, m.run)
                 /\ handler' = [Loaded(p, m) EXCEPT !.progress = Silent]
                 /\ untold' = IF disk[FileOf[p]] = p /\ m.gcode = p
                              THEN untold \ {FileOf[p]} ELSE untold \cup {FileOf[p]}
           \/ found = {} /\ handler' = Resting /\ UNCHANGED <<attempt, nextPk, earlier, untold>>
    /\ UNCHANGED <<nextPk, remote, requests, device, link, unheard, aborted>>

\* Fault: standby ends every attempt.
StandbyEnds(state, progress) == state \in {"over", "standby"}

\* Fault: standby never ends an attempt.
StandbyNeverEnds(state, progress) == state = "over"

\* _ends_attempt
EndsAttempt(state, progress) == state = "over" \/ (state = "standby" /\ progress = 1)

\* A finished job is ignored if both file names are known and differ.
IsAttemptFile(h) == h.named /\ h.msg.file # NoFile => h.msg.file = FileOf[h.plate]

\* The attempt the worker has loaded is still printing in the database.
StillPrinting(h) == attempt[h.plate].stage = "printing" /\ attempt[h.plate].pk = h.pk

TransitionToReview(h) ==
    attempt' = IF StillPrinting(h) THEN [attempt EXCEPT ![h.plate].stage = "review"] ELSE attempt

HandleHistoryChanged(h) ==
    IF h.msg.kind = "finished" /\ IsAttemptFile(h) THEN TransitionToReview(h) ELSE UNCHANGED attempt

\* Progress is recorded unless some was recorded a moment ago.
HandleStatusUpdate(h) ==
    IF EndsAttempt(h.msg.state, h.progress) THEN TransitionToReview(h)
    ELSE \/ /\ h.msg.progress # Silent /\ StillPrinting(h)
            /\ attempt' = [attempt EXCEPT ![h.plate].progress = h.msg.progress]
         \/ /\ h.msg.progress # Silent /\ StillPrinting(h) => h.progress # Silent
            /\ UNCHANGED attempt

\* apply_status_event
Apply ==
    /\ handler.step = "apply"
    /\ IF handler.msg.kind = "status" THEN HandleStatusUpdate(handler) ELSE HandleHistoryChanged(handler)
    /\ handler' = Resting
    /\ UNCHANGED <<nextPk, remote, earlier, requests, device, link, history>>

-----------------------------------------------------------------------------
(* Starts, cancels and reviews in LayerNexus.                              *)

NewAttempt == [stage |-> "waiting", pk |-> nextPk, progress |-> Silent, run |-> 0, refused |-> FALSE]
NoAttempt(p)  == [stage |-> "idle", pk |-> attempt[p].pk, progress |-> Silent, run |-> 0, refused |-> FALSE]

Enqueue(p) ==
    /\ attempt[p].stage = "idle" /\ nextPk <= MaxAttempts
    /\ attempt' = [attempt EXCEPT ![p] = NewAttempt]
    /\ nextPk' = nextPk + 1
    /\ UNCHANGED <<remote, earlier, requests, device, link, handler, history>>

\* start_next_for_printer; which entry is the next one is left open here.
Claim(p) ==
    /\ starter = NoStarter /\ attempt[p].stage = "waiting"
    /\ InStage("claimed") \cup InStage("printing") \cup InStage("review") = {}
    /\ attempt' = [attempt EXCEPT ![p].stage = "claimed"]
    /\ starter' = [step |-> "upload", plate |-> p, run |-> 0]
    /\ UNCHANGED <<nextPk, remote, earlier, canceller, device, link, handler, history>>

\* What is on its way or being handled is about this print at most.
OnlyAbout(run) == \A m \in Range(wire) \cup {handler.msg} : m = NoMessage \/ m.run = run

\* upload_gcode: the printer refuses to replace the file it is printing.
UploadGcode(file, p) ==
    /\ ~(Running /\ printer.file = file)
    /\ disk' = [disk EXCEPT ![file] = p]
    /\ untold' = untold \cup {file}

\* upload_and_start_print, first half; PrinterAccepts is the second.
Upload ==
    /\ starter.step = "upload"
    /\ Timely => OnlyAbout(printer.run)
    /\ UploadGcode(FileOf[starter.plate], starter.plate)
    /\ starter' = [starter EXCEPT !.step = "start"]
    /\ UNCHANGED <<database, canceller, printer, link, handler, unheard, aborted>>

PrinterAccepts ==
    /\ starter.step = "start"
    /\ Load(FileOf[starter.plate])
    /\ starter' = [starter EXCEPT !.step = "reply", !.run = printer'.run]
    /\ UNCHANGED <<database, canceller, disk, connection, current, losses, handler,
                   aborted, untold>>

\* The printer refused or could not be reached, or its answer did not arrive:
\* _release_claim.
StartFails ==
    /\ starter.step \in {"upload", "start"} \cup (IF LostReplies THEN {"reply"} ELSE {})
    /\ attempt' = [attempt EXCEPT ![starter.plate].stage = "waiting"]
    /\ starter' = NoStarter
    /\ UNCHANGED <<nextPk, remote, earlier, canceller, device, link, handler, history>>

RecordStarted ==
    /\ starter.step = "reply"
    /\ Timely => OnlyAbout(starter.run)
    /\ MarkedStarted(starter.plate, starter.run)
    /\ untold' = untold \ ({FileOf[p] : p \in {starter.plate} \cap remote})
    /\ starter' = [starter EXCEPT !.step = "name"]
    /\ UNCHANGED <<nextPk, remote, canceller, device, link, handler, unheard, aborted>>

\* Its second write.
RecordName ==
    /\ starter.step = "name"
    /\ remote' = remote \cup {starter.plate}
    /\ LET p == starter.plate
       IN  untold' = IF StartsOf(FileOf[p]) \ {p} \subseteq earlier[p] THEN untold \ {FileOf[p]} ELSE untold
    /\ starter' = NoStarter
    /\ UNCHANGED <<attempt, nextPk, earlier, canceller, device, link, handler, unheard, aborted>>

\* The process dies, or recording the start fails: the claim stays.
StarterDies ==
    /\ starter.step # "none"
    /\ starter' = NoStarter
    /\ UNCHANGED <<database, canceller, device, link, handler, history>>

\* A start outlasts no claim (uploads time out after two minutes, claims after ten).
ClaimExpires(p) ==
    /\ attempt[p].stage = "claimed" /\ starter.plate # p
    /\ attempt' = [attempt EXCEPT ![p].stage = "waiting"]
    /\ UNCHANGED <<nextPk, remote, earlier, requests, device, link, handler, history>>

\* CancelQueueEntryView: whatever the printer answers, ...
CancelPrint(p) ==
    /\ canceller = <<NoPlate, 0>> /\ attempt[p].stage = "printing"
    /\ canceller' = <<p, attempt[p].pk>>
    /\ \/ /\ Running /\ Recorded
          /\ Stop
          /\ UNCHANGED attempt
       \/ /\ attempt' = [attempt EXCEPT ![p].refused = TRUE]
          /\ UNCHANGED <<printer, wire, unheard>>
    /\ UNCHANGED <<nextPk, remote, earlier, starter, disk, connection, current, losses, handler,
                   aborted, untold>>

\* ... the entry is marked as finished, if it is still printing.
MarkCancelled ==
    /\ canceller # <<NoPlate, 0>>
    /\ LET p == canceller[1]
       IN  attempt' = IF attempt[p].stage = "printing" /\ attempt[p].pk = canceller[2]
                      THEN [attempt EXCEPT ![p].stage = "review"] ELSE attempt
    /\ canceller' = <<NoPlate, 0>>
    /\ UNCHANGED <<nextPk, remote, earlier, starter, device, link, handler, history>>

Review(p, retry) ==
    /\ attempt[p].stage = "review"
    /\ \/ retry /\ nextPk <= MaxAttempts
          /\ attempt' = [attempt EXCEPT ![p] = NewAttempt]
          /\ nextPk' = nextPk + 1
       \/ ~retry /\ attempt' = [attempt EXCEPT ![p] = NoAttempt(p)] /\ UNCHANGED nextPk
    /\ UNCHANGED <<remote, earlier, requests, device, link, handler, history>>

RemoveEntry(p) ==
    /\ attempt[p].stage \in {"waiting", "printing", "review"}
    /\ attempt' = [attempt EXCEPT ![p] = NoAttempt(p)]
    /\ UNCHANGED <<nextPk, remote, earlier, requests, device, link, handler, history>>

-----------------------------------------------------------------------------
\* Any earlier life of the printer: plates that printed before, in some order.
Init ==
    /\ remote \in SUBSET Plates
    /\ earlier \in {[p \in Plates |-> {q \in Plates : rank[q] < rank[p]}] :
                       rank \in Bijection(Plates, 1..Cardinality(Plates))}
    /\ attempt \in [Plates -> [stage : {"idle", "waiting"}, pk : {0}, progress : {Silent}, run : {0}, refused : {FALSE}]]
    /\ nextPk = 1 /\ starter = NoStarter /\ canceller = <<NoPlate, 0>>
    /\ disk = [f \in Files |-> LastStarted(f)]
    /\ printer = [state |-> "standby", file |-> NoFile, progress |-> 0, run |-> 0, gcode |-> NoPlate]
    /\ wire = <<>> /\ connection = "subscribed" /\ current = NoFile /\ handler = Resting /\ losses = 0
    /\ unheard = {} /\ aborted = {} /\ untold = {}

Printing ==
    \/ \E f \in Files : StartedAtPrinter(f)
    \/ PrintBegins
    \/ PrintProgresses
    \/ PrintEnds
    \/ FirmwareRestart

Working ==
    \/ Disconnect
    \/ TaskLost
    \/ Connect
    \/ Subscribed
    \/ Receive
    \/ Adopt
    \/ Apply

Starting ==
    \/ \E p \in Plates : Claim(p)
    \/ Upload
    \/ PrinterAccepts
    \/ StartFails
    \/ RecordStarted
    \/ RecordName
    \/ StarterDies
    \/ \E p \in Plates : ClaimExpires(p)

Managing ==
    \/ \E p \in Plates : Enqueue(p)
    \/ \E p \in Plates : CancelPrint(p)
    \/ MarkCancelled
    \/ \E p \in Plates, retry \in BOOLEAN : Review(p, retry)
    \/ \E p \in Plates : RemoveEntry(p)

Next == Printing \/ Working \/ Starting \/ Managing

Spec == Init /\ [][Next]_vars

-----------------------------------------------------------------------------
(* Properties.                                                             *)

\* A printer has at most one attempt that is printing or about to, however
\* starts from LayerNexus and adoptions of prints started at the printer meet.
OneAttemptOnPrinter ==
    \A p, q \in InStage("claimed") \cup InStage("printing") : p = q

\* An attempt awaits review only when its print is over: neither the standby of
\* a start-up nor anything left over from an earlier print ends it.  (Except
\* that the printer may refuse to cancel, which Cancel ignores.)
EndedPrintsAreOver ==
    \A p \in InStage("review") : Current(p) => attempt[p].refused

\* The end of a print is never missed while the worker hears of it: once all
\* is handled, what is printing in the queue is printing on the printer.  What
\* a lost connection swallowed is lost, and a restart of the firmware ends
\* only attempts with recorded progress.
NoEndIsMissed ==
    connection = "subscribed" /\ wire = <<>> /\ handler = Resting =>
        \A p \in InStage("printing") :
            \/ Current(p)
            \/ attempt[p].run \in unheard
            \/ /\ attempt[p].run \in aborted
               /\ attempt[p].progress # 1 \/ attempt[p].run # printer.run

\* A print started at the printer is counted for the plate whose G-code it is.
\* The code promises it unless an upload whose start was not recorded replaced
\* the file.
CountedForItsPlate ==
    [][\A p \in Plates :
          handler.step = "adopt" /\ attempt[p].stage = "waiting" /\ attempt'[p].stage = "printing"
          /\ FileOf[p] \notin untold
            => handler.msg.gcode = p]_vars

\* The same where several waiting plates share the name of the file.
SharedNamesAreToldApart ==
    [][\A p \in Plates :
          handler.step = "adopt" /\ attempt[p].stage = "waiting" /\ attempt'[p].stage = "printing"
          /\ FileOf[p] \notin untold /\ Cardinality(Matches(handler.msg)) > 1
            => handler.msg.gcode = p]_vars

\* A claim that its own process gives back belongs to a start that never
\* reached the printer: the plate's print is not running unattended.
ReleasedStartsNeverReached ==
    [][\A p \in Plates :
          starter.plate = p /\ attempt[p].stage = "claimed" /\ attempt'[p].stage = "waiting"
            => starter.run = 0]_vars
=============================================================================
