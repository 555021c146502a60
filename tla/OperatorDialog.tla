--------------------------- MODULE OperatorDialog ---------------------------
(***************************************************************************)
(* The operator dialogs at one printer: core/services/operator_dialog.py   *)
(* (which dialog, what a button does), core/services/                      *)
(* moonraker_operator_ui.py (the object that lives in the printer's task   *)
(* of the worker) and the macros of klipper/layernexus.cfg.                *)
(*                                                                         *)
(* A dialog is sent to the printer as a script, a button runs a macro      *)
(* there, which closes the prompt and echoes a line, and the echo comes    *)
(* back over the WebSocket.  Presses and the end of a print are handled    *)
(* one at a time, under one lock, while the web pages change the same      *)
(* queue.  So the prompt on the screen, what the worker remembers of it,   *)
(* and the queue are three states that follow each other with delays.      *)
(*                                                                         *)
(* The queue itself is module PrintQueue; here it is reduced to the status *)
(* of the entries and to which of them is next.                            *)
(***************************************************************************)
EXTENDS Integers, Sequences

CONSTANTS
    Entries,        \* attempts of plates on this printer
    NoEntry,        \* no entry
    MaxPresses,     \* bound on the buttons pressed
    MaxFailures,    \* bound on lost echoes, failed sends and failed actions
    MaxRestarts     \* bound on restarts of the printer's task

ASSUME DialogAssumption ==
    /\ NoEntry \notin Entries
    /\ MaxPresses \in Nat /\ MaxFailures \in Nat /\ MaxRestarts \in Nat

Statuses == {"absent", "waiting", "claimed", "printing", "review", "passed", "failed", "removed"}

(* A prompt, by its buttons: the verdict on a finished plate, the start of *)
(* the next one, "Show current" and Close, Close only, or no prompt.       *)
Dialog == [kind : {"review", "start"}, entry : Entries]
          \cup [kind : {"handled", "info", "none"}, entry : {NoEntry}]
ReviewDialog(e) == [kind |-> "review", entry |-> e]
StartDialog(e) == [kind |-> "start", entry |-> e]
Handled == [kind |-> "handled", entry |-> NoEntry]
Info == [kind |-> "info", entry |-> NoEntry]
NoPrompt == [kind |-> "none", entry |-> NoEntry]

(* What the printer's task has to handle: presses, and prints that ended. *)
Action == [kind : {"good", "bad", "start", "ended"}, entry : Entries]
          \cup [kind : {"menu"}, entry : {NoEntry}]
NoAction == [kind |-> "none", entry |-> NoEntry]
ShowMenu == [kind |-> "menu", entry |-> NoEntry]

VARIABLES
    status,             \* the queue entries
    next,               \* the entry that is next among the waiting ones
    prompt,             \* the prompt the printer shows
    inbox,              \* echoes and ends of prints on their way to the lock, in order
    job,                \* what is done under the lock: its action, step and dialog
    open_review_pk,     \* the review dialog the worker believes to be open
    detached,           \* an action whose task was cancelled while its thread ran
    adrift,             \* a script whose task was cancelled while it was sent
    forgotten,          \* history: a start has forgotten an open review dialog
    presses, failures, restarts

dialogVars == << status, next, prompt, inbox, job, open_review_pk, detached, adrift,
           forgotten, presses, failures, restarts >>

queueVars == << status, next >>
bounds == << forgotten, presses, failures, restarts >>

IdleJob == [step |-> "idle", action |-> NoAction, dialog |-> NoPrompt]

DialogTypeOK ==
    /\ status \in [Entries -> Statuses]
    /\ next \in Entries \cup {NoEntry}
    /\ prompt \in Dialog
    /\ inbox \in Seq(Action)
    /\ job \in [step : {"idle", "acting", "reading", "uploading", "sending"},
                action : Action \cup {NoAction}, dialog : Dialog]
    /\ open_review_pk \in Entries \cup {NoEntry}
    /\ detached \in Action \cup {NoAction}
    /\ adrift \in Dialog
    /\ forgotten \in BOOLEAN
    /\ presses \in 0 .. MaxPresses
    /\ failures \in 0 .. MaxFailures
    /\ restarts \in 0 .. MaxRestarts

With(s) == {e \in Entries : status[e] = s}

(* busy_entry_for_printer: a start under way, a print, a bed to review. *)
Busy == With("claimed") \cup With("printing") \cup With("review")

(* next is a waiting entry whenever there is one (next_waiting_entry). *)
NextIsWaiting ==
    IF With("waiting") = {} THEN next = NoEntry ELSE next \in With("waiting")

DialogInit ==
    /\ status \in [Entries -> {"absent", "waiting"}]
    /\ next \in Entries \cup {NoEntry}
    /\ NextIsWaiting
    /\ prompt = NoPrompt
    /\ inbox = << >>
    /\ job = IdleJob
    /\ open_review_pk = NoEntry
    /\ detached = NoAction
    /\ adrift = NoPrompt
    /\ forgotten = FALSE
    /\ presses = 0 /\ failures = 0 /\ restarts = 0

-----------------------------------------------------------------------------
(* Operations on the queue, used by the dialogs and by the web pages.      *)

(* Entry e leaves the waiting ones, to status s; any other may be next.    *)
LeaveWaiting(e, s) ==
    /\ status' = [status EXCEPT ![e] = s]
    /\ next' \in Entries \cup {NoEntry}
    /\ NextIsWaiting'
    /\ next # e => next' = next

(* start_next_for_printer claims the next entry. *)
ClaimNext == next # NoEntry /\ LeaveWaiting(next, "claimed")

(* review_queue_entry: a failed plate may be retried by a new attempt,     *)
(* which goes to the front of its priority.                                *)
Decide(e, passed) ==
    \/ /\ status' = [status EXCEPT ![e] = IF passed THEN "passed" ELSE "failed"]
       /\ UNCHANGED next
    \/ /\ ~ passed
       /\ \E retry \in With("absent") :
            /\ status' = [status EXCEPT ![e] = "failed", ![retry] = "waiting"]
            /\ next' \in {retry, next} \ {NoEntry}

(* The start of an entry is recorded. *)
Record(e) == status' = [status EXCEPT ![e] = "printing"] /\ UNCHANGED next

(* An entry begins to wait: it is queued, or the start it was claimed for  *)
(* has failed.  Its place depends on its priority.                         *)
BeginWaiting(e) ==
    /\ status' = [status EXCEPT ![e] = "waiting"]
    /\ next' \in {e, next} \ {NoEntry}

-----------------------------------------------------------------------------
(* The web pages and the printer, which know nothing of the dialogs.       *)

Uploading(e) == job.step = "uploading" /\ job.action.entry = e

WebStep ==
    /\ \/ \E e \in With("absent") : BeginWaiting(e)
       \/ Busy = {} /\ ClaimNext
       \/ \E e \in With("claimed") : ~ Uploading(e) /\ (Record(e) \/ BeginWaiting(e))
       \/ \E e \in With("review"), passed \in BOOLEAN : Decide(e, passed)
       \/ \E e \in With("waiting") : LeaveWaiting(e, "removed")
       \/ next # NoEntry /\ next' \in With("waiting") \ {next} /\ UNCHANGED status
    /\ UNCHANGED << prompt, inbox, job, open_review_pk, detached, adrift, bounds >>

(* A print ends: the notification moves the entry to review, then the      *)
(* handler waits for the lock (_handle_event_for_printer).                 *)
PrintEnds(e) ==
    /\ e \in With("printing")
    /\ status' = [status EXCEPT ![e] = "review"]
    /\ inbox' = Append(inbox, [kind |-> "ended", entry |-> e])
    /\ UNCHANGED << next, prompt, job, open_review_pk, detached, adrift, bounds >>

(* The buttons that echo: action_to_gcode and the macros.  LN_MENU is also *)
(* in the printer's own macro list, whatever the prompt.                   *)
Buttons ==
    {ShowMenu} \cup
    (IF prompt.kind = "review"
     THEN {[kind |-> verdict, entry |-> prompt.entry] : verdict \in {"good", "bad"}}
     ELSE {}) \cup
    (IF prompt.kind = "start" THEN {[kind |-> "start", entry |-> prompt.entry]} ELSE {})

(* Buttons are pressed, once or on two screens at the same time; the macro *)
(* closes the prompt and echoes.  An echo is lost while the WebSocket is   *)
(* down.                                                                   *)
Press ==
    /\ prompt' = NoPrompt
    /\ \E first \in Buttons, second \in Buttons \cup {NoAction} :
         LET pressed == IF second = NoAction THEN << first >> ELSE << first, second >> IN
         /\ presses + Len(pressed) <= MaxPresses
         /\ presses' = presses + Len(pressed)
         /\ \/ inbox' = inbox \o pressed /\ UNCHANGED failures
            \/ /\ failures < MaxFailures
               /\ failures' = failures + 1
               /\ UNCHANGED inbox
    /\ UNCHANGED << queueVars, job, open_review_pk, detached, adrift, forgotten, restarts >>

(* Close and Later run LN_CLOSE, which echoes nothing; a screen may also   *)
(* close any prompt itself.                                                *)
ClosePrompt ==
    /\ prompt # NoPrompt
    /\ prompt' = NoPrompt
    /\ UNCHANGED << queueVars, inbox, job, open_review_pk, detached, adrift, bounds >>

-----------------------------------------------------------------------------
(* Under the lock (_run_action, on_review_pending, close_if_stale).        *)

(* show: remember a review dialog, then send the script. *)
ReviewEntryPk(d) == IF d.kind = "review" THEN d.entry ELSE NoEntry

Show(d) ==
    /\ open_review_pk' = ReviewEntryPk(d)
    /\ job' = [step |-> "sending", action |-> job.action, dialog |-> d]

(* The next one of those that wait for the lock gets it. *)
Take ==
    /\ job.step = "idle"
    /\ inbox # << >>
    /\ job' = [step |-> "acting", action |-> Head(inbox), dialog |-> NoPrompt]
    /\ inbox' = Tail(inbox)
    /\ UNCHANGED << queueVars, prompt, open_review_pk, detached, adrift, bounds >>

Act(kinds) == job.step = "acting" /\ job.action.kind \in kinds

\* Fault: the verdict is stored without looking at the entry's status.
NotWaiting(e) == status[e] # "waiting"

(* review_queue_entry refuses an entry that awaits no review. *)
Reviewable(e) == status[e] = "review"

(* _handle_review: the verdict, after which the next dialog is built; or   *)
(* "Already handled".                                                      *)
HandleReview ==
    /\ Act({"good", "bad"})
    /\ LET e == job.action.entry IN
       \/ /\ Reviewable(e)
          /\ Decide(e, job.action.kind = "good")
          /\ job' = [job EXCEPT !.step = "reading"]
          /\ UNCHANGED open_review_pk
       \/ /\ ~ Reviewable(e)
          /\ Show(Handled)
          /\ UNCHANGED queueVars
    /\ UNCHANGED << prompt, inbox, detached, adrift, bounds >>

\* Fault: whatever is next is started.
AnyNext(e) == Busy = {} /\ next # NoEntry

(* start_next_for_printer with expected_entry_pk: only the entry of the    *)
(* dialog, only while it is next and the printer is free.                  *)
Startable(e) == Busy = {} /\ next = e

(* _handle_start: the claim, followed by the upload; or a dialog that says *)
(* why not.                                                                *)
HandleStart ==
    /\ Act({"start"})
    /\ LET e == job.action.entry IN
       \/ /\ Startable(e)
          /\ ClaimNext
          /\ job' = [job EXCEPT !.step = "uploading"]
          /\ UNCHANGED open_review_pk
       \/ /\ ~ Startable(e)
          /\ Show(Handled)
          /\ UNCHANGED queueVars
    /\ UNCHANGED << prompt, inbox, detached, adrift, bounds >>

(* The print has started: no dialog, and nothing is remembered.  If a      *)
(* review dialog was shown after the button was pressed, and its plate has *)
(* been decided since, that dialog stays on the screen and is forgotten.   *)
StartSucceeds ==
    /\ job.step = "uploading"
    /\ Record(job.action.entry)
    /\ open_review_pk' = NoEntry
    /\ forgotten' = (forgotten \/ open_review_pk # NoEntry)
    /\ job' = IdleJob
    /\ UNCHANGED << prompt, inbox, detached, adrift, presses, failures, restarts >>

StartFails ==
    /\ job.step = "uploading"
    /\ BeginWaiting(job.action.entry)
    /\ Show(Info)
    /\ UNCHANGED << prompt, inbox, detached, adrift, bounds >>

(* next_job_dialog; the line about a busy printer has only Close. *)
NextJobDialog ==
    IF Busy # {} \/ next = NoEntry THEN Info ELSE StartDialog(next)

(* menu_dialog: a pending review comes first. *)
MenuDialogs ==
    IF With("review") # {} THEN {ReviewDialog(e) : e \in With("review")} ELSE {NextJobDialog}

HandleMenu ==
    /\ Act({"menu"})
    /\ \E d \in MenuDialogs : Show(d)
    /\ UNCHANGED << queueVars, prompt, inbox, detached, adrift, bounds >>

(* After a verdict, the queue is read again for the next dialog. *)
ShowNextJob ==
    /\ job.step = "reading"
    /\ Show(NextJobDialog)
    /\ UNCHANGED << queueVars, prompt, inbox, detached, adrift, bounds >>

\* Fault: the dialog is shown only if the printer has nothing waiting.
ShownIfLast(e) == status[e] = "review" /\ next = NoEntry

(* _load_review_dialog: only if the entry still awaits review. *)
ShownFor(e) == status[e] = "review"

OnReviewPending ==
    /\ Act({"ended"})
    /\ LET e == job.action.entry IN
       IF ShownFor(e)
       THEN Show(ReviewDialog(e))
       ELSE job' = IdleJob /\ UNCHANGED open_review_pk
    /\ UNCHANGED << queueVars, prompt, inbox, detached, adrift, bounds >>

\* Fault: an open dialog is never found stale.
NeverStale == FALSE

(* close_if_stale: the dialog believed to be open asks about an entry that *)
(* awaits no review any more.                                              *)
DialogIsStale == open_review_pk # NoEntry /\ status[open_review_pk] # "review"

CloseIfStale ==
    /\ job.step = "idle"
    /\ DialogIsStale
    /\ Show(NoPrompt)
    /\ UNCHANGED << queueVars, prompt, inbox, detached, adrift, bounds >>

(* The script has run on the printer. *)
Delivered ==
    /\ job.step = "sending"
    /\ prompt' = job.dialog
    /\ job' = IdleJob
    /\ UNCHANGED << queueVars, inbox, open_review_pk, detached, adrift, bounds >>

(* The script could not be sent; show swallows the error. *)
SendFails ==
    /\ job.step = "sending"
    /\ failures < MaxFailures
    /\ failures' = failures + 1
    /\ job' = IdleJob
    /\ UNCHANGED << queueVars, prompt, inbox, open_review_pk, detached, adrift, forgotten, presses, restarts >>

(* handle_action raises (database locked): a dialog says so. *)
ActionFails ==
    /\ job.step \in {"acting", "reading"}
    /\ job.action.kind # "ended"
    /\ failures < MaxFailures
    /\ failures' = failures + 1
    /\ Show(Info)
    /\ UNCHANGED << queueVars, prompt, inbox, detached, adrift, forgotten, presses, restarts >>

-----------------------------------------------------------------------------
(* The reconciler restarts the printer's task: cancel_pending drops what   *)
(* waits for the lock, the new object remembers no dialog.  A thread that  *)
(* is changing the queue or sending a script goes on.                      *)
Restart ==
    /\ restarts < MaxRestarts
    /\ restarts' = restarts + 1
    /\ detached' = IF job.step = "acting" THEN job.action ELSE NoAction
    /\ adrift' = IF job.step = "sending" THEN job.dialog ELSE NoPrompt
    /\ job' = IdleJob
    /\ inbox' = << >>
    /\ open_review_pk' = NoEntry
    /\ UNCHANGED << queueVars, prompt, forgotten, presses, failures >>

(* The thread of a cancelled action changes the queue; its answer is lost. *)
DetachedActs ==
    /\ detached # NoAction
    /\ detached' = NoAction
    /\ \/ /\ detached.kind \in {"good", "bad"}
          /\ Reviewable(detached.entry)
          /\ Decide(detached.entry, detached.kind = "good")
       \/ /\ detached.kind = "start"
          /\ Startable(detached.entry)
          /\ ClaimNext
       \/ UNCHANGED queueVars
    /\ UNCHANGED << prompt, inbox, job, open_review_pk, adrift, bounds >>

(* The script of a cancelled task arrives after all. *)
AdriftArrives ==
    /\ adrift # NoPrompt
    /\ prompt' = adrift
    /\ adrift' = NoPrompt
    /\ UNCHANGED << queueVars, inbox, job, open_review_pk, detached, bounds >>

-----------------------------------------------------------------------------
UnderLock ==
    \/ Take \/ HandleReview \/ HandleStart \/ StartSucceeds \/ StartFails
    \/ HandleMenu \/ ShowNextJob \/ OnReviewPending \/ Delivered

DialogNext ==
    \/ WebStep \/ (\E e \in Entries : PrintEnds(e)) \/ Press \/ ClosePrompt
    \/ UnderLock \/ CloseIfStale \/ SendFails \/ ActionFails
    \/ Restart \/ DetachedActs \/ AdriftArrives

DialogSpec == DialogInit /\ [][DialogNext]_dialogVars

(* The event loop of the worker goes on: whoever holds the lock proceeds,  *)
(* the waiting ones get it in turn, and the check of the open dialog is    *)
(* made periodically.  Nothing is assumed of users, printers and pages.    *)
DialogFairSpec == DialogSpec /\ WF_dialogVars(UnderLock) /\ WF_dialogVars(CloseIfStale)

-----------------------------------------------------------------------------
(* Safety. *)

(* A verdict is final: of two presses, of a press and the web page, and of *)
(* a press whose task was cancelled, only one counts (the docstring of     *)
(* handle_action: stale or double presses change nothing).                 *)
VerdictsAreFinal ==
    [][\A e \in Entries :
        status[e] \in {"passed", "failed"} => status'[e] = status[e]]_dialogVars

(* What a Start button starts is the plate its dialog offered, and nothing *)
(* else is on the printer then, printed or being started (the filament     *)
(* named in the dialog has been loaded for that plate).                    *)
StartsWhatWasOffered ==
    job.step = "uploading" => Busy = {job.action.entry}

(* Liveness. *)

Disturbed == failures > 0 \/ restarts > 0

(* A print that ends is offered for review at the printer, or somebody has *)
(* decided it; nothing in the queue of presses keeps the dialog away.      *)
ReviewIsOffered ==
    \A e \in Entries :
        (\E i \in DOMAIN inbox : inbox[i] = [kind |-> "ended", entry |-> e]) ~>
            prompt = ReviewDialog(e) \/ status[e] # "review" \/ Disturbed

(* A dialog that asks about a plate already decided elsewhere goes away,   *)
(* unless a start has forgotten it (close_if_stale).                       *)
StaleDialogGoes ==
    \A e \in Entries :
        prompt = ReviewDialog(e) /\ status[e] # "review" ~>
            prompt # ReviewDialog(e) \/ Disturbed \/ forgotten

(* close_if_stale promises it without that exception, which the code does  *)
(* not keep: no run checks this one.                                       *)
StaleDialogAlwaysGoes ==
    \A e \in Entries :
        prompt = ReviewDialog(e) /\ status[e] # "review" ~>
            prompt # ReviewDialog(e) \/ Disturbed
=============================================================================
