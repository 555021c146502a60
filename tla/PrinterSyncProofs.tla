------------------------- MODULE PrinterSyncProofs -------------------------
(***************************************************************************)
(* Whatever the printer does and reports, and however notifications are    *)
(* lost or late: it never has two attempts that are printing or claimed    *)
(* (OneAttempt).  If notifications are handled before a later start is     *)
(* recorded, no attempt is ended before its print (EndedPrints), none      *)
(* outlives a print whose end was reported (NoEndMissed), and plates that  *)
(* share a file name are told apart (SharedNamesToldApart).                *)
(***************************************************************************)
EXTENDS PrinterSync, FiniteSetTheorems, TLAPS

\* A start holds its claim until it is recorded or given back.
ClaimHeld ==
    starter.step \in {"upload", "start", "reply"} =>
        starter.plate \in Plates /\ attempt[starter.plate].stage = "claimed"

\* The only facts about types that the argument needs.
Shape ==
    /\ attempt = [p \in Plates |-> attempt[p]]
    /\ \A p \in Plates : "stage" \in DOMAIN attempt[p]
    /\ starter = [step |-> starter.step, plate |-> starter.plate, run |-> starter.run]
    /\ starter.step \in {"none", "upload", "start", "reply", "name"}

IInv == Shape /\ ClaimHeld /\ OneAttemptOnPrinter

LEMMA InitIInv == Init => IInv
<1> SUFFICES ASSUME Init PROVE IInv
    OBVIOUS
<1>1. attempt \in [Plates -> [stage : {"idle", "waiting"}, pk : {0}, progress : {Silent},
                              run : {0}, refused : {FALSE}]]
      /\ starter = NoStarter
    BY DEF Init
<1>2. Shape /\ ClaimHeld
    BY ONLY <1>1 DEF Shape, ClaimHeld, NoStarter
<1>3. OneAttemptOnPrinter
    BY ONLY <1>1 DEF OneAttemptOnPrinter, InStage
<1> QED BY <1>2, <1>3 DEF IInv

\* Steps of the printer and of the connection leave entries and starts alone.
LEMMA Elsewhere == IInv /\ UNCHANGED <<attempt, starter>> => IInv'
BY DEF IInv, Shape, ClaimHeld, OneAttemptOnPrinter, InStage

LEMMA StepIInv == IInv /\ [Next]_vars => IInv'
<1> SUFFICES ASSUME IInv, [Next]_vars PROVE IInv'
    OBVIOUS
<1> USE DEF IInv
<1>1. CASE UNCHANGED vars
    BY <1>1, Elsewhere DEF vars, database, requests
<1>2. CASE Printing
    BY <1>2, Elsewhere DEF Printing, StartedAtPrinter, PrintBegins, PrintProgresses, PrintEnds,
                           FirmwareRestart, database, requests
<1>3. CASE Working
    <2>1. CASE Disconnect \/ TaskLost \/ Connect \/ Subscribed \/ Receive
        BY <2>1, Elsewhere DEF Disconnect, TaskLost, LoseConnection, Connect, Subscribed, Receive,
                               database, requests
    <2>2. CASE Adopt
        <3>1. starter' = starter
            BY <2>2 DEF Adopt, requests
        <3>2. \/ UNCHANGED attempt
              \/ \E p \in Plates : \E run : PrinterFree /\ MarkedStarted(p, run)
            BY <2>2 DEF Adopt, UnambiguousMatch, Matches, InStage
        <3>3. CASE UNCHANGED attempt
            BY <3>1, <3>3, Elsewhere
        <3>4. ASSUME NEW p \in Plates, NEW run, PrinterFree, MarkedStarted(p, run) PROVE IInv'
            BY <3>1, <3>4 DEF MarkedStarted, PrinterFree, Shape, ClaimHeld, OneAttemptOnPrinter, InStage
        <3> QED BY <3>2, <3>3, <3>4
    <2>3. CASE Apply
        BY <2>3 DEF Apply, HandleStatusUpdate, HandleHistoryChanged, TransitionToReview, StillPrinting,
                    requests, Shape, ClaimHeld, OneAttemptOnPrinter, InStage
    <2> QED BY <1>3, <2>1, <2>2, <2>3 DEF Working
<1>4. CASE Starting
    <2>1. ASSUME NEW p \in Plates, Claim(p) PROVE IInv'
        BY <2>1 DEF Claim, Shape, ClaimHeld, OneAttemptOnPrinter, InStage
    <2>2. CASE Upload \/ PrinterAccepts
        BY <2>2 DEF Upload, PrinterAccepts, database, Shape, ClaimHeld, OneAttemptOnPrinter, InStage
    <2>3. CASE StartFails
        BY <2>3 DEF StartFails, NoStarter, Shape, ClaimHeld, OneAttemptOnPrinter, InStage
    <2>4. CASE RecordStarted
        BY <2>4 DEF RecordStarted, MarkedStarted, Shape, ClaimHeld, OneAttemptOnPrinter, InStage
    <2>5. CASE RecordName \/ StarterDies
        BY <2>5 DEF RecordName, StarterDies, NoStarter, database, Shape, ClaimHeld,
                    OneAttemptOnPrinter, InStage
    <2>6. ASSUME NEW p \in Plates, ClaimExpires(p) PROVE IInv'
        BY <2>6 DEF ClaimExpires, requests, Shape, ClaimHeld, OneAttemptOnPrinter, InStage
    <2> QED BY <1>4, <2>1, <2>2, <2>3, <2>4, <2>5, <2>6 DEF Starting
<1>5. CASE Managing
    <2>1. ASSUME NEW p \in Plates, Enqueue(p) PROVE IInv'
        BY <2>1 DEF Enqueue, NewAttempt, requests, Shape, ClaimHeld, OneAttemptOnPrinter, InStage
    <2>2. ASSUME NEW p \in Plates, CancelPrint(p) PROVE IInv'
        BY <2>2 DEF CancelPrint, Shape, ClaimHeld, OneAttemptOnPrinter, InStage
    <2>3. CASE MarkCancelled
        BY <2>3 DEF MarkCancelled, Shape, ClaimHeld, OneAttemptOnPrinter, InStage
    <2>4. ASSUME NEW p \in Plates, NEW retry \in BOOLEAN, Review(p, retry) PROVE IInv'
        BY <2>4 DEF Review, NewAttempt, NoAttempt, requests, Shape, ClaimHeld, OneAttemptOnPrinter, InStage
    <2>5. ASSUME NEW p \in Plates, RemoveEntry(p) PROVE IInv'
        BY <2>5 DEF RemoveEntry, NoAttempt, requests, Shape, ClaimHeld, OneAttemptOnPrinter, InStage
    <2> QED BY <1>5, <2>1, <2>2, <2>3, <2>4, <2>5 DEF Managing
<1> QED BY <1>1, <1>2, <1>3, <1>4, <1>5 DEF Next

\* OneAttemptOnPrinter, for any plates, file names, delays and losses.
THEOREM OneAttempt == Spec => []OneAttemptOnPrinter
<1>1. Init => IInv
    BY InitIInv
<1>2. IInv /\ [Next]_vars => IInv'
    BY StepIInv
<1>3. IInv => OneAttemptOnPrinter
    BY DEF IInv
<1> QED BY <1>1, <1>2, <1>3, PTL DEF Spec

-----------------------------------------------------------------------------
(* Attempts end with their print.                                          *)

Row == [stage : Stages, pk : Nat, progress : {0, 1, Silent}, run : Nat, refused : BOOLEAN]

\* Types, without the bounds.
Types ==
    /\ attempt \in [Plates -> Row]
    /\ nextPk \in Nat
    /\ starter \in [step : {"none", "upload", "start", "reply", "name"}, plate : Plates \cup {NoPlate}, run : Nat]
    /\ canceller \in (Plates \cup {NoPlate}) \X Nat
    /\ disk \in [Files -> Plates \cup {NoPlate}]
    /\ printer \in [state : {"standby", "loading", "printing", "over"}, file : Files \cup {NoFile},
                    progress : {0, 1}, run : Nat, gcode : Plates \cup {NoPlate}]

Messages == [kind : {"status", "added", "finished"}, state : {"standby", "printing", "over", Silent},
             file : Files \cup {NoFile, Silent}, progress : {0, 1, Silent}, run : Nat,
             gcode : Plates \cup {NoPlate}]

LinkTypes ==
    /\ wire \in Seq(Messages)
    /\ handler.step \in {"none", "adopt", "apply"} /\ handler.msg \in Messages
    /\ handler.step = "apply" => handler.plate \in Plates

\* A primary key is of one attempt, which is printing only once.
Used(p, pk) == pk \in Nat /\ pk < nextPk /\ (attempt[p].pk = pk => attempt[p].stage \in {"printing", "review", "idle"})

KeysKnown ==
    /\ \A p \in Plates : attempt[p].pk < nextPk
    /\ handler.step = "apply" => Used(handler.plate, handler.pk)
    /\ canceller[1] # NoPlate => Used(canceller[1], canceller[2])

\* No attempt is of a print that is still to come.
RunsHaveBegun ==
    /\ \A p \in Plates : attempt[p].run <= printer.run
    /\ starter.run <= printer.run

\* Notifications arrive in the order of the prints they are about.
RunsInOrder ==
    /\ \A i \in DOMAIN wire : handler.msg.run <= wire[i].run /\ wire[i].run <= printer.run
    /\ \A i, k \in DOMAIN wire : i < k => wire[i].run <= wire[k].run
    /\ handler.msg.run <= printer.run

OnItsWay(m) == m = handler.msg \/ \E i \in DOMAIN wire : m = wire[i]

\* What reports an end is true.
EndsAreOver ==
    \A m \in Messages : OnItsWay(m) /\ m.run = printer.run /\ (m.state = "over" \/ m.kind = "finished") => ~Running

\* While a print is recorded, nothing about an earlier one is on its way.
Recording(p) == attempt[p].stage = "printing" /\ Current(p)

NothingOlder ==
    \A p \in Plates : Recording(p) => \A m \in Messages : OnItsWay(m) => m = NoMessage \/ m.run = printer.run

\* The standby before a print is reported before any of its progress.
Standby(m)  == m.state = "standby" /\ m.run = printer.run
Progress(m) == m.progress = 1 /\ m.run = printer.run

StandbyFirst ==
    /\ printer.state = "loading" => printer.progress = 0 /\ \A m \in Messages : OnItsWay(m) => ~Progress(m)
    /\ Running =>
          \A k \in DOMAIN wire : Standby(wire[k]) =>
              ~Progress(handler.msg) /\ \A i \in DOMAIN wire : i < k => ~Progress(wire[i])
    /\ \A p \in Plates : Recording(p) /\ attempt[p].progress = 1 =>
          printer.state # "loading" /\ \A m \in Messages : OnItsWay(m) => ~Standby(m)
    /\ handler.step = "apply" /\ StillPrinting(handler) => handler.progress = attempt[handler.plate].progress

\* A print whose cancel request was accepted has ended.
CancelledIsOver ==
    LET p == canceller[1]
    IN  p # NoPlate /\ attempt[p].pk = canceller[2] /\ Recording(p) => attempt[p].refused

EndInv ==
    /\ Types /\ LinkTypes
    /\ KeysKnown
    /\ RunsHaveBegun
    /\ RunsInOrder
    /\ EndsAreOver
    /\ NothingOlder
    /\ StandbyFirst
    /\ CancelledIsOver
    /\ EndedPrintsAreOver

LEMMA MessageShape ==
  ASSUME NEW m \in Messages
  PROVE  /\ m.kind \in {"status", "added", "finished"} /\ m.state \in {"standby", "printing", "over", Silent}
         /\ m.file \in Files \cup {NoFile, Silent} /\ m.progress \in {0, 1, Silent}
         /\ m.run \in Nat /\ m.gcode \in Plates \cup {NoPlate}
BY DEF Messages

LEMMA NoMessageTyped ==
  /\ NoMessage \in Messages /\ NoMessage.kind = "status" /\ NoMessage.state = Silent
  /\ NoMessage.file = Silent /\ NoMessage.progress = Silent /\ NoMessage.run = 0
BY DEF NoMessage, Messages

LEMMA SilentIsNothing == Silent \notin {"standby", "printing", "over", 0, 1, NoFile}
BY PrinterSyncAssumption

LEMMA RestingFields == Resting.step = "none" /\ Resting.msg = NoMessage
BY DEF Resting

\* The records that notifications are made of.
LEMMA StatusRecord ==
  ASSUME NEW state, NEW file, NEW progress
  PROVE  StatusUpdate(state, file, progress)
           = [kind |-> "status", state |-> state, file |-> file, progress |-> progress,
              run |-> printer'.run, gcode |-> printer'.gcode]
<1> DEFINE Rec(s, f, p, r, g) ==
               [kind |-> "status", state |-> s, file |-> f, progress |-> p, run |-> r, gcode |-> g]
           a == [NoMessage EXCEPT !.state = state]
           b == [a EXCEPT !.file = file]
           c == [b EXCEPT !.progress = progress]
           d == [c EXCEPT !.run = printer'.run]
<1>1. a = Rec(state, Silent, Silent, 0, NoPlate)
    BY DEF NoMessage
<1>2. StatusUpdate(state, file, progress) = [d EXCEPT !.gcode = printer'.gcode]
    BY DEF StatusUpdate, About
<1> HIDE DEF a
<1>3. b = Rec(state, file, Silent, 0, NoPlate)
    BY <1>1
<1> HIDE DEF b
<1>4. c = Rec(state, file, progress, 0, NoPlate)
    BY <1>3
<1> HIDE DEF c
<1>5. d = Rec(state, file, progress, printer'.run, NoPlate)
    BY <1>4
<1> HIDE DEF d
<1> QED BY <1>2, <1>5

LEMMA HistoryRecord ==
  ASSUME NEW action
  PROVE  HistoryChanged(action)
           = [kind |-> action, state |-> Silent, file |-> printer.file, progress |-> Silent,
              run |-> printer'.run, gcode |-> printer'.gcode]
<1> DEFINE Rec(f, r, g) ==
               [kind |-> action, state |-> Silent, file |-> f, progress |-> Silent, run |-> r, gcode |-> g]
           a == [NoMessage EXCEPT !.kind = action]
           b == [a EXCEPT !.file = printer.file]
           c == [b EXCEPT !.run = printer'.run]
<1>1. a = Rec(Silent, 0, NoPlate)
    BY DEF NoMessage
<1>2. HistoryChanged(action) = [c EXCEPT !.gcode = printer'.gcode]
    BY DEF HistoryChanged, About
<1> HIDE DEF a
<1>3. b = Rec(printer.file, 0, NoPlate)
    BY <1>1
<1> HIDE DEF b
<1>4. c = Rec(printer.file, printer'.run, NoPlate)
    BY <1>3
<1> HIDE DEF c
<1> QED BY <1>2, <1>4

\* The wire grows at its end, by messages of S.
Reported(S) ==
    /\ wire' \in Seq(Messages) /\ Len(wire') >= Len(wire)
    /\ \A i \in DOMAIN wire : wire'[i] = wire[i]
    /\ \A i \in DOMAIN wire' : i \in DOMAIN wire \/ (i > Len(wire) /\ wire'[i] \in S)

LEMMA SendReports ==
  ASSUME NEW m \in Messages, wire \in Seq(Messages), Send(m)
  PROVE  Reported({m})
<1>1. CASE IsSent(m)
    <2>1. wire' = Append(wire, m)
        BY <1>1 DEF Send, Sent
    <2> QED BY <2>1 DEF Reported
<1>2. CASE ~IsSent(m)
    <2>1. wire' = wire
        BY <1>2 DEF Send, Sent
    <2> QED BY <2>1 DEF Reported
<1> QED BY <1>1, <1>2

LEMMA SendBothReports ==
  ASSUME NEW a \in Messages, NEW b \in Messages, wire \in Seq(Messages), SendBoth(a, b)
  PROVE  Reported({a, b})
<1>1. ASSUME NEW m \in {a, b}, NEW n \in {a, b}, wire' = wire \o Sent(m) \o Sent(n) PROVE Reported({a, b})
    <2>1. CASE IsSent(m) /\ IsSent(n)
        <3>1. wire \o <<m>> = Append(wire, m) /\ Append(wire, m) \in Seq(Messages)
            OBVIOUS
        <3>2. Append(wire, m) \o <<n>> = Append(Append(wire, m), n)
            BY <3>1
        <3>3. wire' = Append(Append(wire, m), n)
            BY <1>1, <2>1, <3>1, <3>2 DEF Sent
        <3> QED BY <3>1, <3>3 DEF Reported
    <2>2. CASE IsSent(m) /\ ~IsSent(n)
        <3>1. wire' = Append(wire, m)
            BY <1>1, <2>2 DEF Sent
        <3> QED BY <3>1 DEF Reported
    <2>3. CASE ~IsSent(m) /\ IsSent(n)
        <3>1. wire' = Append(wire, n)
            BY <1>1, <2>3 DEF Sent
        <3> QED BY <3>1 DEF Reported
    <2>4. CASE ~IsSent(m) /\ ~IsSent(n)
        <3>1. wire' = wire
            BY <1>1, <2>4 DEF Sent
        <3> QED BY <3>1 DEF Reported
    <2> QED BY <2>1, <2>2, <2>3, <2>4
<1> QED BY <1>1 DEF SendBoth

\* A step by which the printer, now at its print r, reports the messages of S.
LEMMA ReportsInOrder ==
  ASSUME LinkTypes, RunsInOrder, UNCHANGED handler, printer.run \in Nat, printer'.run \in Nat,
         printer'.run >= printer.run, NEW S, Reported(S), \A m \in S : m.run = printer'.run
  PROVE  /\ LinkTypes' /\ RunsInOrder'
         /\ \A m : OnItsWay(m)' => OnItsWay(m) \/ m \in S
<1>1. LinkTypes'
    BY DEF LinkTypes, Reported
<1>2. \A i \in DOMAIN wire : wire[i] \in Messages /\ wire[i].run \in Nat /\ wire[i].run <= printer.run
    BY MessageShape DEF LinkTypes, RunsInOrder
<1>3. handler.msg.run \in Nat /\ handler.msg.run <= printer.run
    BY MessageShape DEF LinkTypes, RunsInOrder
<1>4. \A i \in DOMAIN wire' : \/ i \in DOMAIN wire /\ wire'[i] = wire[i]
                              \/ i > Len(wire) /\ wire'[i] \in S /\ wire'[i].run = printer'.run
    BY DEF Reported
<1>5. \A i \in DOMAIN wire' : handler.msg.run <= wire'[i].run /\ wire'[i].run <= printer'.run
    BY <1>2, <1>3, <1>4 DEF RunsInOrder
<1>6. \A i, k \in DOMAIN wire' : i < k => wire'[i].run <= wire'[k].run
    <2> SUFFICES ASSUME NEW i \in DOMAIN wire', NEW k \in DOMAIN wire', i < k PROVE wire'[i].run <= wire'[k].run
        OBVIOUS
    <2>1. DOMAIN wire = 1..Len(wire) /\ DOMAIN wire' = 1..Len(wire') /\ Len(wire) \in Nat /\ Len(wire') \in Nat
        BY <1>1 DEF LinkTypes
    <2>2. CASE k \in DOMAIN wire
        <3>1. i \in DOMAIN wire
            BY <2>1, <2>2
        <3> QED BY <3>1, <2>2, <1>4, <2>1 DEF RunsInOrder
    <2>3. CASE k \notin DOMAIN wire
        BY <2>3, <1>2, <1>4
    <2> QED BY <2>2, <2>3
<1>7. RunsInOrder'
    BY <1>3, <1>5, <1>6 DEF RunsInOrder
<1>8. \A m : OnItsWay(m)' => OnItsWay(m) \/ m \in S
    BY <1>4 DEF OnItsWay
<1> QED BY <1>1, <1>7, <1>8

\* A print is loaded: whatever is known is about earlier ones.
LEMMA LoadKeeps ==
  ASSUME EndInv, NEW file \in Files, Load(file), UNCHANGED <<database, canceller, disk, handler>>,
         starter' \in [step : {"none", "upload", "start", "reply", "name"}, plate : Plates \cup {NoPlate}, run : Nat],
         starter'.run <= printer'.run
  PROVE  EndInv'
<1>1. /\ printer' = [state |-> "loading", file |-> file, progress |-> 0, run |-> printer.run + 1,
                     gcode |-> disk[file]]
      /\ ~Running
    BY DEF Load
<1>2. PICK known \in Files \cup {NoFile, Silent} : Send(StatusUpdate("standby", known, 0))
    BY DEF Load
<1> DEFINE m == StatusUpdate("standby", known, 0)
<1>3. m = [kind |-> "status", state |-> "standby", file |-> known, progress |-> 0, run |-> printer'.run,
           gcode |-> printer'.gcode]
    BY StatusRecord
<1> HIDE DEF m
<1>4. printer.run \in Nat /\ disk[file] \in Plates \cup {NoPlate} /\ wire \in Seq(Messages) /\ nextPk \in Nat
      /\ \A p \in Plates : attempt[p].run \in Nat
    BY DEF EndInv, Types, Row, LinkTypes
<1>5. m \in Messages /\ m.run = printer'.run /\ m.state = "standby" /\ m.kind = "status" /\ m.progress = 0
    BY <1>1, <1>3, <1>4 DEF Messages
<1>6. Reported({m})
    BY <1>2, <1>4, <1>5, SendReports DEF m
<1>7. /\ attempt' = attempt /\ nextPk' = nextPk /\ canceller' = canceller /\ handler' = handler /\ disk' = disk
      /\ printer'.run = printer.run + 1 /\ printer'.state = "loading" /\ printer'.progress = 0
    BY <1>1 DEF database
<1>8. /\ LinkTypes' /\ RunsInOrder'
      /\ \A n : OnItsWay(n)' => OnItsWay(n) \/ n = m
    BY <1>4, <1>5, <1>6, <1>7, ReportsInOrder DEF EndInv
<1>9. Types'
    BY <1>1, <1>4, <1>7 DEF EndInv, Types
<1>10. KeysKnown' /\ RunsHaveBegun'
    BY <1>4, <1>7 DEF EndInv, KeysKnown, RunsHaveBegun, Used
<1>11. \A n : OnItsWay(n) => n.run \in Nat /\ n.run <= printer.run
    BY MessageShape DEF EndInv, LinkTypes, RunsInOrder, OnItsWay
<1>12. \A n : OnItsWay(n)' /\ n.run = printer'.run => n = m
    BY <1>4, <1>7, <1>8, <1>11
<1>13. EndsAreOver'
    BY <1>5, <1>12, SilentIsNothing DEF EndsAreOver
<1>14. \A p \in Plates : ~Current(p)' /\ ~Recording(p)'
    BY <1>4, <1>7 DEF EndInv, RunsHaveBegun, Current, Recording
<1>15. NothingOlder' /\ CancelledIsOver' /\ EndedPrintsAreOver'
    BY <1>14, <1>7 DEF NothingOlder, EndedPrintsAreOver, InStage, CancelledIsOver, EndInv, Types
<1>16. \A n : OnItsWay(n)' => ~(n.progress = 1 /\ n.run = printer'.run)
    BY <1>5, <1>12
<1>17. StandbyFirst'
    <2>1. handler.step = "apply" /\ StillPrinting(handler) => handler.progress = attempt[handler.plate].progress
        BY DEF EndInv, StandbyFirst
    <2>2. ~Progress(handler.msg)' /\ \A i \in DOMAIN wire' : ~Progress(wire[i])'
        BY <1>16 DEF Progress, OnItsWay
    <2> QED BY <2>1, <2>2, <1>7, <1>14, <1>16 DEF StandbyFirst, Progress, StillPrinting
<1> QED BY <1>8, <1>9, <1>10, <1>13, <1>15, <1>17 DEF EndInv

\* The other steps of a print: what is reported is about it and, while it runs, neither
\* a standby after progress nor an end.
LEMMA PrintKeeps ==
  ASSUME EndInv, UNCHANGED <<database, starter, disk, handler>>,
         canceller' = canceller \/ (~Running' /\ \E p \in Plates : canceller' = <<p, attempt[p].pk>>
                                                                /\ attempt[p].stage = "printing"),
         printer'.run = printer.run,
         printer' \in [state : {"standby", "loading", "printing", "over"}, file : Files \cup {NoFile},
                       progress : {0, 1}, run : Nat, gcode : Plates \cup {NoPlate}],
         Running' => Running, printer'.state = "loading" => printer.state = "loading" /\ printer'.progress = 0,
         NEW S \in SUBSET Messages, Reported(S), \A m \in S : m.run = printer'.run,
         \A m \in S : m.state = "over" \/ m.kind = "finished" => ~Running',
         \A m \in S : m.state = "standby" => ~Running' \/ (printer'.state = "loading" /\ printer.state = "loading"),
         \A m \in S : m.progress = 1 => printer'.state # "loading"
  PROVE  EndInv'
<1>1. /\ attempt' = attempt /\ nextPk' = nextPk /\ handler' = handler /\ disk' = disk
      /\ starter' = starter /\ printer'.run = printer.run /\ printer.run \in Nat
    BY DEF database, EndInv, Types
<1>2. /\ LinkTypes' /\ RunsInOrder'
      /\ \A n : OnItsWay(n)' => OnItsWay(n) \/ n \in S
    BY <1>1, ReportsInOrder DEF EndInv
<1>3. Types' /\ KeysKnown' /\ RunsHaveBegun'
    BY <1>1 DEF EndInv, Types, Row, KeysKnown, RunsHaveBegun, Used
<1>4. EndsAreOver'
    BY <1>1, <1>2 DEF EndInv, EndsAreOver, Running
<1>5. \A p \in Plates : Current(p)' => Current(p)
    BY <1>1 DEF Current, Running
<1>6. NothingOlder'
    BY <1>1, <1>2, <1>5 DEF EndInv, NothingOlder, Recording
<1>7. CancelledIsOver' /\ EndedPrintsAreOver'
    <2>1. EndedPrintsAreOver'
        BY <1>1, <1>5 DEF EndInv, EndedPrintsAreOver, InStage
    <2>2. CASE canceller' = canceller
        BY <1>1, <1>5, <2>1, <2>2 DEF EndInv, CancelledIsOver, Recording, Types
    <2>3. CASE ~Running'
        BY <2>1, <2>3 DEF CancelledIsOver, Recording, Current
    <2> QED BY <2>2, <2>3
<1>8. StandbyFirst'
    <2>1. printer'.state = "loading" =>
             printer'.progress = 0 /\ \A m \in Messages : OnItsWay(m)' => ~Progress(m)'
        BY <1>1, <1>2 DEF EndInv, StandbyFirst, Progress
    <2>2. ASSUME Running', NEW k \in DOMAIN wire', Standby(wire[k])'
          PROVE  ~Progress(handler.msg)' /\ \A i \in DOMAIN wire' : i < k => ~Progress(wire[i])'
        <3>1. DOMAIN wire = 1..Len(wire) /\ DOMAIN wire' = 1..Len(wire') /\ Len(wire) \in Nat /\ Len(wire') \in Nat
            BY <1>2 DEF EndInv, LinkTypes
        <3>2. CASE k \in DOMAIN wire
            <4>1. \A i \in DOMAIN wire' : i < k => i \in DOMAIN wire /\ wire'[i] = wire[i]
                BY <3>1, <3>2 DEF Reported
            <4> QED BY <1>1, <2>2, <3>2, <4>1 DEF EndInv, StandbyFirst, Standby, Progress, Reported
        <3>3. CASE k \notin DOMAIN wire
            <4>1. printer'.state = "loading"
                BY <2>2, <3>3 DEF Reported, Standby
            <4>2. /\ (handler.msg \in Messages /\ OnItsWay(handler.msg))'
                  /\ (\A i \in DOMAIN wire : wire[i] \in Messages /\ OnItsWay(wire[i]))'
                BY <1>2 DEF LinkTypes, OnItsWay
            <4> QED BY <1>1, <2>1, <4>1, <4>2 DEF Progress
        <3> QED BY <3>2, <3>3
    <2>3. ASSUME NEW p \in Plates, Recording(p)', attempt'[p].progress = 1
          PROVE  printer'.state # "loading" /\ \A m \in Messages : OnItsWay(m)' => ~Standby(m)'
        <3>1. Recording(p) /\ attempt[p].progress = 1 /\ Running'
            BY <1>1, <1>5, <2>3 DEF Recording, Current
        <3> QED BY <1>1, <1>2, <3>1 DEF EndInv, StandbyFirst, Standby
    <2>4. handler'.step = "apply" /\ StillPrinting(handler)' => handler'.progress = attempt'[handler'.plate].progress
        BY <1>1 DEF EndInv, StandbyFirst, StillPrinting
    <2> QED BY <2>1, <2>2, <2>3, <2>4 DEF StandbyFirst
<1> QED BY <1>2, <1>3, <1>4, <1>6, <1>7, <1>8 DEF EndInv

\* The record of the printer after a step that changes one or three of its fields.
LEMMA PrinterRecord ==
  ASSUME Types, NEW state \in {"standby", "loading", "printing", "over"}, NEW progress \in {0, 1}
  PROVE  /\ [printer EXCEPT !.state = state]
              = [state |-> state, file |-> printer.file, progress |-> printer.progress,
                 run |-> printer.run, gcode |-> printer.gcode]
         /\ [printer EXCEPT !.progress = progress]
              = [state |-> printer.state, file |-> printer.file, progress |-> progress,
                 run |-> printer.run, gcode |-> printer.gcode]
         /\ [printer EXCEPT !.state = state, !.file = NoFile, !.progress = progress]
              = [state |-> state, file |-> NoFile, progress |-> progress,
                 run |-> printer.run, gcode |-> printer.gcode]
         /\ printer.state \in {"standby", "loading", "printing", "over"} /\ printer.progress \in {0, 1}
         /\ printer.file \in Files \cup {NoFile} /\ printer.run \in Nat /\ printer.gcode \in Plates \cup {NoPlate}
<1>1. printer = [state |-> printer.state, file |-> printer.file, progress |-> printer.progress,
                 run |-> printer.run, gcode |-> printer.gcode]
    BY DEF Types
<1> DEFINE a == [printer EXCEPT !.state = state]
           b == [a EXCEPT !.file = NoFile]
<1>2. a = [state |-> state, file |-> printer.file, progress |-> printer.progress,
           run |-> printer.run, gcode |-> printer.gcode]
    BY <1>1
<1>3. [printer EXCEPT !.state = state, !.file = NoFile, !.progress = progress] = [b EXCEPT !.progress = progress]
    OBVIOUS
<1>4. [printer EXCEPT !.progress = progress]
              = [state |-> printer.state, file |-> printer.file, progress |-> progress,
                 run |-> printer.run, gcode |-> printer.gcode]
    BY <1>1
<1>5. b = [state |-> state, file |-> NoFile, progress |-> printer.progress,
           run |-> printer.run, gcode |-> printer.gcode]
    <2> HIDE DEF a
    <2> QED BY <1>2
<1>6. [b EXCEPT !.progress = progress] = [state |-> state, file |-> NoFile, progress |-> progress,
                                          run |-> printer.run, gcode |-> printer.gcode]
    <2> HIDE DEF b
    <2> QED BY <1>5
<1>7. /\ printer.state \in {"standby", "loading", "printing", "over"} /\ printer.progress \in {0, 1}
      /\ printer.file \in Files \cup {NoFile} /\ printer.run \in Nat /\ printer.gcode \in Plates \cup {NoPlate}
    BY DEF Types
<1> HIDE DEF b
<1> QED BY <1>2, <1>3, <1>4, <1>6, <1>7

LEMMA StatusTyped ==
  ASSUME NEW state \in {"standby", "printing", "over", Silent}, NEW file \in Files \cup {NoFile, Silent},
         NEW progress \in {0, 1, Silent}, printer'.run \in Nat, printer'.gcode \in Plates \cup {NoPlate}
  PROVE  LET m == StatusUpdate(state, file, progress)
         IN  /\ m \in Messages /\ m.kind = "status" /\ m.state = state /\ m.progress = progress
             /\ m.run = printer'.run
BY StatusRecord DEF Messages

LEMMA HistoryTyped ==
  ASSUME NEW action \in {"added", "finished"}, printer.file \in Files \cup {NoFile},
         printer'.run \in Nat, printer'.gcode \in Plates \cup {NoPlate}
  PROVE  LET m == HistoryChanged(action)
         IN  /\ m \in Messages /\ m.kind = action /\ m.state = Silent /\ m.progress = Silent
             /\ m.run = printer'.run
BY HistoryRecord DEF Messages

LEMMA PrintBeginsKeeps ==
  ASSUME EndInv, PrintBegins
  PROVE  EndInv'
<1> DEFINE a == StatusUpdate("printing", Silent, Silent)
           b == HistoryChanged("added")
<1>1. /\ printer.state = "loading" /\ SendBoth(a, b) /\ UNCHANGED <<database, canceller, starter, disk, handler>>
      /\ printer' = [state |-> "printing", file |-> printer.file, progress |-> printer.progress,
                     run |-> printer.run, gcode |-> printer.gcode]
    BY PrinterRecord DEF PrintBegins, requests, EndInv
<1>2. a \in Messages /\ b \in Messages /\ \A m \in {a, b} : /\ m.run = printer'.run /\ m.state # "over"
         /\ m.kind # "finished" /\ m.state # "standby" /\ m.progress # 1
    BY <1>1, StatusTyped, HistoryTyped, PrinterRecord, SilentIsNothing DEF EndInv
<1> HIDE DEF a, b
<1>3. Reported({a, b})
    BY <1>1, <1>2, SendBothReports DEF EndInv, LinkTypes
<1> QED BY <1>1, <1>2, <1>3, PrintKeeps, PrinterRecord DEF Running, EndInv

LEMMA PrintProgressesKeeps ==
  ASSUME EndInv, PrintProgresses
  PROVE  EndInv'
<1> DEFINE a == StatusUpdate(Silent, Silent, 1)
<1>1. /\ printer.state = "printing" /\ Send(a) /\ UNCHANGED <<database, canceller, starter, disk, handler>>
      /\ printer' = [state |-> printer.state, file |-> printer.file, progress |-> 1,
                     run |-> printer.run, gcode |-> printer.gcode]
    BY PrinterRecord DEF PrintProgresses, requests, EndInv
<1>2. a \in Messages /\ a.run = printer'.run /\ a.state # "over" /\ a.kind # "finished" /\ a.state # "standby"
    BY <1>1, StatusTyped, PrinterRecord, SilentIsNothing DEF EndInv
<1> HIDE DEF a
<1>3. Reported({a})
    BY <1>1, <1>2, SendReports DEF EndInv, LinkTypes
<1> QED BY <1>1, <1>2, <1>3, PrintKeeps, PrinterRecord DEF Running, EndInv

\* The print has ended, and whoever asked for it has been answered.
LEMMA StopKeeps ==
  ASSUME EndInv, Running, Stop, UNCHANGED <<database, starter, disk, handler>>,
         UNCHANGED canceller \/ \E p \in Plates : canceller' = <<p, attempt[p].pk>> /\ attempt[p].stage = "printing"
  PROVE  EndInv' /\ ~Running'
<1> DEFINE a == StatusUpdate("over", Silent, Silent)
           b == HistoryChanged("finished")
<1>1. /\ SendBoth(a, b)
      /\ printer' = [state |-> "over", file |-> printer.file, progress |-> printer.progress,
                     run |-> printer.run, gcode |-> printer.gcode]
    BY PrinterRecord DEF Stop, EndInv
<1>2. a \in Messages /\ b \in Messages /\ \A m \in {a, b} : m.run = printer'.run /\ m.state # "standby" /\ m.progress # 1
    BY <1>1, StatusTyped, HistoryTyped, PrinterRecord, SilentIsNothing DEF EndInv
<1> HIDE DEF a, b
<1>3. Reported({a, b})
    BY <1>1, <1>2, SendBothReports DEF EndInv, LinkTypes
<1> QED BY <1>1, <1>2, <1>3, PrintKeeps, PrinterRecord DEF Running, EndInv

LEMMA FirmwareRestartKeeps ==
  ASSUME EndInv, FirmwareRestart
  PROVE  EndInv'
<1> DEFINE a == HistoryChanged("finished")
<1>1. /\ UNCHANGED <<database, canceller, starter, disk, handler>>
      /\ printer' = [state |-> "standby", file |-> NoFile, progress |-> 0,
                     run |-> printer.run, gcode |-> printer.gcode]
      /\ Send(a) \/ UNCHANGED wire
      /\ Running
    BY PrinterRecord DEF FirmwareRestart, requests, EndInv
<1>2. a \in Messages /\ a.run = printer'.run /\ a.state # "standby" /\ a.progress # 1
    BY <1>1, HistoryTyped, PrinterRecord, SilentIsNothing DEF EndInv
<1> HIDE DEF a
<1>3. Reported({a})
    BY <1>1, <1>2, SendReports DEF EndInv, LinkTypes, Reported
<1> QED BY <1>1, <1>2, <1>3, PrintKeeps, PrinterRecord DEF Running, EndInv

LEMMA SubscribedKeeps ==
  ASSUME EndInv, Subscribed
  PROVE  EndInv'
<1> DEFINE state == CASE printer'.state = "over" -> Silent [] printer'.state = "loading" -> "standby"
                      [] OTHER -> printer'.state
           a == StatusUpdate(state, printer'.file, printer'.progress)
<1>1. /\ wire' = Append(wire, a) /\ printer' = printer /\ UNCHANGED <<database, canceller, starter, disk, handler>>
    BY DEF Subscribed, Snapshot, requests
<1>2. state \in {"standby", "printing", Silent} /\ (state = "standby" => printer.state \in {"standby", "loading"})
    BY <1>1, PrinterRecord, SilentIsNothing DEF EndInv
<1> HIDE DEF state
<1>3. a \in Messages /\ a.kind = "status" /\ a.state = state /\ a.progress = printer.progress /\ a.run = printer'.run
    BY <1>1, <1>2, StatusTyped, PrinterRecord DEF EndInv
<1> HIDE DEF a
<1>4. Reported({a})
    BY <1>1, <1>3 DEF EndInv, LinkTypes, Reported
<1>5. printer.state = "loading" => printer.progress = 0
    BY DEF EndInv, StandbyFirst
<1>6. printer \in [state : {"standby", "loading", "printing", "over"}, file : Files \cup {NoFile},
                   progress : {0, 1}, run : Nat, gcode : Plates \cup {NoPlate}]
    BY DEF EndInv, Types
<1> QED BY <1>1, <1>2, <1>3, <1>4, <1>5, <1>6, PrintKeeps, SilentIsNothing DEF Running

\* A step by which notifications are only lost or taken from the wire.
LEMMA FewerKeeps ==
  ASSUME EndInv, UNCHANGED <<database, canceller, starter, disk, printer>>, LinkTypes', RunsInOrder',
         \A m : OnItsWay(m)' => OnItsWay(m) \/ m = NoMessage,
         \A k \in DOMAIN wire' :
             Standby(wire[k])' =>
                 (Running => ~Progress(handler.msg)' /\ \A i \in DOMAIN wire' : i < k => ~Progress(wire[i])'),
         handler'.step = "apply" =>
             /\ handler'.pk \in Nat /\ handler'.pk < nextPk
             /\ (attempt[handler'.plate].pk = handler'.pk =>
                  /\ attempt[handler'.plate].stage \in {"printing", "review", "idle"}
                  /\ (attempt[handler'.plate].stage = "printing" =>
                         handler'.progress = attempt[handler'.plate].progress))
  PROVE  EndInv'
<1>1. /\ attempt' = attempt /\ nextPk' = nextPk /\ canceller' = canceller /\ disk' = disk /\ starter' = starter
      /\ printer' = printer
    BY DEF database
<1>2. Types' /\ KeysKnown' /\ RunsHaveBegun' /\ CancelledIsOver' /\ EndedPrintsAreOver'
    BY <1>1 DEF EndInv, Types, KeysKnown, Used, RunsHaveBegun, CancelledIsOver, EndedPrintsAreOver,
                Recording, Current, Running, InStage
<1>3. EndsAreOver' /\ NothingOlder'
    BY <1>1, NoMessageTyped, SilentIsNothing DEF EndInv, EndsAreOver, NothingOlder, Recording, Current, Running
<1>4. StandbyFirst'
    <2>1. printer.state = "loading" => printer.progress = 0 /\ \A m \in Messages : OnItsWay(m)' => ~Progress(m)'
        BY <1>1, NoMessageTyped, SilentIsNothing DEF EndInv, StandbyFirst, Progress
    <2>2. \A p \in Plates : Recording(p)' /\ attempt[p].progress = 1 =>
              printer.state # "loading" /\ \A m \in Messages : OnItsWay(m)' => ~Standby(m)'
        BY <1>1, NoMessageTyped, SilentIsNothing DEF EndInv, StandbyFirst, Standby, Recording, Current, Running
    <2> QED BY <1>1, <2>1, <2>2 DEF StandbyFirst, Running, StillPrinting
<1> QED BY <1>2, <1>3, <1>4 DEF EndInv

LEMMA LossKeeps ==
  ASSUME EndInv, Disconnect \/ TaskLost
  PROVE  EndInv'
<1>1. /\ wire' = <<>> /\ UNCHANGED <<database, canceller, starter, disk, printer>>
      /\ UNCHANGED handler \/ handler' = Resting
    BY DEF Disconnect, TaskLost, LoseConnection, requests, device
<1>2. LinkTypes' /\ RunsInOrder'
    <2>1. wire' \in Seq(Messages) /\ DOMAIN wire' = {}
        BY <1>1
    <2>2. Resting.step = "none" /\ Resting.msg = NoMessage /\ printer.run \in Nat
        BY DEF Resting, EndInv, Types
    <2> QED BY <1>1, <2>1, <2>2, NoMessageTyped DEF EndInv, LinkTypes, RunsInOrder
<1>3. \A m : OnItsWay(m)' => OnItsWay(m) \/ m = NoMessage
    BY <1>1 DEF OnItsWay, Resting
<1>4. handler'.step = "apply" => handler' = handler
    BY <1>1 DEF Resting
<1> QED BY <1>1, <1>2, <1>3, <1>4, FewerKeeps DEF EndInv, KeysKnown, Used, StandbyFirst, StillPrinting

LEMMA LoadedFields ==
  ASSUME NEW p \in Plates, NEW m
  PROVE  /\ Loaded(p, m).step = "apply" /\ Loaded(p, m).msg = m /\ Loaded(p, m).plate = p
         /\ Loaded(p, m).pk = attempt[p].pk /\ Loaded(p, m).progress = attempt[p].progress
BY DEF Loaded

LEMMA ReceiveKeeps ==
  ASSUME EndInv, Receive
  PROVE  EndInv'
<1> DEFINE m == Head(wire)
<1>1. /\ wire # <<>> /\ wire' = Tail(wire) /\ UNCHANGED <<database, canceller, starter, disk, printer>>
      /\ \/ \E p \in InStage("printing") : handler' = Loaded(p, m)
         \/ handler' = [Resting EXCEPT !.step = "adopt", !.msg = m]
    BY DEF Receive, requests, device
<1>2. wire \in Seq(Messages) /\ Len(wire) \in Nat /\ Len(wire) > 0 /\ DOMAIN wire = 1..Len(wire) /\ m = wire[1]
      /\ m \in Messages
    BY <1>1 DEF EndInv, LinkTypes
<1>3. wire' \in Seq(Messages) /\ DOMAIN wire' = 1..(Len(wire) - 1) /\ \A i \in DOMAIN wire' : wire'[i] = wire[i + 1]
    BY <1>1, <1>2
<1>4. \A p \in Plates : attempt[p].pk \in Nat /\ attempt[p].progress \in {0, 1, Silent} /\ attempt[p].pk < nextPk
    BY DEF EndInv, Types, Row, KeysKnown
<1> DEFINE r == [Resting EXCEPT !.step = "adopt", !.msg = m]
<1>5. r.step = "adopt" /\ r.msg = m
    BY DEF Resting
<1> HIDE DEF m, r
<1>6. /\ handler'.msg = m /\ handler'.step \in {"adopt", "apply"}
      /\ handler'.step = "apply" =>
           /\ handler'.plate \in InStage("printing") /\ handler'.pk = attempt[handler'.plate].pk
           /\ handler'.progress = attempt[handler'.plate].progress
    <2>1. CASE handler' = r
        BY <2>1, <1>5
    <2>2. ASSUME NEW p \in InStage("printing"), handler' = Loaded(p, m)
          PROVE  /\ handler'.msg = m /\ handler'.step = "apply" /\ handler'.plate = p
                 /\ handler'.pk = attempt[p].pk /\ handler'.progress = attempt[p].progress
        BY <2>2, LoadedFields DEF InStage
    <2> QED BY <1>1, <2>1, <2>2 DEF r
<1>7. LinkTypes'
    BY <1>2, <1>3, <1>6 DEF LinkTypes, InStage
<1>8. RunsInOrder'
    <2>1. \A i \in DOMAIN wire' : i + 1 \in DOMAIN wire /\ 1 \in DOMAIN wire /\ i \in Nat
        BY <1>2, <1>3
    <2>2. \A i \in DOMAIN wire' : wire[1].run <= wire[i + 1].run /\ wire[i + 1].run <= printer.run
        BY <1>2, <1>3, <2>1 DEF EndInv, RunsInOrder
    <2>3. \A i, k \in DOMAIN wire' : i < k => wire[i + 1].run <= wire[k + 1].run
        BY <1>2, <1>3, <2>1 DEF EndInv, RunsInOrder
    <2>4. wire[1].run <= printer.run
        BY <1>2 DEF EndInv, RunsInOrder
    <2> QED BY <1>1, <1>2, <1>3, <1>6, <2>2, <2>3, <2>4 DEF RunsInOrder
<1>9. \A n : OnItsWay(n)' => OnItsWay(n)
    BY <1>2, <1>3, <1>6 DEF OnItsWay
<1>10. ASSUME NEW k \in DOMAIN wire', Standby(wire[k])', Running
       PROVE  ~Progress(handler.msg)' /\ \A i \in DOMAIN wire' : i < k => ~Progress(wire[i])'
    <2>1. k + 1 \in DOMAIN wire /\ Standby(wire[k + 1]) /\ 1 < k + 1 /\ 1 \in DOMAIN wire
        BY <1>1, <1>2, <1>3, <1>10 DEF Standby
    <2>2. \A i \in DOMAIN wire : i < k + 1 => ~Progress(wire[i])
        BY <1>10, <2>1 DEF EndInv, StandbyFirst
    <2>3. ~Progress(wire[1])
        BY <2>1, <2>2
    <2>4. \A i \in DOMAIN wire' : i < k => ~Progress(wire[i + 1])
        BY <1>2, <1>3, <2>2
    <2> QED BY <1>1, <1>2, <1>3, <1>6, <2>3, <2>4 DEF Progress
<1> QED BY <1>1, <1>4, <1>6, <1>7, <1>8, <1>9, <1>10, FewerKeeps DEF InStage

\* Table d is f but for one row, which keeps its key and has these columns.
Changes(d, f, p, stage, progress, run, refused) ==
    /\ d \in [Plates -> Row] /\ \A q \in Plates \ {p} : d[q] = f[q]
    /\ d[p].stage = stage /\ d[p].pk = f[p].pk /\ d[p].progress = progress
    /\ d[p].run = run /\ d[p].refused = refused

LEMMA ChangedColumn ==
  ASSUME NEW f \in [Plates -> Row], NEW p \in Plates, NEW stage \in Stages,
         NEW progress \in {0, 1, Silent}, NEW run \in Nat
  PROVE  /\ Changes([f EXCEPT ![p].stage = stage], f, p, stage, f[p].progress, f[p].run, f[p].refused)
         /\ Changes([f EXCEPT ![p].progress = progress], f, p, f[p].stage, progress, f[p].run, f[p].refused)
         /\ Changes([f EXCEPT ![p].run = run], f, p, f[p].stage, f[p].progress, run, f[p].refused)
         /\ Changes([f EXCEPT ![p].refused = TRUE], f, p, f[p].stage, f[p].progress, f[p].run, TRUE)
<1>1. Changes([f EXCEPT ![p].stage = stage], f, p, stage, f[p].progress, f[p].run, f[p].refused)
    BY DEF Changes, Row
<1>2. Changes([f EXCEPT ![p].progress = progress], f, p, f[p].stage, progress, f[p].run, f[p].refused)
    BY DEF Changes, Row
<1>3. Changes([f EXCEPT ![p].run = run], f, p, f[p].stage, f[p].progress, run, f[p].refused)
    BY DEF Changes, Row
<1>4. Changes([f EXCEPT ![p].refused = TRUE], f, p, f[p].stage, f[p].progress, f[p].run, TRUE)
    BY DEF Changes, Row
<1> QED BY <1>1, <1>2, <1>3, <1>4

\* MarkedStarted changes three columns.
LEMMA StartedColumns ==
  ASSUME Types, NEW p \in Plates, NEW run \in Nat, MarkedStarted(p, run)
  PROVE  Changes(attempt', attempt, p, "printing", Silent, run, attempt[p].refused)
<1> DEFINE a == [attempt EXCEPT ![p].stage = "printing"]
           b == [a EXCEPT ![p].progress = Silent]
           c == [b EXCEPT ![p].run = run]
<1>1. attempt' = c
    BY DEF MarkedStarted
<1>2. attempt \in [Plates -> Row] /\ "printing" \in Stages
    BY DEF Types, Stages
<1>3. Changes(a, attempt, p, "printing", attempt[p].progress, attempt[p].run, attempt[p].refused)
    BY <1>2, ChangedColumn
<1> HIDE DEF a
<1>4. Changes(b, a, p, "printing", Silent, attempt[p].run, attempt[p].refused)
    <2>1. a \in [Plates -> Row] /\ a[p].stage = "printing" /\ a[p].run = attempt[p].run
          /\ a[p].refused = attempt[p].refused
        BY <1>3 DEF Changes
    <2> QED BY <1>2, <2>1, ChangedColumn
<1> HIDE DEF b
<1>5. Changes(c, b, p, "printing", Silent, run, attempt[p].refused)
    <2>1. b \in [Plates -> Row] /\ b[p].stage = "printing" /\ b[p].progress = Silent
          /\ b[p].refused = attempt[p].refused
        BY <1>4 DEF Changes
    <2> QED BY <1>2, <2>1, ChangedColumn
<1> HIDE DEF c
<1> QED BY <1>1, <1>3, <1>4, <1>5 DEF Changes

\* The two ways to record a start: nothing about an earlier print may be on its way
\* to an attempt of the current one.
LEMMA StartKeeps ==
  ASSUME EndInv, NEW p \in Plates, attempt[p].stage \in {"waiting", "claimed"}, NEW run \in Nat,
         run <= printer.run, MarkedStarted(p, run),
         run = printer.run => \A m : OnItsWay(m) => m = NoMessage \/ m.run = printer.run,
         UNCHANGED <<nextPk, printer, wire, canceller, disk>>,
         starter' \in [step : {"none", "upload", "start", "reply", "name"}, plate : Plates \cup {NoPlate}, run : Nat],
         starter'.run <= printer.run, handler'.msg = handler.msg, handler'.step \in {"none", "adopt", "apply"},
         handler'.step = "apply" =>
             handler' = handler \/ (handler'.plate = p /\ handler'.pk = attempt[p].pk /\ handler'.progress = Silent)
  PROVE  EndInv'
<1>1. Changes(attempt', attempt, p, "printing", Silent, run, attempt[p].refused)
    BY StartedColumns DEF EndInv
<1>2. /\ attempt' \in [Plates -> Row] /\ \A q \in Plates \ {p} : attempt'[q] = attempt[q]
      /\ attempt'[p].stage = "printing" /\ attempt'[p].pk = attempt[p].pk /\ attempt'[p].progress = Silent
      /\ attempt'[p].run = run
    BY <1>1 DEF Changes
<1>3. /\ nextPk' = nextPk /\ printer' = printer /\ wire' = wire /\ canceller' = canceller /\ disk' = disk
      /\ \A m : OnItsWay(m)' <=> OnItsWay(m)
    BY DEF OnItsWay
<1>4. Types' /\ LinkTypes' /\ RunsInOrder' /\ RunsHaveBegun'
    BY <1>2, <1>3 DEF EndInv, Types, LinkTypes, RunsInOrder, RunsHaveBegun
<1>5. KeysKnown'
    <2>1. \A q \in Plates : attempt'[q].pk = attempt[q].pk
        BY <1>2
    <2>2. \A q \in Plates : \A pk : Used(q, pk) => Used(q, pk)'
        BY <1>2, <1>3, <2>1 DEF Used
    <2>3. handler'.step = "apply" => Used(handler.plate, handler.pk)'
        <3>1. CASE handler' = handler
            BY <2>2, <3>1 DEF EndInv, KeysKnown, LinkTypes, Used
        <3>2. CASE handler'.plate = p /\ handler'.pk = attempt[p].pk
            BY <1>2, <1>3, <3>2 DEF EndInv, KeysKnown, Types, Row, Used
        <3> QED BY <3>1, <3>2
    <2>4. canceller[1] # NoPlate => canceller[1] \in Plates /\ Used(canceller[1], canceller[2])'
        BY <1>3, <2>2 DEF EndInv, KeysKnown, Types, Used
    <2> QED BY <1>3, <2>1, <2>3, <2>4 DEF EndInv, KeysKnown
<1>6. \A q \in Plates \ {p} : Recording(q)' <=> Recording(q)
    BY <1>2, <1>3 DEF Recording, Current, Running
<1>7. Recording(p)' => run = printer.run
    BY <1>2, <1>3 DEF Recording, Current
<1>8. EndsAreOver' /\ NothingOlder' /\ EndedPrintsAreOver'
    BY <1>2, <1>3, <1>6, <1>7
    DEF EndInv, EndsAreOver, NothingOlder, EndedPrintsAreOver, Running, Current, InStage
<1>9. CancelledIsOver'
    <2>1. CASE canceller[1] = p
        <3>1. attempt[p].pk # canceller[2]
            BY <2>1, PrinterSyncAssumption DEF EndInv, KeysKnown, Used
        <3> QED BY <2>1, <3>1, <1>2, <1>3 DEF CancelledIsOver
    <2>2. CASE canceller[1] # p
        BY <2>2, <1>2, <1>3, <1>6 DEF EndInv, Types, CancelledIsOver
    <2> QED BY <2>1, <2>2
<1>10. StandbyFirst'
    <2>1. handler'.step = "apply" /\ StillPrinting(handler)' => handler'.progress = attempt'[handler'.plate].progress
        <3>1. CASE handler'.plate = p /\ handler'.progress = Silent
            BY <3>1, <1>2
        <3>2. CASE handler' = handler /\ handler.plate = p
            BY <3>2, <1>2 DEF EndInv, KeysKnown, Used, StillPrinting
        <3>3. CASE handler' = handler /\ handler.plate # p
            BY <3>3, <1>2 DEF EndInv, StandbyFirst, StillPrinting, LinkTypes
        <3> QED BY <3>1, <3>2, <3>3
    <2>2. \A q \in Plates : Recording(q)' /\ attempt'[q].progress = 1 =>
              printer.state # "loading" /\ \A m \in Messages : OnItsWay(m)' => ~Standby(m)'
        BY <1>2, <1>3, <1>6, SilentIsNothing DEF EndInv, StandbyFirst, Standby
    <2> QED BY <2>1, <2>2, <1>3 DEF EndInv, StandbyFirst, Standby, Progress, Running
<1> QED BY <1>4, <1>5, <1>8, <1>9, <1>10 DEF EndInv

LEMMA AdoptKeeps ==
  ASSUME EndInv, Adopt
  PROVE  EndInv'
<1>1. /\ handler.step = "adopt" /\ UNCHANGED <<nextPk, printer, wire, canceller, disk, starter, remote>>
      /\ \/ \E p \in Plates : /\ attempt[p].stage = "waiting" /\ MarkedStarted(p, handler.msg.run)
                              /\ handler' = [Loaded(p, handler.msg) EXCEPT !.progress = Silent]
         \/ handler' = Resting /\ UNCHANGED <<attempt, earlier>>
    BY DEF Adopt, UnambiguousMatch, Matches, InStage, requests, device, link
<1>2. CASE handler' = Resting /\ UNCHANGED <<attempt, earlier>>
    <2>1. Resting.step = "none" /\ Resting.msg = NoMessage /\ printer.run \in Nat
        BY DEF Resting, EndInv, Types
    <2>2. LinkTypes' /\ RunsInOrder'
        <3>1. LinkTypes /\ RunsInOrder /\ wire' = wire /\ printer' = printer
              /\ handler'.step = "none" /\ handler'.msg = NoMessage
            BY <1>1, <1>2, <2>1 DEF EndInv
        <3>2. \A i \in DOMAIN wire : wire[i].run \in Nat
            BY <3>1, MessageShape DEF LinkTypes
        <3> QED BY <2>1, <3>1, <3>2, NoMessageTyped DEF LinkTypes, RunsInOrder
    <2>3. \A m : OnItsWay(m)' => OnItsWay(m) \/ m = NoMessage
        BY <1>1, <1>2, <2>1 DEF OnItsWay
    <2>4. /\ ~Progress(handler.msg)'
          /\ \A k \in DOMAIN wire' : Standby(wire[k])' /\ Running =>
                \A i \in DOMAIN wire' : i < k => ~Progress(wire[i])'
        BY <1>1, <1>2, <2>1, NoMessageTyped, SilentIsNothing DEF EndInv, StandbyFirst, Standby, Progress
    <2> QED BY <1>1, <1>2, <2>1, <2>2, <2>3, <2>4, FewerKeeps DEF database
<1>3. ASSUME NEW p \in Plates, attempt[p].stage = "waiting", MarkedStarted(p, handler.msg.run),
             handler' = [Loaded(p, handler.msg) EXCEPT !.progress = Silent]
      PROVE  EndInv'
    <2>1. handler.msg.run \in Nat /\ handler.msg.run <= printer.run /\ handler.msg \in Messages
        BY MessageShape DEF EndInv, LinkTypes, RunsInOrder
    <2>2. ASSUME handler.msg.run = printer.run, NEW m, OnItsWay(m) PROVE m.run = printer.run
        <3>1. CASE m = handler.msg
            BY <3>1, <2>2
        <3>2. ASSUME NEW i \in DOMAIN wire, m = wire[i] PROVE m.run = printer.run
            <4>1. wire[i].run \in Nat /\ handler.msg.run <= wire[i].run /\ wire[i].run <= printer.run
                BY MessageShape DEF EndInv, LinkTypes, RunsInOrder
            <4> QED BY <2>1, <2>2, <3>2, <4>1
        <3> QED BY <2>2, <3>1, <3>2 DEF OnItsWay
    <2>3. /\ handler'.step = "apply" /\ handler'.plate = p /\ handler'.pk = attempt[p].pk
          /\ handler'.msg = handler.msg /\ handler'.progress = Silent
        BY <1>3 DEF Loaded
    <2>4. starter' = starter /\ starter.run <= printer.run
          /\ starter \in [step : {"none", "upload", "start", "reply", "name"}, plate : Plates \cup {NoPlate}, run : Nat]
        BY <1>1 DEF EndInv, Types, RunsHaveBegun
    <2> QED BY <1>1, <1>3, <2>1, <2>2, <2>3, <2>4, StartKeeps
<1> QED BY <1>1, <1>2, <1>3

LEMMA RecordStartedKeeps ==
  ASSUME IInv, EndInv, Timely, RecordStarted
  PROVE  EndInv'
<1>1. /\ starter.step = "reply" /\ OnlyAbout(starter.run) /\ MarkedStarted(starter.plate, starter.run)
      /\ starter' = [starter EXCEPT !.step = "name"]
      /\ UNCHANGED <<nextPk, printer, wire, canceller, disk, handler>>
    BY DEF RecordStarted, device, link
<1>2. starter.plate \in Plates /\ attempt[starter.plate].stage = "claimed"
    BY <1>1 DEF IInv, ClaimHeld
<1>3. /\ starter.run \in Nat /\ starter.run <= printer.run /\ starter'.run = starter.run
      /\ starter' \in [step : {"none", "upload", "start", "reply", "name"}, plate : Plates \cup {NoPlate}, run : Nat]
    BY <1>1 DEF EndInv, Types, RunsHaveBegun
<1>4. starter.run = printer.run => \A m : OnItsWay(m) => m = NoMessage \/ m.run = printer.run
    BY <1>1 DEF OnlyAbout, OnItsWay, Range
<1>5. handler' = handler /\ handler.step \in {"none", "adopt", "apply"}
    BY <1>1 DEF EndInv, LinkTypes
<1> QED BY <1>1, <1>2, <1>3, <1>4, <1>5, StartKeeps

\* What a step may do to a row, without starting its print: it keeps its key or takes
\* the next one, ends its printing only if the print is over, and records progress only
\* when no standby can follow.
RowStep(p) ==
    /\ attempt'[p].pk = attempt[p].pk \/ (attempt'[p].pk = nextPk /\ nextPk < nextPk')
    /\ attempt'[p].run <= printer.run
    /\ attempt'[p].pk = attempt[p].pk /\ attempt[p].stage \in {"printing", "review", "idle"} =>
           attempt'[p].stage \in {"printing", "review", "idle"}
    /\ attempt'[p].stage = "printing" =>
           /\ attempt[p].stage = "printing" /\ attempt'[p].pk = attempt[p].pk /\ attempt'[p].run = attempt[p].run
           /\ attempt[p].refused => attempt'[p].refused
           /\ \/ attempt'[p].progress = attempt[p].progress
              \/ /\ handler' = Resting
                 /\ attempt'[p].progress = 1 /\ Recording(p) =>
                        printer.state # "loading" /\ \A i \in DOMAIN wire : ~Standby(wire[i])
    /\ attempt'[p].stage = "review" /\ attempt'[p].run = printer.run /\ Running => attempt'[p].refused

LEMMA RowsKeep ==
  ASSUME EndInv, UNCHANGED <<printer, wire>>, disk' \in [Files -> Plates \cup {NoPlate}],
         starter' \in [step : {"none", "upload", "start", "reply", "name"}, plate : Plates \cup {NoPlate}, run : Nat],
         starter'.run <= printer.run, handler' = handler \/ handler' = Resting,
         attempt' \in [Plates -> Row], nextPk' \in Nat, nextPk' >= nextPk, \A p \in Plates : RowStep(p),
         canceller' \in (Plates \cup {NoPlate}) \X Nat,
         \/ canceller' = canceller \/ canceller'[1] = NoPlate
         \/ /\ attempt'[canceller'[1]].stage = "printing" /\ attempt'[canceller'[1]].refused
            /\ canceller'[2] = attempt'[canceller'[1]].pk
  PROVE  EndInv'
<1>1. printer' = printer /\ wire' = wire
    OBVIOUS
<1>2. handler'.msg = handler.msg \/ (handler'.msg = NoMessage /\ handler'.step = "none")
    <2>1. handler' = Resting => handler'.msg = NoMessage /\ handler'.step = "none"
        BY RestingFields
    <2> QED BY <2>1
<1>3. \A m : OnItsWay(m)' => OnItsWay(m) \/ m = NoMessage
    BY <1>1, <1>2 DEF OnItsWay
<1>4. Types' /\ RunsHaveBegun'
    BY <1>1 DEF EndInv, Types, RunsHaveBegun, RowStep
<1>5. LinkTypes' /\ RunsInOrder'
    <2>1. LinkTypes'
        BY <1>1, NoMessageTyped DEF EndInv, LinkTypes, Resting
    <2>2. \A i \in DOMAIN wire : wire[i].run \in Nat
        BY MessageShape DEF EndInv, LinkTypes
    <2>3. printer.run \in Nat
        BY DEF EndInv, Types
    <2> QED BY <1>1, <1>2, <2>1, <2>2, <2>3, NoMessageTyped DEF EndInv, RunsInOrder
<1>6. /\ nextPk \in Nat /\ printer.run \in Nat /\ canceller \in (Plates \cup {NoPlate}) \X Nat
      /\ \A p \in Plates : attempt[p].pk \in Nat /\ attempt[p].pk < nextPk /\ attempt[p].run \in Nat
    BY DEF EndInv, Types, Row, KeysKnown
<1>7. \A p \in Plates : attempt'[p].pk < nextPk'
    BY <1>6 DEF RowStep
<1>8. \A p \in Plates : \A pk : Used(p, pk) => Used(p, pk)'
    BY <1>6 DEF RowStep, Used
<1>9. KeysKnown'
    <2>1. handler'.step = "apply" => Used(handler.plate, handler.pk)'
        <3>1. handler'.step = "apply" => handler' = handler
            BY DEF Resting
        <3> QED BY <3>1, <1>8 DEF EndInv, KeysKnown, LinkTypes, Used
    <2>2. canceller'[1] # NoPlate => Used(canceller[1], canceller[2])'
        <3>1. CASE canceller' = canceller
            BY <3>1, <1>6, <1>8 DEF EndInv, KeysKnown, Used
        <3>2. CASE canceller' # canceller
            BY <3>2, <1>7 DEF Used
        <3> QED BY <3>1, <3>2
    <2> QED BY <1>7, <2>1, <2>2 DEF KeysKnown
<1>10. \A p \in Plates : Recording(p)' => Recording(p)
    BY <1>1 DEF Recording, Current, Running, RowStep
<1>11. EndsAreOver' /\ NothingOlder'
    BY <1>1, <1>3, <1>10, NoMessageTyped, SilentIsNothing DEF EndInv, EndsAreOver, NothingOlder, Running
<1>12. EndedPrintsAreOver'
    BY <1>1 DEF RowStep, EndedPrintsAreOver, InStage, Current, Running
<1>13. CancelledIsOver'
    <2>1. ASSUME canceller'[1] # NoPlate, attempt'[canceller'[1]].pk = canceller'[2], Recording(canceller[1])'
          PROVE  attempt'[canceller'[1]].refused
        <3>1. CASE canceller' = canceller
            <4>1. canceller[1] \in Plates /\ RowStep(canceller[1])
                BY <2>1, <3>1, <1>6
            <4> QED BY <1>10, <2>1, <3>1, <4>1 DEF EndInv, CancelledIsOver, RowStep, Recording
        <3>2. CASE canceller' # canceller
            BY <2>1, <3>2
        <3> QED BY <3>1, <3>2
    <2> QED BY <2>1 DEF CancelledIsOver
<1>14. StandbyFirst'
    <2>1. printer.state = "loading" => printer.progress = 0 /\ \A m \in Messages : OnItsWay(m)' => ~Progress(m)'
        BY <1>1, <1>3, NoMessageTyped, SilentIsNothing DEF EndInv, StandbyFirst, Progress
    <2>2. Running => \A k \in DOMAIN wire : Standby(wire[k]) =>
              ~Progress(handler.msg)' /\ \A i \in DOMAIN wire : i < k => ~Progress(wire[i])
        BY <1>1, <1>2, NoMessageTyped, SilentIsNothing DEF EndInv, StandbyFirst, Progress
    <2>3. ASSUME NEW p \in Plates, Recording(p)', attempt'[p].progress = 1
          PROVE  printer.state # "loading" /\ \A m \in Messages : OnItsWay(m)' => ~Standby(m)'
        <3>1. RowStep(p) /\ Recording(p) /\ attempt'[p].stage = "printing"
            BY <1>10, <2>3 DEF Recording
        <3>2. CASE attempt'[p].progress = attempt[p].progress
            BY <1>1, <1>3, <2>3, <3>1, <3>2, NoMessageTyped, SilentIsNothing DEF EndInv, StandbyFirst, Standby
        <3>3. CASE handler' = Resting /\ printer.state # "loading" /\ \A i \in DOMAIN wire : ~Standby(wire[i])
            BY <1>1, <3>3, NoMessageTyped, SilentIsNothing DEF OnItsWay, Standby, Resting
        <3> QED BY <2>3, <3>1, <3>2, <3>3 DEF RowStep
    <2>4. handler'.step = "apply" /\ StillPrinting(handler)' => handler'.progress = attempt'[handler'.plate].progress
        <3>1. handler'.step = "apply" => handler' = handler /\ handler' # Resting
            BY DEF Resting
        <3>2. handler.step = "apply" => handler.plate \in Plates
            BY DEF EndInv, LinkTypes
        <3> QED BY <3>1, <3>2 DEF EndInv, StandbyFirst, StillPrinting, RowStep
    <2> QED BY <1>1, <2>1, <2>2, <2>3, <2>4 DEF StandbyFirst, Running, Standby, Progress
<1> QED BY <1>4, <1>5, <1>9, <1>11, <1>12, <1>13, <1>14 DEF EndInv

\* The handling of a notification: what reports an end is about the attempt's own print,
\* and has come true.
LEMMA ApplyKeeps ==
  ASSUME EndInv, Apply
  PROVE  EndInv'
<1> DEFINE p == handler.plate
<1>1. /\ handler.step = "apply" /\ handler' = Resting
      /\ IF handler.msg.kind = "status" THEN HandleStatusUpdate(handler) ELSE HandleHistoryChanged(handler)
      /\ nextPk' = nextPk /\ printer' = printer /\ wire' = wire /\ canceller' = canceller
      /\ starter' = starter /\ disk' = disk
    BY DEF Apply, requests, device, link
<1>2. /\ p \in Plates /\ attempt \in [Plates -> Row] /\ handler.msg \in Messages /\ OnItsWay(handler.msg)
      /\ handler.msg.progress \in {0, 1, Silent} /\ nextPk \in Nat /\ disk \in [Files -> Plates \cup {NoPlate}]
      /\ canceller \in (Plates \cup {NoPlate}) \X Nat /\ starter.run <= printer.run
      /\ starter \in [step : {"none", "upload", "start", "reply", "name"}, plate : Plates \cup {NoPlate}, run : Nat]
    BY <1>1, MessageShape DEF EndInv, LinkTypes, Types, RunsHaveBegun, OnItsWay
<1>3. \A q \in Plates : attempt'[q] = attempt[q] => RowStep(q)
    BY <1>1 DEF EndInv, RowStep, RunsHaveBegun, EndedPrintsAreOver, InStage, Current, Running
<1>4. \A q \in Plates : attempt[q].run <= printer.run
    BY DEF EndInv, RunsHaveBegun
<1> HIDE DEF p
<1>5. CASE attempt' = attempt
    BY <1>1, <1>2, <1>3, <1>5, RowsKeep DEF Types
<1>6. ASSUME StillPrinting(handler), attempt' = [attempt EXCEPT ![p].stage = "review"],
             handler.msg.kind = "finished" \/ EndsAttempt(handler.msg.state, handler.progress)
      PROVE  EndInv'
    <2>1. Changes(attempt', attempt, p, "review", attempt[p].progress, attempt[p].run, attempt[p].refused)
        BY <1>2, <1>6, ChangedColumn DEF Stages
    <2>2. attempt[p].stage = "printing" /\ handler.progress = attempt[p].progress
        BY <1>1, <1>6 DEF StillPrinting, EndInv, StandbyFirst, p
    <2>3. ~Recording(p)
        <3> SUFFICES ASSUME Recording(p) PROVE FALSE
            OBVIOUS
        <3>1. handler.msg # NoMessage
            BY <1>6, NoMessageTyped, SilentIsNothing DEF EndsAttempt
        <3>2. handler.msg.run = printer.run
            BY <1>2, <3>1 DEF EndInv, NothingOlder
        <3>3. CASE handler.msg.kind = "finished" \/ handler.msg.state = "over"
            BY <1>2, <3>2, <3>3 DEF EndInv, EndsAreOver, Recording, Current
        <3>4. CASE handler.msg.state = "standby" /\ handler.progress = 1
            BY <1>2, <2>2, <3>2, <3>4 DEF EndInv, StandbyFirst, Standby
        <3> QED BY <1>6, <3>3, <3>4 DEF EndsAttempt
    <2>4. RowStep(p)
        BY <1>1, <1>2, <1>4, <2>1, <2>2, <2>3 DEF RowStep, Changes, Recording, Current, Running
    <2>5. \A q \in Plates : RowStep(q)
        BY <1>3, <2>1, <2>4 DEF Changes
    <2> QED BY <1>1, <1>2, <2>1, <2>5, RowsKeep DEF Changes
<1>7. ASSUME handler.msg.progress # Silent, StillPrinting(handler),
             attempt' = [attempt EXCEPT ![p].progress = handler.msg.progress]
      PROVE  EndInv'
    <2>1. Changes(attempt', attempt, p, attempt[p].stage, handler.msg.progress, attempt[p].run, attempt[p].refused)
        BY <1>2, <1>7, ChangedColumn DEF Stages
    <2>2. attempt[p].stage = "printing"
        BY <1>7 DEF StillPrinting, p
    <2>3. ASSUME handler.msg.progress = 1, Recording(p)
          PROVE  printer.state # "loading" /\ \A i \in DOMAIN wire : ~Standby(wire[i])
        <3>1. Progress(handler.msg)
            BY <1>2, <2>3, NoMessageTyped, SilentIsNothing DEF EndInv, NothingOlder, Progress
        <3> QED BY <1>2, <2>3, <3>1 DEF EndInv, StandbyFirst, Recording, Current
    <2>4. RowStep(p)
        BY <1>1, <1>2, <1>4, <2>1, <2>2, <2>3 DEF RowStep, Changes
    <2>5. \A q \in Plates : RowStep(q)
        BY <1>3, <2>1, <2>4 DEF Changes
    <2> QED BY <1>1, <1>2, <2>1, <2>5, RowsKeep DEF Changes
<1> QED BY <1>1, <1>5, <1>6, <1>7
    DEF HandleStatusUpdate, HandleHistoryChanged, TransitionToReview, p

\* A step that leaves rows, notifications and the printer alone.
LEMMA StarterKeeps ==
  ASSUME EndInv, Upload \/ RecordName \/ StarterDies
  PROVE  EndInv'
<1>1. /\ UNCHANGED <<attempt, nextPk, printer, wire, canceller, handler>>
      /\ disk' = disk \/ (disk' = [disk EXCEPT ![FileOf[starter.plate]] = starter.plate])
      /\ starter' = NoStarter \/ starter' = [starter EXCEPT !.step = "start"]
    BY DEF Upload, UploadGcode, RecordName, StarterDies, database, device, link
<1>2. /\ disk \in [Files -> Plates \cup {NoPlate}] /\ starter.plate \in Plates \cup {NoPlate}
      /\ starter \in [step : {"none", "upload", "start", "reply", "name"}, plate : Plates \cup {NoPlate}, run : Nat]
      /\ starter.run <= printer.run /\ printer.run \in Nat
    BY DEF EndInv, Types, RunsHaveBegun
<1>3. /\ starter' \in [step : {"none", "upload", "start", "reply", "name"}, plate : Plates \cup {NoPlate}, run : Nat]
      /\ starter'.run <= printer.run
    BY <1>1, <1>2 DEF NoStarter
<1>4. disk' \in [Files -> Plates \cup {NoPlate}]
    BY <1>1, <1>2
<1>5. \A p \in Plates : RowStep(p)
    BY <1>1 DEF EndInv, RowStep, RunsHaveBegun, EndedPrintsAreOver, InStage, Current, Running
<1> QED BY <1>1, <1>3, <1>4, <1>5, RowsKeep DEF EndInv, Types

LEMMA PrinterAcceptsKeeps ==
  ASSUME IInv, EndInv, PrinterAccepts
  PROVE  EndInv'
<1>1. /\ starter.step = "start" /\ Load(FileOf[starter.plate])
      /\ starter' = [starter EXCEPT !.step = "reply", !.run = printer'.run]
      /\ UNCHANGED <<database, canceller, disk, handler>>
    BY DEF PrinterAccepts
<1>2. FileOf[starter.plate] \in Files
    BY <1>1, PrinterSyncAssumption DEF IInv, ClaimHeld
<1>3. printer'.run \in Nat /\ printer.run \in Nat
    BY <1>1 DEF EndInv, Types, Load
<1>4. starter \in [step : {"none", "upload", "start", "reply", "name"}, plate : Plates \cup {NoPlate}, run : Nat]
    BY DEF EndInv, Types
<1>5. /\ starter' \in [step : {"none", "upload", "start", "reply", "name"}, plate : Plates \cup {NoPlate}, run : Nat]
      /\ starter'.run = printer'.run
    <2> DEFINE a == [starter EXCEPT !.step = "reply"]
    <2>1. a \in [step : {"none", "upload", "start", "reply", "name"}, plate : Plates \cup {NoPlate}, run : Nat]
        BY <1>4
    <2>2. starter' = [a EXCEPT !.run = printer'.run]
        BY <1>1
    <2> HIDE DEF a
    <2> QED BY <1>3, <2>1, <2>2
<1> QED BY <1>1, <1>2, <1>3, <1>5, LoadKeeps

\* A step that changes one row and no more than the starter, the canceller or the next key.
LEMMA OneRowKeeps ==
  ASSUME EndInv, UNCHANGED <<printer, wire, disk, handler>>, NEW p \in Plates,
         attempt' \in [Plates -> Row], \A q \in Plates \ {p} : attempt'[q] = attempt[q], RowStep(p),
         nextPk' = nextPk \/ nextPk' = nextPk + 1, starter' = starter \/ starter' = NoStarter
                                                    \/ starter' = [step |-> "upload", plate |-> p, run |-> 0],
         \/ canceller' = canceller \/ canceller' = <<NoPlate, 0>>
         \/ attempt'[p].stage = "printing" /\ attempt'[p].refused /\ canceller' = <<p, attempt'[p].pk>>
  PROVE  EndInv'
<1>1. \A q \in Plates : RowStep(q)
    BY DEF EndInv, RowStep, RunsHaveBegun, EndedPrintsAreOver, InStage, Current, Running
<1>2. /\ starter \in [step : {"none", "upload", "start", "reply", "name"}, plate : Plates \cup {NoPlate}, run : Nat]
      /\ starter.run <= printer.run /\ printer.run \in Nat /\ nextPk \in Nat
      /\ canceller \in (Plates \cup {NoPlate}) \X Nat /\ disk \in [Files -> Plates \cup {NoPlate}]
    BY DEF EndInv, Types, RunsHaveBegun
<1>3. /\ starter' \in [step : {"none", "upload", "start", "reply", "name"}, plate : Plates \cup {NoPlate}, run : Nat]
      /\ starter'.run <= printer.run
    BY <1>2 DEF NoStarter
<1>4. nextPk' \in Nat /\ nextPk' >= nextPk
    BY <1>2
<1>5. canceller' \in (Plates \cup {NoPlate}) \X Nat
    BY <1>2 DEF Row
<1>6. \/ canceller' = canceller \/ canceller'[1] = NoPlate
      \/ /\ attempt'[canceller'[1]].stage = "printing" /\ attempt'[canceller'[1]].refused
         /\ canceller'[2] = attempt'[canceller'[1]].pk
    OBVIOUS
<1> QED BY <1>1, <1>2, <1>3, <1>4, <1>5, <1>6, RowsKeep

\* Claims are given and taken back; a print that ended is marked as finished.
LEMMA StagesKeep ==
  ASSUME EndInv, UNCHANGED <<nextPk, printer, wire, disk, handler>>, NEW p \in Plates, NEW stage \in Stages,
         attempt' = [attempt EXCEPT ![p].stage = stage],
         \/ attempt[p].stage \in {"waiting", "claimed"} /\ stage \in {"waiting", "claimed"}
         \/ attempt[p].stage = "printing" /\ stage = "review" /\ (Recording(p) => attempt[p].refused),
         starter' = starter \/ starter' = NoStarter \/ starter' = [step |-> "upload", plate |-> p, run |-> 0],
         canceller' = canceller \/ canceller' = <<NoPlate, 0>>
  PROVE  EndInv'
<1>1. Changes(attempt', attempt, p, stage, attempt[p].progress, attempt[p].run, attempt[p].refused)
    BY ChangedColumn DEF EndInv, Types
<1>2. attempt[p].run <= printer.run
    BY DEF EndInv, RunsHaveBegun
<1>3. RowStep(p)
    BY <1>1, <1>2 DEF RowStep, Changes, Recording, Current
<1> QED BY <1>1, <1>3, OneRowKeeps DEF Changes

\* Rows are begun anew or end.
LEMMA RenewalsKeep ==
  ASSUME EndInv, UNCHANGED <<printer, wire, disk, handler, starter, canceller>>, NEW p \in Plates,
         \/ attempt' = [attempt EXCEPT ![p] = NewAttempt] /\ nextPk' = nextPk + 1
         \/ attempt' = [attempt EXCEPT ![p] = NoAttempt(p)] /\ nextPk' = nextPk
  PROVE  EndInv'
<1>1. attempt \in [Plates -> Row] /\ attempt[p].pk \in Nat /\ nextPk \in Nat /\ printer.run \in Nat
      /\ attempt[p].pk < nextPk
    BY DEF EndInv, Types, Row, KeysKnown
<1>2. NewAttempt \in Row /\ NewAttempt.stage = "waiting" /\ NewAttempt.pk = nextPk /\ NewAttempt.run = 0
    BY <1>1 DEF NewAttempt, Row, Stages
<1>3. NoAttempt(p) \in Row /\ NoAttempt(p).stage = "idle" /\ NoAttempt(p).pk = attempt[p].pk /\ NoAttempt(p).run = 0
    BY <1>1 DEF NoAttempt, Row, Stages
<1>4. attempt' \in [Plates -> Row] /\ \A q \in Plates \ {p} : attempt'[q] = attempt[q]
    BY <1>1, <1>2, <1>3
<1>5. \/ attempt'[p] = NewAttempt /\ nextPk' = nextPk + 1
      \/ attempt'[p] = NoAttempt(p) /\ nextPk' = nextPk
    BY <1>1
<1>6. RowStep(p)
    BY <1>1, <1>2, <1>3, <1>5 DEF RowStep
<1> QED BY <1>4, <1>5, <1>6, OneRowKeeps

LEMMA CancelPrintKeeps ==
  ASSUME EndInv, NEW p \in Plates, CancelPrint(p)
  PROVE  EndInv'
<1>1. /\ attempt[p].stage = "printing" /\ canceller' = <<p, attempt[p].pk>>
      /\ nextPk' = nextPk /\ UNCHANGED <<remote, earlier, starter, disk, handler>>
      /\ \/ Running /\ Stop /\ UNCHANGED attempt
         \/ attempt' = [attempt EXCEPT ![p].refused = TRUE] /\ UNCHANGED <<printer, wire>>
    BY DEF CancelPrint
<1>2. CASE Running /\ Stop /\ UNCHANGED attempt
    BY <1>1, <1>2, StopKeeps DEF database
<1>3. CASE attempt' = [attempt EXCEPT ![p].refused = TRUE] /\ UNCHANGED <<printer, wire>>
    <2>1. attempt \in [Plates -> Row] /\ attempt[p].run <= printer.run
        BY DEF EndInv, Types, RunsHaveBegun
    <2>2. Changes(attempt', attempt, p, attempt[p].stage, attempt[p].progress, attempt[p].run, TRUE)
        BY <1>3, <2>1, ChangedColumn DEF Stages
    <2>3. RowStep(p)
        BY <1>1, <2>1, <2>2 DEF RowStep, Changes
    <2>4. attempt'[p].pk = attempt[p].pk
        BY <2>2 DEF Changes
    <2>5. canceller' = <<p, attempt'[p].pk>>
        BY <1>1, <2>4
    <2> QED BY <1>1, <1>3, <2>2, <2>3, <2>5, OneRowKeeps DEF Changes
<1> QED BY <1>1, <1>2, <1>3

LEMMA MarkCancelledKeeps ==
  ASSUME EndInv, MarkCancelled
  PROVE  EndInv'
<1> DEFINE p == canceller[1]
<1>1. /\ canceller # <<NoPlate, 0>> /\ canceller' = <<NoPlate, 0>>
      /\ UNCHANGED <<nextPk, printer, wire, disk, handler, starter>>
      /\ \/ attempt[p].stage = "printing" /\ attempt[p].pk = canceller[2]
            /\ attempt' = [attempt EXCEPT ![p].stage = "review"]
         \/ attempt' = attempt
    BY DEF MarkCancelled, device, link
<1>2. canceller \in (Plates \cup {NoPlate}) \X Nat /\ attempt \in [Plates -> Row]
    BY DEF EndInv, Types
<1>3. CASE attempt' = attempt
    <2>1. \A q \in Plates : RowStep(q)
        BY <1>1, <1>3 DEF EndInv, RowStep, RunsHaveBegun, EndedPrintsAreOver, InStage, Current, Running
    <2> QED BY <1>1, <1>3, <2>1, RowsKeep DEF EndInv, Types, RunsHaveBegun
<1>4. ASSUME attempt[p].stage = "printing", attempt[p].pk = canceller[2],
             attempt' = [attempt EXCEPT ![p].stage = "review"], p \in Plates
      PROVE  EndInv'
    <2>1. Recording(p) => attempt[p].refused
        BY <1>4, PrinterSyncAssumption DEF EndInv, CancelledIsOver
    <2> HIDE DEF p
    <2> QED BY <1>1, <1>4, <2>1, StagesKeep DEF Stages
<1>5. p \notin Plates => [attempt EXCEPT ![p].stage = "review"] = attempt
    BY <1>2
<1> QED BY <1>1, <1>3, <1>4, <1>5

LEMMA StartingKeeps ==
  ASSUME IInv, EndInv, Timely, Starting
  PROVE  EndInv'
<1>1. ASSUME NEW p \in Plates, Claim(p) PROVE EndInv'
    <2>1. /\ attempt[p].stage = "waiting" /\ attempt' = [attempt EXCEPT ![p].stage = "claimed"]
          /\ starter' = [step |-> "upload", plate |-> p, run |-> 0]
          /\ UNCHANGED <<nextPk, printer, wire, disk, handler, canceller>>
        BY <1>1 DEF Claim, device, link
    <2> QED BY <2>1, StagesKeep DEF Stages
<1>2. CASE StartFails
    <2>1. /\ starter.step \in {"upload", "start", "reply"} /\ starter' = NoStarter
          /\ attempt' = [attempt EXCEPT ![starter.plate].stage = "waiting"]
          /\ UNCHANGED <<nextPk, printer, wire, disk, handler, canceller>>
        BY <1>2 DEF StartFails, device, link
    <2>2. starter.plate \in Plates /\ attempt[starter.plate].stage = "claimed"
        BY <2>1 DEF IInv, ClaimHeld
    <2> QED BY <2>1, <2>2, StagesKeep DEF Stages
<1>3. ASSUME NEW p \in Plates, ClaimExpires(p) PROVE EndInv'
    <2>1. /\ attempt[p].stage = "claimed" /\ attempt' = [attempt EXCEPT ![p].stage = "waiting"]
          /\ UNCHANGED <<nextPk, printer, wire, disk, handler, canceller, starter>>
        BY <1>3 DEF ClaimExpires, requests, device, link
    <2> QED BY <2>1, StagesKeep DEF Stages
<1> QED BY <1>1, <1>2, <1>3, StarterKeeps, PrinterAcceptsKeeps, RecordStartedKeeps DEF Starting

LEMMA ManagingKeeps ==
  ASSUME EndInv, Managing
  PROVE  EndInv'
<1>1. ASSUME NEW p \in Plates, Enqueue(p) PROVE EndInv'
    BY <1>1, RenewalsKeep DEF Enqueue, requests, device, link
<1>2. ASSUME NEW p \in Plates, NEW retry \in BOOLEAN, Review(p, retry) PROVE EndInv'
    BY <1>2, RenewalsKeep DEF Review, requests, device, link
<1>3. ASSUME NEW p \in Plates, RemoveEntry(p) PROVE EndInv'
    BY <1>3, RenewalsKeep DEF RemoveEntry, requests, device, link
<1> QED BY <1>1, <1>2, <1>3, CancelPrintKeeps, MarkCancelledKeeps DEF Managing

LEMMA PrintingKeeps ==
  ASSUME EndInv, Printing
  PROVE  EndInv'
<1>1. ASSUME NEW file \in Files, StartedAtPrinter(file) PROVE EndInv'
    <2>1. Load(file) /\ UNCHANGED <<database, canceller, starter, disk, handler>>
        BY <1>1 DEF StartedAtPrinter, requests
    <2>2. /\ starter' \in [step : {"none", "upload", "start", "reply", "name"}, plate : Plates \cup {NoPlate}, run : Nat]
          /\ starter.run <= printer.run /\ starter' = starter
          /\ printer.run \in Nat /\ starter.run \in Nat /\ printer'.run = printer.run + 1
        BY <2>1 DEF EndInv, Types, RunsHaveBegun, Load
    <2>3. starter'.run <= printer'.run
        BY <2>2
    <2> QED BY <2>1, <2>2, <2>3, LoadKeeps
<1>2. CASE PrintEnds
    <2>1. Running /\ Stop /\ UNCHANGED <<database, canceller, starter, disk, handler>>
        BY <1>2 DEF PrintEnds, requests, Running
    <2> QED BY <2>1, StopKeeps
<1> QED BY <1>1, <1>2, PrintBeginsKeeps, PrintProgressesKeeps, FirmwareRestartKeeps DEF Printing

\* Nothing that the invariant tells changes.
LEMMA QuietKeeps ==
  ASSUME EndInv, UNCHANGED <<attempt, nextPk, starter, canceller, printer, wire, disk, handler>>
  PROVE  EndInv'
BY DEF EndInv, Types, LinkTypes, KeysKnown, Used, RunsHaveBegun, RunsInOrder, EndsAreOver, NothingOlder,
       StandbyFirst, CancelledIsOver, EndedPrintsAreOver, OnItsWay, Recording, Current, Running, InStage,
       Standby, Progress, StillPrinting

LEMMA WorkingKeeps ==
  ASSUME EndInv, Working
  PROVE  EndInv'
<1>1. CASE Connect
    BY <1>1, QuietKeeps DEF Connect, database, requests, device
<1> QED BY <1>1, LossKeeps, SubscribedKeeps, ReceiveKeeps, AdoptKeeps, ApplyKeeps DEF Working

LEMMA InitEndInv == Init => EndInv
<1> SUFFICES ASSUME Init PROVE EndInv
    OBVIOUS
<1>1. /\ attempt \in [Plates -> [stage : {"idle", "waiting"}, pk : {0}, progress : {Silent}, run : {0}, refused : {FALSE}]]
      /\ nextPk = 1 /\ starter = NoStarter /\ canceller = <<NoPlate, 0>> /\ disk = [f \in Files |-> LastStarted(f)]
      /\ printer = [state |-> "standby", file |-> NoFile, progress |-> 0, run |-> 0, gcode |-> NoPlate]
      /\ wire = <<>> /\ handler = Resting
    BY DEF Init
<1>3. ASSUME NEW p \in Plates
      PROVE  /\ attempt[p] \in Row /\ attempt[p].stage \in {"idle", "waiting"}
             /\ attempt[p].pk = 0 /\ attempt[p].run = 0
    <2>1. attempt[p] \in [stage : {"idle", "waiting"}, pk : {0}, progress : {Silent}, run : {0}, refused : {FALSE}]
        BY <1>1
    <2>2. /\ attempt[p].stage \in {"idle", "waiting"} /\ attempt[p].pk = 0 /\ attempt[p].progress = Silent
          /\ attempt[p].run = 0 /\ attempt[p].refused \in {FALSE}
          /\ attempt[p] = [stage |-> attempt[p].stage, pk |-> attempt[p].pk, progress |-> attempt[p].progress,
                           run |-> attempt[p].run, refused |-> attempt[p].refused]
        BY <2>1
    <2>3. attempt[p].refused \in BOOLEAN
        BY <2>2
    <2> QED BY <2>2, <2>3 DEF Row, Stages
<1>4. disk \in [Files -> Plates \cup {NoPlate}]
    BY <1>1 DEF LastStarted
<1>5. handler.step = "none" /\ handler.msg = NoMessage
    BY <1>1, RestingFields
<1>6. Types
    BY <1>1, <1>4, <1>3 DEF Types, NoStarter
<1>7. LinkTypes /\ RunsInOrder
    BY <1>1, <1>5, NoMessageTyped DEF LinkTypes, RunsInOrder
<1>8. KeysKnown /\ RunsHaveBegun
    <2>1. canceller[1] = NoPlate /\ starter.run = 0 /\ printer.run = 0
        BY <1>1 DEF NoStarter
    <2> QED BY <1>1, <1>5, <1>3, <2>1 DEF KeysKnown, RunsHaveBegun
<1>9. ~Running /\ \A p \in Plates : ~Recording(p)
    BY <1>1 DEF Running, Recording, Current
<1>10. EndsAreOver /\ NothingOlder /\ StandbyFirst /\ CancelledIsOver /\ EndedPrintsAreOver
    BY <1>1, <1>5, <1>9 DEF EndsAreOver, NothingOlder, StandbyFirst, CancelledIsOver, EndedPrintsAreOver,
                            Current, Recording, Running, InStage
<1> QED BY <1>6, <1>7, <1>10, <1>8 DEF EndInv

LEMMA StepEndInv == Timely /\ IInv /\ EndInv /\ [Next]_vars => EndInv'
<1> SUFFICES ASSUME Timely, IInv, EndInv, [Next]_vars PROVE EndInv'
    OBVIOUS
<1>1. CASE UNCHANGED vars
    BY <1>1, QuietKeeps DEF vars, database, requests, device, link
<1> QED BY <1>1, PrintingKeeps, WorkingKeeps, StartingKeeps, ManagingKeeps DEF Next

\* EndedPrintsAreOver, for any plates, file names, losses and orders of the reports of an
\* end, if notifications are handled before a later start is recorded.
THEOREM EndedPrints ==
  ASSUME Timely
  PROVE  Spec => []EndedPrintsAreOver
<1>1. Init => IInv /\ EndInv
    BY InitIInv, InitEndInv
<1>2. (IInv /\ EndInv) /\ [Next]_vars => (IInv /\ EndInv)'
    BY StepIInv, StepEndInv
<1>3. EndInv => EndedPrintsAreOver
    BY DEF EndInv
<1> QED BY <1>1, <1>2, <1>3, PTL DEF Spec

-----------------------------------------------------------------------------
(* No end is missed.                                                       *)

\* print_stats or the history tells that a print runs.
StartReported(m) == m.kind = "status" /\ m.state = "printing"
Starts(m)        == m.kind = "added" \/ StartReported(m)
Finished(m, run) == m.kind = "finished" /\ m.run = run
IsStandby(m)     == m.kind = "status" /\ m.state = "standby" /\ m.run = printer.run

\* A start that is about to be recorded is of the print that runs; what restarts of the
\* firmware end is known as such, and looks like no print at all.
Basics ==
    /\ starter.step = "reply" => Running /\ starter.run = printer.run /\ printer.file = FileOf[starter.plate]
    /\ Running => printer.run > 0 /\ printer.gcode \in Plates /\ FileOf[printer.gcode] = printer.file
    /\ \A r \in aborted : r \in Nat /\ r <= printer.run
    /\ printer.run \in aborted => printer.state = "standby"
    /\ printer.state = "standby" => printer.progress = 0
    /\ connection \in {"lost", "open", "subscribed"}
    /\ \A m \in Messages : OnItsWay(m) =>
          /\ m.kind = "finished" => m.run > 0
          /\ m.state = "standby" => m.kind = "status" /\ m.progress # 1

\* tell[i] is the worker's current_filename when it has received i of the notifications
\* on the wire.  A subscriber will know the file that is loaded.
Told(tell) ==
    /\ tell[0] = current
    /\ \A i \in DOMAIN wire :
          tell[i] = IF ReportedFile(wire[i]) = Silent THEN tell[i - 1] ELSE ReportedFile(wire[i])
    /\ connection = "subscribed" => tell[Len(wire)] = printer.file

\* name[r] is the file of print r, and everybody who knows a file of it knows this one.
Named(name, tell) ==
    /\ Running => printer.file = name[printer.run]
    /\ \A m \in Messages : OnItsWay(m) /\ m.kind # "status" => m.file = name[m.run]
    /\ \A p \in Plates : attempt[p].stage = "printing" => FileOf[p] = name[attempt[p].run]
    /\ \A i \in DOMAIN wire : StartReported(wire[i]) => tell[i] = name[wire[i].run]
    /\ handler.step = "adopt" /\ StartReported(handler.msg) => StartedFile(handler.msg) = name[handler.msg.run]
    /\ \A m \in Messages : OnItsWay(m) /\ Starts(m) => m.gcode \in Plates /\ FileOf[m.gcode] = name[m.run]

FilesKnown == \E name, tell : Told(tell) /\ Named(name, tell)

LEMMA NoMessageStartsNothing == ~Starts(NoMessage)
BY NoMessageTyped, SilentIsNothing DEF Starts, StartReported

Accounted(run) == (Running /\ printer.run = run) \/ run \in unheard \/ run \in aborted

\* Whatever tells of a start is followed by what tells of the end.
StartsEnd ==
    /\ \A i \in DOMAIN wire : Starts(wire[i]) =>
          Accounted(wire[i].run) \/ \E k \in DOMAIN wire : k > i /\ Finished(wire[k], wire[i].run)
    /\ handler.step = "adopt" /\ Starts(handler.msg) =>
          Accounted(handler.msg.run) \/ \E k \in DOMAIN wire : Finished(wire[k], handler.msg.run)

Handling(p) == handler.step = "apply" /\ handler.plate = p /\ handler.pk = attempt[p].pk

\* A print ended by a firmware restart: the attempt has recorded no progress, or it will
\* hear that the printer stands by.
AbortComes(p) ==
    \/ attempt[p].run # printer.run \/ attempt[p].progress # 1 \/ connection # "subscribed"
    \/ \E k \in DOMAIN wire : IsStandby(wire[k])
    \/ Handling(p) /\ IsStandby(handler.msg)

EndComes(p) ==
    \/ Current(p) \/ attempt[p].run \in unheard
    \/ \E k \in DOMAIN wire : Finished(wire[k], attempt[p].run)
    \/ Handling(p) /\ Finished(handler.msg, attempt[p].run)
    \/ attempt[p].run \in aborted /\ AbortComes(p)

EndsCome == \A p \in Plates : attempt[p].stage = "printing" => EndComes(p)

\* After a restart of the firmware no progress is recorded that the standby does not undo.
AbortIsTold ==
    printer.state = "standby" /\ connection = "subscribed" =>
        \/ \E k \in DOMAIN wire : IsStandby(wire[k]) /\ \A i \in DOMAIN wire : i > k => wire[i].progress # 1
        \/ handler.msg.progress # 1 /\ \A i \in DOMAIN wire : wire[i].progress # 1

\* A file on the printer is of a plate of that name.
DiskNamed == \A file \in Files : disk[file] # NoPlate => FileOf[disk[file]] = file

MissInv == Basics /\ FilesKnown /\ StartsEnd /\ EndsCome /\ AbortIsTold

-----------------------------------------------------------------------------
(* What is sent.                                                           *)

\* All of S and nothing else is added to the wire.
Delivers(S) ==
    /\ Reported(S)
    /\ \A m \in S : \E k \in DOMAIN wire' : k > Len(wire) /\ wire'[k] = m

LEMMA SendDelivers ==
  ASSUME NEW m \in Messages, wire \in Seq(Messages), Send(m)
  PROVE  Delivers({n \in {m} : IsSent(n)})
<1>1. CASE IsSent(m)
    <2>1. wire' = Append(wire, m)
        BY <1>1 DEF Send, Sent
    <2>2. wire' \in Seq(Messages) /\ Len(wire') = Len(wire) + 1 /\ wire'[Len(wire) + 1] = m
          /\ \A i \in DOMAIN wire : wire'[i] = wire[i]
        BY <2>1
    <2>3. {n \in {m} : IsSent(n)} = {m}
        BY <1>1
    <2> QED BY <2>2, <2>3 DEF Delivers, Reported
<1>2. CASE ~IsSent(m)
    <2>1. wire' = wire
        BY <1>2 DEF Send, Sent
    <2>2. {n \in {m} : IsSent(n)} = {}
        BY <1>2
    <2> QED BY <2>1, <2>2 DEF Delivers, Reported
<1> QED BY <1>1, <1>2

LEMMA SendBothDelivers ==
  ASSUME NEW a \in Messages, NEW b \in Messages, wire \in Seq(Messages), SendBoth(a, b)
  PROVE  Delivers({n \in {a, b} : IsSent(n)})
<1>1. ASSUME NEW m \in Messages, NEW n \in Messages, {m, n} = {a, b}, wire' = wire \o Sent(m) \o Sent(n)
      PROVE  Delivers({x \in {a, b} : IsSent(x)})
    <2>1. CASE IsSent(m) /\ IsSent(n)
        <3>1. wire \o <<m>> = Append(wire, m) /\ Append(wire, m) \in Seq(Messages)
            OBVIOUS
        <3>2. Append(wire, m) \o <<n>> = Append(Append(wire, m), n)
            BY <3>1
        <3>3. wire' = Append(Append(wire, m), n)
            BY <1>1, <2>1, <3>1, <3>2 DEF Sent
        <3>4. /\ wire' \in Seq(Messages) /\ Len(wire') = Len(wire) + 2
              /\ wire'[Len(wire) + 1] = m /\ wire'[Len(wire) + 2] = n
              /\ \A i \in DOMAIN wire : wire'[i] = wire[i]
            BY <3>3
        <3>5. \A x \in {y \in {a, b} : IsSent(y)} : x \in {m, n}
            BY <1>1
        <3>6. m \in {y \in {a, b} : IsSent(y)} /\ n \in {y \in {a, b} : IsSent(y)}
            BY <1>1, <2>1
        <3> QED BY <3>4, <3>5, <3>6 DEF Delivers, Reported
    <2>2. CASE IsSent(m) /\ ~IsSent(n)
        <3>1. wire' = Append(wire, m)
            BY <1>1, <2>2 DEF Sent
        <3>2. wire' \in Seq(Messages) /\ Len(wire') = Len(wire) + 1 /\ wire'[Len(wire) + 1] = m
              /\ \A i \in DOMAIN wire : wire'[i] = wire[i]
            BY <3>1
        <3>3. {x \in {a, b} : IsSent(x)} = {m}
            BY <1>1, <2>2
        <3> QED BY <3>2, <3>3 DEF Delivers, Reported
    <2>3. CASE ~IsSent(m) /\ IsSent(n)
        <3>1. wire' = Append(wire, n)
            BY <1>1, <2>3 DEF Sent
        <3>2. wire' \in Seq(Messages) /\ Len(wire') = Len(wire) + 1 /\ wire'[Len(wire) + 1] = n
              /\ \A i \in DOMAIN wire : wire'[i] = wire[i]
            BY <3>1
        <3>3. {x \in {a, b} : IsSent(x)} = {n}
            BY <1>1, <2>3
        <3> QED BY <3>2, <3>3 DEF Delivers, Reported
    <2>4. CASE ~IsSent(m) /\ ~IsSent(n)
        <3>1. wire' = wire
            BY <1>1, <2>4 DEF Sent
        <3>2. {x \in {a, b} : IsSent(x)} = {}
            BY <1>1, <2>4
        <3> QED BY <3>1, <3>2 DEF Delivers, Reported
    <2> QED BY <2>1, <2>2, <2>3, <2>4
<1> QED BY <1>1 DEF SendBoth

\* Messages that are sent to the connection as it is.
LEMMA SentTo ==
  ASSUME NEW m, IsSent(m)
  PROVE  connection # "lost" /\ (m.kind = "status" => connection = "subscribed")
BY DEF IsSent

PrinterTypes == [state : {"standby", "loading", "printing", "over"}, file : Files \cup {NoFile},
                 progress : {0, 1}, run : Nat, gcode : Plates \cup {NoPlate}]

\* What a step of the printer, or a subscription, does with the messages of S.
PrinterReports(S) ==
    /\ S \in SUBSET Messages /\ Delivers(S)
    /\ UNCHANGED <<attempt, handler, current>>
    /\ printer' \in PrinterTypes /\ printer'.run >= printer.run
    /\ printer'.run # printer.run =>
          /\ printer'.run = printer.run + 1 /\ ~Running /\ Running' /\ (connection = "lost" => S = {})
          /\ printer'.gcode \in Plates /\ FileOf[printer'.gcode] = printer'.file
          /\ printer'.gcode = disk[printer'.file]
    /\ printer'.run = printer.run =>
          /\ Running' => Running /\ printer'.file = printer.file
          /\ printer'.gcode = printer.gcode
          /\ printer.state = "standby" => printer'.state = "standby"
          /\ Running /\ ~Running' =>
                \/ printer.run \in unheard' \/ \E m \in S : Finished(m, printer.run)
                \/ printer.run \in aborted' /\ connection' # "subscribed"
    /\ unheard \subseteq unheard' /\ aborted \subseteq aborted' /\ aborted' \subseteq aborted \cup {printer.run}
    /\ aborted' # aborted => printer'.run = printer.run /\ printer'.state = "standby" /\ Running
    /\ printer'.state = "standby" =>
          /\ printer'.progress = 0 \/ printer' = printer
          /\ connection' = "subscribed" =>
                \E m \in S : m.kind = "status" /\ m.state = "standby" /\ wire' = Append(wire, m)
    /\ \A m \in S :
          /\ m.run = printer'.run /\ m.gcode = printer'.gcode
          /\ m.kind # "status" => m.state = Silent /\ Running /\ m.file = printer.file /\ printer'.run = printer.run
          /\ Starts(m) => Running' /\ printer'.run = printer.run
          /\ m.state = "standby" => m.progress # 1

\* What the worker's current_filename will be once it has received them.
NextFile(S, tell, file) ==
    /\ connection' = "subscribed" => file = printer'.file /\ (S = {} => connection = "subscribed" /\ tell[Len(wire)] = file)
    /\ \/ \A m \in S : ReportedFile(m) = Silent /\ file = tell[Len(wire)]
       \/ file # Silent /\ \A m \in S : ReportedFile(m) = file
    /\ \A m \in S : StartReported(m) => file = printer.file

LEMMA LoadReports ==
  ASSUME EndInv, DiskNamed, Basics, NEW file \in Files, Load(file), UNCHANGED <<attempt, handler, current, connection, aborted>>
  PROVE  \E S : PrinterReports(S) /\ \A tell : Told(tell) => \E next : NextFile(S, tell, next)
<1>1. /\ printer' = [state |-> "loading", file |-> file, progress |-> 0, run |-> printer.run + 1,
                     gcode |-> disk[file]]
      /\ ~Running /\ Send(StatusUpdate("standby", IF file = printer.file THEN Silent ELSE file, 0))
      /\ unheard' = IF connection # "lost" THEN unheard ELSE unheard \cup ({printer.run} \ {0})
    BY DEF Load
<1> DEFINE known == IF file = printer.file THEN Silent ELSE file
           m == StatusUpdate("standby", known, 0)
           S == {n \in {m} : IsSent(n)}
<1>2. m = [kind |-> "status", state |-> "standby", file |-> known, progress |-> 0, run |-> printer'.run,
           gcode |-> printer'.gcode]
    BY StatusRecord
<1>3. /\ printer.run \in Nat /\ disk[file] \in Plates /\ FileOf[disk[file]] = file
      /\ wire \in Seq(Messages) /\ printer \in PrinterTypes
    BY DEF EndInv, Types, LinkTypes, PrinterTypes, Load, DiskNamed
<1>4. known \in Files \cup {NoFile, Silent} /\ (known = Silent <=> file = printer.file) /\ (known # Silent => known = file)
      /\ Silent # file
    BY PrinterSyncAssumption
<1> HIDE DEF known
<1>5. /\ m \in Messages /\ m.run = printer'.run /\ m.state = "standby" /\ m.kind = "status" /\ m.progress = 0
      /\ m.file = known /\ m.gcode = printer'.gcode /\ Send(m)
    BY <1>1, <1>2, <1>3, <1>4 DEF Messages, known
<1> HIDE DEF m
<1>6. Delivers(S)
    BY <1>3, <1>5, SendDelivers
<1>7. printer' \in PrinterTypes /\ printer'.run = printer.run + 1 /\ printer'.state = "loading" /\ printer'.file = file
      /\ printer'.gcode = disk[file]
    BY <1>1, <1>3 DEF PrinterTypes
<1>8. Running' /\ S \in SUBSET Messages /\ \A n \in S : n = m
    BY <1>5, <1>7 DEF Running
<1>9. connection = "lost" => S = {}
    BY DEF IsSent
<1>10. PrinterReports(S)
    BY <1>1, <1>3, <1>5, <1>6, <1>7, <1>8, <1>9 DEF PrinterReports, Starts, StartReported
<1>11. ASSUME NEW tell, Told(tell) PROVE \E next : NextFile(S, tell, next)
    <2>1. ReportedFile(m) = known /\ ~StartReported(m)
        BY <1>5 DEF ReportedFile, StartReported
    <2>2. connection = "subscribed" => m \in S /\ tell[Len(wire)] = printer.file
        BY <1>11 DEF IsSent, Told
    <2>3. CASE known = Silent
        <3>1. NextFile(S, tell, tell[Len(wire)])
            BY <1>4, <1>7, <1>8, <2>1, <2>2, <2>3 DEF NextFile
        <3> QED BY <3>1
    <2>4. CASE known # Silent
        <3>1. NextFile(S, tell, file)
            BY <1>4, <1>7, <1>8, <2>1, <2>2, <2>4 DEF NextFile
        <3> QED BY <3>1
    <2> QED BY <2>3, <2>4
<1> QED BY <1>10, <1>11

\* A step of a print that goes on, or ends, and that reports no file of print_stats.
LEMMA PrintReports ==
  ASSUME EndInv, Basics, UNCHANGED <<attempt, handler, current>>, Running, printer'.run = printer.run,
         printer'.gcode = printer.gcode, printer' \in PrinterTypes, NEW S \in SUBSET Messages, Delivers(S),
         Running' => printer'.file = printer.file,
         connection' = "subscribed" => connection = "subscribed" /\ printer'.file = printer.file /\ printer'.state # "standby",
         printer'.state = "standby" => printer'.progress = 0,
         unheard \subseteq unheard', aborted \subseteq aborted', aborted' \subseteq aborted \cup {printer.run},
         aborted' # aborted => printer'.state = "standby",
         ~Running' => \/ printer.run \in unheard' \/ \E m \in S : Finished(m, printer.run)
                      \/ printer.run \in aborted' /\ connection' # "subscribed",
         \A m \in S : /\ m.run = printer'.run /\ m.gcode = printer'.gcode /\ (m.kind = "status" => m.file = Silent)
                      /\ m.kind # "status" => m.state = Silent /\ m.file = printer.file
                      /\ Starts(m) => Running' /\ (m.kind = "status" => connection = "subscribed")
                      /\ m.state # "standby"
  PROVE  \E R : PrinterReports(R) /\ \A tell : Told(tell) => \E next : NextFile(R, tell, next)
<1>1. PrinterReports(S)
    <2>1. printer.run \in Nat /\ printer.state # "standby"
        BY DEF EndInv, Types, Running
    <2> QED BY <2>1 DEF PrinterReports
<1>2. ASSUME NEW tell, Told(tell) PROVE NextFile(S, tell, tell[Len(wire)])
    <2>1. connection = "subscribed" => tell[Len(wire)] = printer.file
        BY <1>2 DEF Told
    <2> QED BY <2>1 DEF NextFile, ReportedFile, StartReported, Starts
<1> QED BY <1>1, <1>2

LEMMA PrintBeginsReports ==
  ASSUME EndInv, Basics, PrintBegins
  PROVE  \E R : PrinterReports(R) /\ \A tell : Told(tell) => \E next : NextFile(R, tell, next)
<1> DEFINE a == StatusUpdate("printing", Silent, Silent)
           b == HistoryChanged("added")
           S == {n \in {a, b} : IsSent(n)}
<1>1. /\ printer.state = "loading" /\ SendBoth(a, b) /\ UNCHANGED <<attempt, handler, current, connection, unheard, aborted>>
      /\ printer' = [state |-> "printing", file |-> printer.file, progress |-> printer.progress,
                     run |-> printer.run, gcode |-> printer.gcode]
    BY PrinterRecord DEF PrintBegins, database, history, EndInv
<1>2. /\ a \in Messages /\ b \in Messages
      /\ \A m \in {a, b} :
            /\ m.run = printer'.run /\ m.gcode = printer'.gcode /\ m.state # "standby"
            /\ m.kind = "status" => m.file = Silent
            /\ m.kind # "status" => m.state = Silent /\ m.file = printer.file
    BY <1>1, StatusTyped, HistoryTyped, StatusRecord, HistoryRecord, PrinterRecord, SilentIsNothing DEF EndInv
<1> HIDE DEF a, b
<1>3. Delivers(S) /\ S \in SUBSET Messages
    BY <1>1, <1>2, SendBothDelivers DEF EndInv, LinkTypes
<1>4. \A m \in S : m \in {a, b} /\ (m.kind = "status" => connection = "subscribed")
    BY SentTo
<1>5. printer' \in PrinterTypes /\ printer'.run = printer.run /\ printer'.gcode = printer.gcode /\ printer'.file = printer.file /\ Running /\ Running'
      /\ printer'.state = "printing"
    BY <1>1, PrinterRecord DEF PrinterTypes, Running, EndInv
<1> HIDE DEF S
<1> QED BY <1>1, <1>2, <1>3, <1>4, <1>5, PrintReports

LEMMA PrintProgressesReports ==
  ASSUME EndInv, Basics, PrintProgresses
  PROVE  \E R : PrinterReports(R) /\ \A tell : Told(tell) => \E next : NextFile(R, tell, next)
<1> DEFINE a == StatusUpdate(Silent, Silent, 1)
           S == {n \in {a} : IsSent(n)}
<1>1. /\ printer.state = "printing" /\ Send(a) /\ UNCHANGED <<attempt, handler, current, connection, unheard, aborted>>
      /\ printer' = [state |-> printer.state, file |-> printer.file, progress |-> 1,
                     run |-> printer.run, gcode |-> printer.gcode]
    BY PrinterRecord DEF PrintProgresses, database, history, EndInv
<1>2. a \in Messages /\ a.run = printer'.run /\ a.gcode = printer'.gcode /\ a.kind = "status" /\ a.file = Silent /\ a.state = Silent
    BY <1>1, StatusTyped, StatusRecord, PrinterRecord DEF EndInv
<1> HIDE DEF a
<1>3. Delivers(S) /\ S \in SUBSET Messages
    BY <1>1, <1>2, SendDelivers DEF EndInv, LinkTypes
<1>4. \A m \in S : m = a /\ connection = "subscribed"
    BY <1>2, SentTo
<1>5. printer' \in PrinterTypes /\ printer'.run = printer.run /\ printer'.gcode = printer.gcode /\ printer'.file = printer.file /\ Running /\ Running'
      /\ printer'.state = "printing"
    BY <1>1, PrinterRecord DEF PrinterTypes, Running, EndInv
<1> HIDE DEF S
<1> QED BY <1>1, <1>2, <1>3, <1>4, <1>5, PrintReports, SilentIsNothing DEF Starts, StartReported

LEMMA StopReports ==
  ASSUME EndInv, Basics, Running, Stop, UNCHANGED <<attempt, handler, current, connection, aborted>>
  PROVE  \E R : PrinterReports(R) /\ \A tell : Told(tell) => \E next : NextFile(R, tell, next)
<1> DEFINE a == StatusUpdate("over", Silent, Silent)
           b == HistoryChanged("finished")
           S == {n \in {a, b} : IsSent(n)}
<1>1. /\ SendBoth(a, b) /\ unheard' = IF connection # "lost" THEN unheard ELSE unheard \cup ({printer.run} \ {0})
      /\ printer' = [state |-> "over", file |-> printer.file, progress |-> printer.progress,
                     run |-> printer.run, gcode |-> printer.gcode]
    BY PrinterRecord DEF Stop, EndInv
<1>2. /\ a \in Messages /\ b \in Messages /\ b.kind = "finished"
      /\ \A m \in {a, b} :
            /\ m.run = printer'.run /\ m.gcode = printer'.gcode /\ m.state # "standby" /\ ~Starts(m)
            /\ m.kind = "status" => m.file = Silent
            /\ m.kind # "status" => m.state = Silent /\ m.file = printer.file
    BY <1>1, StatusTyped, HistoryTyped, StatusRecord, HistoryRecord, PrinterRecord, SilentIsNothing
       DEF EndInv, Starts, StartReported
<1> HIDE DEF a, b
<1>3. Delivers(S) /\ S \in SUBSET Messages
    BY <1>1, <1>2, SendBothDelivers DEF EndInv, LinkTypes
<1>4. connection # "lost" => b \in S
    BY <1>2 DEF IsSent, Basics
<1>5. printer' \in PrinterTypes /\ printer'.run = printer.run /\ printer'.gcode = printer.gcode /\ printer'.file = printer.file /\ ~Running'
      /\ printer'.state = "over"
    BY <1>1, PrinterRecord DEF PrinterTypes, Running, EndInv
<1>6. printer.run \in unheard' \/ b \in S
    BY <1>1, <1>4 DEF Basics
<1>7. \A m \in S : m \in {a, b}
    OBVIOUS
<1> HIDE DEF S
<1> QED BY <1>1, <1>2, <1>3, <1>5, <1>6, <1>7, PrintReports DEF Finished

LEMMA FirmwareRestartReports ==
  ASSUME EndInv, Basics, FirmwareRestart
  PROVE  \E R : PrinterReports(R) /\ \A tell : Told(tell) => \E next : NextFile(R, tell, next)
<1> DEFINE a == HistoryChanged("finished")
           S == IF printer.state = "printing" THEN {n \in {a} : IsSent(n)} ELSE {}
<1>1. /\ UNCHANGED <<attempt, handler, current, unheard>> /\ aborted' = aborted \cup {printer.run}
      /\ printer' = [state |-> "standby", file |-> NoFile, progress |-> 0,
                     run |-> printer.run, gcode |-> printer.gcode]
      /\ IF printer.state = "printing" THEN Send(a) ELSE UNCHANGED wire
      /\ Running /\ connection' # "subscribed"
    BY PrinterRecord DEF FirmwareRestart, database, EndInv
<1>2. /\ a \in Messages /\ a.run = printer'.run /\ a.gcode = printer'.gcode /\ a.kind = "finished" /\ a.state = Silent /\ a.file = printer.file
    BY <1>1, HistoryTyped, HistoryRecord, PrinterRecord DEF EndInv
<1> HIDE DEF a
<1>3. Delivers(S) /\ S \in SUBSET Messages
    <2>1. CASE printer.state = "printing"
        BY <1>1, <1>2, <2>1, SendDelivers DEF EndInv, LinkTypes
    <2>2. CASE printer.state # "printing"
        BY <1>1, <2>2 DEF EndInv, LinkTypes, Delivers, Reported
    <2> QED BY <2>1, <2>2
<1>4. \A m \in S : m = a
    OBVIOUS
<1>5. printer' \in PrinterTypes /\ printer'.run = printer.run /\ printer'.gcode = printer.gcode /\ ~Running'
      /\ printer'.state = "standby" /\ printer'.progress = 0
    BY <1>1, PrinterRecord DEF PrinterTypes, Running, EndInv
<1> HIDE DEF S
<1> QED BY <1>1, <1>2, <1>3, <1>4, <1>5, PrintReports, SilentIsNothing DEF Starts, StartReported

LEMMA SubscribedReports ==
  ASSUME EndInv, Basics, Subscribed
  PROVE  \E R : PrinterReports(R) /\ \A tell : Told(tell) => \E next : NextFile(R, tell, next)
<1> DEFINE state == CASE printer'.state = "over" -> Silent [] printer'.state = "loading" -> "standby"
                      [] OTHER -> printer'.state
           a == StatusUpdate(state, printer'.file, printer'.progress)
<1>1. /\ wire' = Append(wire, a) /\ printer' = printer /\ connection' = "subscribed"
      /\ UNCHANGED <<attempt, handler, current, unheard, aborted>>
    BY DEF Subscribed, Snapshot, database, history
<1>2. /\ state \in {"standby", "printing", Silent} /\ (state = "standby" => printer.state \in {"standby", "loading"})
      /\ (printer.state = "standby" => state = "standby") /\ (state = "printing" => printer.state = "printing")
    BY <1>1, PrinterRecord, SilentIsNothing DEF EndInv
<1> HIDE DEF state
<1>3. /\ a \in Messages /\ a.kind = "status" /\ a.state = state /\ a.progress = printer.progress
      /\ a.run = printer'.run /\ a.gcode = printer'.gcode /\ a.file = printer.file
    BY <1>1, <1>2, StatusTyped, StatusRecord, PrinterRecord DEF EndInv
<1> HIDE DEF a
<1>4. wire' \in Seq(Messages) /\ Len(wire') = Len(wire) + 1 /\ wire'[Len(wire) + 1] = a
      /\ \A i \in DOMAIN wire : wire'[i] = wire[i]
    BY <1>1, <1>3 DEF EndInv, LinkTypes
<1>5. Delivers({a})
    BY <1>4 DEF EndInv, LinkTypes, Delivers, Reported
<1>6. (printer.state = "loading" => printer.progress = 0) /\ (printer.state = "standby" => printer.progress = 0)
      /\ printer \in PrinterTypes /\ printer.run \in Nat
    BY DEF EndInv, StandbyFirst, Basics, Types, PrinterTypes
<1>8. PrinterReports({a})
    BY <1>1, <1>2, <1>3, <1>5, <1>6, SilentIsNothing DEF PrinterReports, Starts, StartReported, Running
<1>9. printer.file # Silent /\ ReportedFile(a) = printer.file
    BY <1>3, <1>6, PrinterSyncAssumption DEF PrinterTypes, ReportedFile
<1>10. \A tell : NextFile({a}, tell, printer.file)
    BY <1>1, <1>3, <1>9 DEF NextFile
<1> QED BY <1>8, <1>10

-----------------------------------------------------------------------------
(* The invariant through the steps of the printer and subscriptions.       *)

LEMMA ReportsArrive ==
  ASSUME EndInv, NEW S, PrinterReports(S)
  PROVE  /\ \A m : OnItsWay(m)' => OnItsWay(m) \/ m \in S
         /\ wire \in Seq(Messages) /\ wire' \in Seq(Messages)
         /\ Len(wire) \in Nat /\ Len(wire') \in Nat /\ Len(wire) <= Len(wire')
         /\ DOMAIN wire = 1..Len(wire) /\ DOMAIN wire' = 1..Len(wire')
         /\ \A i \in DOMAIN wire : i \in DOMAIN wire' /\ wire'[i] = wire[i]
         /\ \A i \in DOMAIN wire' : i > Len(wire) => wire'[i] \in S
         /\ \A m : OnItsWay(m) => m.run \in Nat /\ m.run <= printer.run
         /\ printer.run \in Nat /\ printer'.run \in Nat /\ handler'.msg = handler.msg
         /\ \A p \in Plates : attempt[p].run \in Nat /\ attempt[p].run <= printer.run
<1>1. wire \in Seq(Messages) /\ printer.run \in Nat /\ printer'.run \in Nat /\ Reported(S)
      /\ handler' = handler /\ \A m \in S : m.run = printer'.run
    BY DEF EndInv, Types, LinkTypes, PrinterReports, PrinterTypes, Delivers
<1>2. \A m : OnItsWay(m)' => OnItsWay(m) \/ m \in S
    BY <1>1, ReportsInOrder DEF EndInv, PrinterReports
<1>3. \A m : OnItsWay(m) => m.run \in Nat /\ m.run <= printer.run
    BY MessageShape DEF EndInv, LinkTypes, RunsInOrder, OnItsWay
<1>4. \A p \in Plates : attempt[p].run \in Nat /\ attempt[p].run <= printer.run
    BY DEF EndInv, Types, Row, RunsHaveBegun
<1>5. /\ wire' \in Seq(Messages) /\ Len(wire') \in Nat /\ Len(wire) \in Nat /\ Len(wire') >= Len(wire)
      /\ DOMAIN wire = 1..Len(wire) /\ DOMAIN wire' = 1..Len(wire')
      /\ \A i \in DOMAIN wire : wire'[i] = wire[i]
      /\ \A i \in DOMAIN wire' : i \in DOMAIN wire \/ (i > Len(wire) /\ wire'[i] \in S)
    BY <1>1 DEF Reported
<1> QED BY <1>1, <1>2, <1>3, <1>4, <1>5

LEMMA ReportsBasics ==
  ASSUME EndInv, Basics, NEW S, PrinterReports(S), connection' \in {"lost", "open", "subscribed"},
         starter'.step = "reply" =>
             Running' /\ starter'.run = printer'.run /\ printer'.file = FileOf[starter'.plate]
  PROVE  Basics'
<1>1. Running' => printer'.run > 0 /\ printer'.gcode \in Plates /\ FileOf[printer'.gcode] = printer'.file
    BY ReportsArrive DEF PrinterReports, Basics
<1>2. \A r \in aborted' : r \in Nat /\ r <= printer'.run
    BY ReportsArrive DEF PrinterReports, Basics
<1>3. printer'.run \in aborted' => printer'.state = "standby"
    BY ReportsArrive DEF PrinterReports, Basics
<1>4. printer'.state = "standby" => printer'.progress = 0
    BY DEF PrinterReports, Basics
<1>5. ASSUME NEW m \in Messages, OnItsWay(m)'
      PROVE  /\ m.kind = "finished" => m.run > 0
             /\ m.state = "standby" => m.kind = "status" /\ m.progress # 1
    <2>1. CASE OnItsWay(m)
        BY <2>1 DEF Basics
    <2>2. CASE m \in S
        BY <2>2, SilentIsNothing DEF PrinterReports, Basics
    <2> QED BY <1>5, <2>1, <2>2, ReportsArrive
<1> QED BY <1>1, <1>2, <1>3, <1>4, <1>5 DEF Basics

LEMMA ReportsNames ==
  ASSUME EndInv, Basics, NEW S, PrinterReports(S),
         NEW name, NEW tell, Told(tell), Named(name, tell), NEW file, NextFile(S, tell, file)
  PROVE  FilesKnown'
<1> DEFINE N == Len(wire)
<1>1. PICK n : n = N
    OBVIOUS
<1>2. PICK f : f = file
    OBVIOUS
<1>3. PICK run : run = printer.run
    OBVIOUS
<1>4. PICK loaded : loaded = printer'.file
    OBVIOUS
<1>5. PICK tell2 : tell2 = [i \in Nat |-> IF i <= n THEN tell[i] ELSE f]
    OBVIOUS
<1>6. PICK name2 : name2 = [r \in Nat |-> IF r <= run THEN name[r] ELSE loaded]
    OBVIOUS
<1>7. /\ n \in Nat /\ run \in Nat /\ DOMAIN wire = 1..n /\ tell2[0] = tell[0]
      /\ \A i \in 1..n : tell2[i] = tell[i] /\ tell2[i - 1] = tell[i - 1]
      /\ tell2[n] = tell[n]
      /\ \A i \in Nat : i > n => tell2[i] = f /\ (i - 1 = n => tell2[i - 1] = tell[n])
                              /\ (i - 1 # n => tell2[i - 1] = f)
      /\ \A r \in Nat : r <= run => name2[r] = name[r]
      /\ \A r \in Nat : r > run => name2[r] = loaded
    BY <1>1, <1>3, <1>5, <1>6, ReportsArrive
<1>8. Told(tell2)'
    <2>1. tell2[0] = current'
        BY <1>7 DEF Told, PrinterReports
    <2>2. ASSUME NEW i \in DOMAIN wire'
          PROVE  tell2[i] = IF ReportedFile(wire'[i]) = Silent THEN tell2[i - 1] ELSE ReportedFile(wire'[i])
        <3>1. CASE i \in DOMAIN wire
            BY <1>7, <3>1, ReportsArrive DEF Told
        <3>2. CASE i \notin DOMAIN wire
            <4>1. i \in Nat /\ i > n /\ wire'[i] \in S
                BY <1>1, <1>7, <3>2, ReportsArrive
            <4>2. \/ ReportedFile(wire'[i]) = Silent /\ f = tell[n]
                  \/ f # Silent /\ ReportedFile(wire'[i]) = f
                BY <1>1, <1>2, <4>1 DEF NextFile
            <4> QED BY <1>7, <4>1, <4>2
        <3> QED BY <3>1, <3>2
    <2>3. connection' = "subscribed" => tell2[Len(wire')] = printer'.file
        <3>1. CASE Len(wire') = n
            <4>1. S = {}
                BY <1>1, <3>1, ReportsArrive DEF PrinterReports, Delivers
            <4> QED BY <1>1, <1>7, <3>1, <4>1 DEF NextFile
        <3>2. CASE Len(wire') # n
            <4>1. Len(wire') \in Nat /\ Len(wire') > n
                BY <1>1, <3>2, ReportsArrive
            <4> QED BY <1>2, <1>7, <4>1 DEF NextFile
        <3> QED BY <3>1, <3>2
    <2> QED BY <2>1, <2>2, <2>3 DEF Told, ReportedFile
<1>9. Running' => printer'.file = name2[printer'.run]
    <2>1. CASE printer'.run = printer.run
        BY <1>3, <1>7, <2>1 DEF PrinterReports, Named
    <2>2. CASE printer'.run = printer.run + 1
        BY <1>3, <1>4, <1>7, <2>2
    <2> QED BY <2>1, <2>2 DEF PrinterReports
<1>10. ASSUME NEW m \in Messages, OnItsWay(m)', m.kind # "status" PROVE m.file = name2[m.run]
    <2>1. CASE OnItsWay(m)
        BY <1>3, <1>7, <1>10, <2>1, ReportsArrive DEF Named
    <2>2. CASE m \in S
        BY <1>3, <1>7, <1>10, <2>2 DEF PrinterReports, Named
    <2> QED BY <1>10, <2>1, <2>2, ReportsArrive
<1>11. \A p \in Plates : attempt'[p].stage = "printing" => FileOf[p] = name2[attempt'[p].run]
    BY <1>3, <1>7, ReportsArrive DEF Named, PrinterReports
<1>12. ASSUME NEW i \in DOMAIN wire', StartReported(wire'[i]) PROVE tell2[i] = name2[wire'[i].run]
    <2>1. CASE i \in DOMAIN wire
        <3>1. wire'[i] = wire[i] /\ OnItsWay(wire[i])
            BY <2>1, ReportsArrive DEF OnItsWay
        <3>2. wire[i].run \in Nat /\ wire[i].run <= run
            BY <1>3, <3>1, ReportsArrive
        <3> QED BY <1>7, <1>12, <2>1, <3>1, <3>2 DEF Named
    <2>2. CASE i \notin DOMAIN wire
        <3>1. i \in Nat /\ i > n /\ wire'[i] \in S
            BY <1>1, <1>7, <2>2, ReportsArrive
        <3>2. /\ file = printer.file /\ Running' /\ printer'.run = printer.run /\ wire'[i].run = printer.run
            BY <1>12, <3>1 DEF NextFile, PrinterReports, Starts
        <3>3. printer.file = name[printer.run]
            BY <3>2 DEF PrinterReports, Named
        <3> QED BY <1>2, <1>3, <1>7, <3>1, <3>2, <3>3
    <2> QED BY <2>1, <2>2
<1>13. handler'.step = "adopt" /\ StartReported(handler'.msg) => StartedFile(handler.msg)' = name2[handler'.msg.run]
    <2>1. handler' = handler /\ current' = current /\ OnItsWay(handler.msg)
        BY DEF PrinterReports, OnItsWay
    <2>2. handler.msg.run \in Nat /\ handler.msg.run <= run
        BY <1>3, <2>1, ReportsArrive
    <2> QED BY <1>7, <2>1, <2>2 DEF Named, StartedFile
<1>14. ASSUME NEW m \in Messages, OnItsWay(m)', Starts(m) PROVE m.gcode \in Plates /\ FileOf[m.gcode] = name2[m.run]
    <2>1. CASE OnItsWay(m)
        BY <1>3, <1>7, <1>14, <2>1, ReportsArrive DEF Named
    <2>2. CASE m \in S
        <3>1. Running /\ printer'.run = printer.run /\ m.run = printer.run /\ m.gcode = printer.gcode
            BY <1>14, <2>2 DEF PrinterReports
        <3> QED BY <1>3, <1>7, <3>1 DEF Basics, Named
    <2> QED BY <1>14, <2>1, <2>2, ReportsArrive
<1>15. Named(name2, tell2)'
    BY <1>9, <1>10, <1>11, <1>12, <1>13, <1>14 DEF Named, StartReported, Starts
<1> QED BY <1>8, <1>15 DEF FilesKnown

LEMMA ReportsEnds ==
  ASSUME EndInv, Basics, StartsEnd, EndsCome, AbortIsTold, NEW S, PrinterReports(S)
  PROVE  StartsEnd' /\ EndsCome' /\ AbortIsTold'
<1>1. ASSUME NEW run, Running, printer.run = run
      PROVE  \/ Running' /\ printer'.run = run
             \/ run \in unheard' \/ \E k \in DOMAIN wire' : k > Len(wire) /\ Finished(wire'[k], run)
             \/ run \in aborted' /\ connection' # "subscribed"
    <2>1. printer'.run = printer.run
        BY <1>1 DEF PrinterReports
    <2>2. ASSUME NEW m \in S, Finished(m, run)
          PROVE  \E k \in DOMAIN wire' : k > Len(wire) /\ Finished(wire'[k], run)
        BY <2>2 DEF PrinterReports, Delivers
    <2> QED BY <1>1, <2>1, <2>2 DEF PrinterReports
<1>2. ASSUME NEW run, Accounted(run)
      PROVE  Accounted(run)' \/ \E k \in DOMAIN wire' : k > Len(wire) /\ Finished(wire'[k], run)
    BY <1>1, <1>2 DEF PrinterReports, Accounted
<1>3. \A i \in DOMAIN wire : i \in DOMAIN wire' /\ wire'[i] = wire[i] /\ i <= Len(wire) /\ i \in Nat
    BY ReportsArrive
<1>4. ASSUME NEW i \in DOMAIN wire', NEW run, Starts(wire'[i]), wire'[i].run = run
      PROVE  Accounted(run)' \/ \E k \in DOMAIN wire' : k > i /\ Finished(wire'[k], run)
    <2>1. CASE i \in DOMAIN wire
        <3>1. wire'[i] = wire[i] /\ i <= Len(wire) /\ i \in Nat /\ Len(wire) \in Nat
              /\ \A k \in DOMAIN wire' : k \in Nat
            BY <1>3, <2>1, ReportsArrive
        <3>2. Accounted(run) \/ \E k \in DOMAIN wire : k > i /\ Finished(wire[k], run)
            BY <1>4, <2>1, <3>1 DEF StartsEnd
        <3> QED BY <1>2, <1>3, <3>1, <3>2
    <2>2. CASE i \notin DOMAIN wire
        <3>1. wire'[i] \in S
            BY <2>2, ReportsArrive
        <3> QED BY <1>4, <3>1 DEF PrinterReports, Accounted
    <2> QED BY <2>1, <2>2
<1>5. ASSUME NEW run, handler.step = "adopt", Starts(handler.msg), handler.msg.run = run
      PROVE  Accounted(run)' \/ \E k \in DOMAIN wire' : Finished(wire'[k], run)
    <2>1. Accounted(run) \/ \E k \in DOMAIN wire : Finished(wire[k], run)
        BY <1>5 DEF StartsEnd
    <2> QED BY <1>2, <1>3, <2>1
<1>6. handler' = handler /\ attempt' = attempt
    BY DEF PrinterReports
<1>7. StartsEnd'
    BY <1>4, <1>5, <1>6 DEF StartsEnd, Accounted
<1>8. ASSUME NEW p \in Plates, attempt[p].stage = "printing"
      PROVE  EndComes(p)'
    <2> DEFINE run == attempt[p].run
    <2>1. EndComes(p)
        BY <1>8 DEF EndsCome
    <2>2. CASE Current(p)
        <3>1. Running /\ printer.run = run
            BY <2>2 DEF Current
        <3> QED BY <1>1, <1>6, <3>1 DEF EndComes, AbortComes, Current
    <2>3. CASE run \in unheard
        BY <1>6, <2>3 DEF PrinterReports, EndComes
    <2>4. CASE \E k \in DOMAIN wire : Finished(wire[k], run)
        BY <1>3, <1>6, <2>4 DEF EndComes
    <2>5. CASE Handling(p) /\ Finished(handler.msg, run)
        BY <1>6, <2>5 DEF EndComes, Handling
    <2>6. CASE run \in aborted /\ AbortComes(p)
        <3>1. run \in aborted' /\ run \in Nat /\ run <= printer.run /\ printer.run \in Nat
            BY <2>6, ReportsArrive DEF PrinterReports
        <3>2. AbortComes(p)'
            <4>1. CASE printer'.run # printer.run
                BY <1>6, <3>1, <4>1 DEF AbortComes, PrinterReports
            <4>2. CASE printer'.run = printer.run /\ run # printer.run
                BY <1>6, <4>2 DEF AbortComes
            <4>3. CASE printer'.run = printer.run /\ run = printer.run
                <5>1. printer'.state = "standby"
                    BY <2>6, <4>3 DEF Basics, PrinterReports
                <5>2. CASE connection' = "subscribed"
                    <6>1. PICK m \in S : m.kind = "status" /\ m.state = "standby" /\ m.run = printer'.run
                        BY <5>1, <5>2 DEF PrinterReports
                    <6> QED BY <6>1 DEF AbortComes, IsStandby, PrinterReports, Delivers
                <5> QED BY <5>2 DEF AbortComes
            <4> QED BY <4>1, <4>2, <4>3
        <3> QED BY <1>6, <3>1, <3>2 DEF EndComes
    <2> QED BY <2>1, <2>2, <2>3, <2>4, <2>5, <2>6 DEF EndComes
<1>9. EndsCome'
    BY <1>6, <1>8 DEF EndsCome
<1>10. AbortIsTold'
    <2> SUFFICES ASSUME printer'.state = "standby", connection' = "subscribed"
                 PROVE  \E k \in DOMAIN wire' : IsStandby(wire[k])' /\ \A i \in DOMAIN wire' : i > k => wire'[i].progress # 1
        BY DEF AbortIsTold
    <2>1. PICK m \in S : /\ m.kind = "status" /\ m.state = "standby" /\ m.run = printer'.run
                         /\ wire' = Append(wire, m)
        BY DEF PrinterReports
    <2>2. Len(wire) + 1 \in DOMAIN wire' /\ wire'[Len(wire) + 1] = m /\ \A i \in DOMAIN wire' : ~(i > Len(wire) + 1)
        BY <2>1, ReportsArrive DEF PrinterReports
    <2> QED BY <2>1, <2>2 DEF IsStandby
<1> QED BY <1>7, <1>9, <1>10

-----------------------------------------------------------------------------
(* The invariant through the other steps.                                  *)

\* Attempts end or are renewed, or go on as they are.
LEMMA RowsMiss ==
  ASSUME EndInv, MissInv, UNCHANGED <<printer, wire, connection, current, handler, unheard, aborted>>,
         starter'.step = "reply" => starter' = starter,
         \A p \in Plates : attempt'[p].stage = "printing" =>
             /\ attempt[p].stage = "printing" /\ attempt'[p].run = attempt[p].run
             /\ attempt'[p].pk = attempt[p].pk /\ attempt'[p].progress = attempt[p].progress
  PROVE  MissInv'
<1>1. /\ printer' = printer /\ wire' = wire /\ connection' = connection /\ current' = current
      /\ handler' = handler /\ unheard' = unheard /\ aborted' = aborted
    OBVIOUS
<1>2. Basics'
    BY <1>1 DEF MissInv, Basics, Running, OnItsWay
<1>3. FilesKnown'
    <2>1. PICK name, tell : Told(tell) /\ Named(name, tell)
        BY DEF MissInv, FilesKnown
    <2>2. Told(tell)' /\ Named(name, tell)'
        BY <1>1, <2>1 DEF Told, Named, Running, OnItsWay, StartedFile
    <2> QED BY <2>2 DEF FilesKnown
<1>4. StartsEnd' /\ AbortIsTold'
    BY <1>1 DEF MissInv, StartsEnd, AbortIsTold, Accounted, Running, IsStandby
<1>5. ASSUME NEW p \in Plates, attempt'[p].stage = "printing" PROVE EndComes(p)'
    <2>1. EndComes(p)
        BY <1>5 DEF MissInv, EndsCome
    <2> QED BY <1>1, <1>5, <2>1 DEF EndComes, AbortComes, Current, Running, Handling, IsStandby
<1>6. EndsCome'
    BY <1>5 DEF EndsCome
<1> QED BY <1>2, <1>3, <1>4, <1>6 DEF MissInv

LEMMA ConnectMiss ==
  ASSUME EndInv, MissInv, Connect
  PROVE  MissInv'
<1>1. /\ printer' = printer /\ wire' = wire /\ connection = "lost" /\ connection' = "open" /\ current' = current
      /\ handler' = handler /\ unheard' = unheard /\ aborted' = aborted /\ attempt' = attempt /\ starter' = starter
    BY DEF Connect, database, requests, device, history
<1>2. Basics'
    BY <1>1 DEF MissInv, Basics, Running, OnItsWay
<1>3. FilesKnown'
    <2>1. PICK name, tell : Told(tell) /\ Named(name, tell)
        BY DEF MissInv, FilesKnown
    <2>2. Told(tell)' /\ Named(name, tell)'
        BY <1>1, <2>1 DEF Told, Named, Running, OnItsWay, StartedFile
    <2> QED BY <2>2 DEF FilesKnown
<1>4. StartsEnd' /\ AbortIsTold'
    BY <1>1 DEF MissInv, StartsEnd, AbortIsTold, Accounted, Running, IsStandby
<1>5. ASSUME NEW p \in Plates, attempt[p].stage = "printing" PROVE EndComes(p)'
    <2>1. EndComes(p)
        BY <1>5 DEF MissInv, EndsCome
    <2> QED BY <1>1, <1>5, <2>1 DEF EndComes, AbortComes, Current, Running, Handling, IsStandby
<1>6. EndsCome'
    BY <1>1, <1>5 DEF EndsCome
<1> QED BY <1>2, <1>3, <1>4, <1>6 DEF MissInv

\* What was on its way is lost, and what it told of counts as unheard.
LEMMA LossMiss ==
  ASSUME EndInv, MissInv, Disconnect \/ TaskLost
  PROVE  MissInv'
<1>1. /\ printer' = printer /\ wire' = <<>> /\ connection' = "lost" /\ aborted' = aborted
      /\ attempt' = attempt /\ starter' = starter /\ unheard \subseteq unheard'
      /\ \A m \in Range(wire) : m.run # 0 /\ ~(Running /\ m.run = printer.run) => m.run \in unheard'
      /\ \/ handler' = handler /\ current' = current
         \/ /\ handler' = Resting /\ current' = NoFile
            /\ handler.msg.run # 0 /\ ~(Running /\ handler.msg.run = printer.run) => handler.msg.run \in unheard'
    BY DEF Disconnect, TaskLost, LoseConnection, database, requests, device
<1>2. /\ DOMAIN wire' = {} /\ Len(wire') = 0
      /\ \A i \in DOMAIN wire : wire[i] \in Range(wire) /\ OnItsWay(wire[i]) /\ wire[i] \in Messages
    BY <1>1 DEF Range, OnItsWay, EndInv, LinkTypes
<1>3. handler' = handler \/ (handler'.step = "none" /\ handler'.msg = NoMessage)
    BY <1>1, RestingFields
<1>4. \A m : OnItsWay(m)' => OnItsWay(m) \/ m = NoMessage
    BY <1>2, <1>3 DEF OnItsWay
<1>5. Basics'
    BY <1>1, <1>4, NoMessageTyped, SilentIsNothing DEF MissInv, Basics, Running
<1>6. FilesKnown'
    <2>1. PICK name, tell : Told(tell) /\ Named(name, tell)
        BY DEF MissInv, FilesKnown
    <2>2. PICK file : file = current'
        OBVIOUS
    <2>3. PICK tell2 : tell2 = [i \in Nat |-> file]
        OBVIOUS
    <2>4. Told(tell2)'
        BY <1>1, <1>2, <2>2, <2>3 DEF Told
    <2>5. Named(name, tell2)'
        <3>1. handler'.step = "adopt" /\ StartReported(handler'.msg) => StartedFile(handler.msg)' = name[handler'.msg.run]
            BY <1>1, <2>1, RestingFields DEF Named, StartedFile
        <3>2. \A m \in Messages : OnItsWay(m)' /\ m.kind # "status" => m.file = name[m.run]
            BY <1>4, <2>1, NoMessageTyped DEF Named
        <3>3. \A m \in Messages : OnItsWay(m)' /\ Starts(m) => m.gcode \in Plates /\ FileOf[m.gcode] = name[m.run]
            BY <1>4, <2>1, NoMessageStartsNothing DEF Named
        <3> QED BY <1>1, <1>2, <2>1, <3>1, <3>2, <3>3 DEF Named, Running, StartReported, Starts
    <2> QED BY <2>4, <2>5 DEF FilesKnown
<1>7. ASSUME NEW i \in DOMAIN wire, NEW run, Finished(wire[i], run) PROVE (Running /\ run = printer.run) \/ run \in unheard'
    <2>1. run > 0 /\ run \in Nat
        BY <1>2, <1>7, MessageShape DEF Finished, MissInv, Basics
    <2> QED BY <1>1, <1>2, <1>7, <2>1 DEF Finished
<1>8. StartsEnd'
    <2> SUFFICES ASSUME handler'.step = "adopt", Starts(handler'.msg), NEW run, run = handler.msg.run
                 PROVE  Accounted(run)'
        BY <1>2, <1>3 DEF StartsEnd, Accounted
    <2>1. handler' = handler
        BY <1>3
    <2>2. Accounted(run) \/ \E k \in DOMAIN wire : Finished(wire[k], run)
        BY <2>1 DEF MissInv, StartsEnd
    <2> QED BY <1>1, <1>7, <2>2 DEF Accounted, Running
<1>9. ASSUME NEW p \in Plates, attempt[p].stage = "printing" PROVE EndComes(p)'
    <2> DEFINE run == attempt[p].run
    <2>1. EndComes(p)
        BY <1>9 DEF MissInv, EndsCome
    <2>2. CASE Current(p) \/ run \in unheard \/ run \in aborted
        BY <1>1, <2>2 DEF EndComes, AbortComes, Current, Running
    <2>3. CASE \E k \in DOMAIN wire : Finished(wire[k], run)
        BY <1>1, <1>7, <2>3 DEF EndComes, Current, Running
    <2>4. CASE Handling(p) /\ Finished(handler.msg, run)
        <3>1. CASE handler' = handler
            BY <1>1, <2>4, <3>1 DEF EndComes, Handling
        <3>2. CASE handler' # handler
            <4>1. run > 0 /\ run \in Nat /\ handler.msg.run = run
                BY <2>4, MessageShape DEF Finished, MissInv, Basics, EndInv, LinkTypes, OnItsWay
            <4> QED BY <1>1, <3>2, <4>1 DEF EndComes, Current, Running
        <3> QED BY <3>1, <3>2
    <2> QED BY <2>1, <2>2, <2>3, <2>4 DEF EndComes
<1>10. EndsCome'
    BY <1>1, <1>9 DEF EndsCome
<1>11. AbortIsTold'
    BY <1>1 DEF AbortIsTold
<1> QED BY <1>5, <1>6, <1>8, <1>10, <1>11 DEF MissInv

\* The worker takes a notification from the wire, for the attempt that is printing if
\* there is one.
LEMMA ReceiveMiss ==
  ASSUME IInv, EndInv, MissInv, Receive
  PROVE  MissInv'
<1>0. PICK m : m = Head(wire)
    OBVIOUS
<1> DEFINE r == [Resting EXCEPT !.step = "adopt", !.msg = m]
<1>1. /\ wire # <<>> /\ wire' = Tail(wire) /\ handler = Resting
      /\ printer' = printer /\ connection' = connection /\ unheard' = unheard /\ aborted' = aborted
      /\ attempt' = attempt /\ starter' = starter
      /\ current' = IF ReportedFile(m) # Silent THEN ReportedFile(m) ELSE current
      /\ \/ \E p \in InStage("printing") : handler' = Loaded(p, m)
         \/ InStage("printing") = {} /\ handler' = r
    BY <1>0 DEF Receive, database, requests, device, history
<1>2. wire \in Seq(Messages) /\ Len(wire) \in Nat /\ Len(wire) > 0 /\ DOMAIN wire = 1..Len(wire) /\ m = wire[1]
      /\ m \in Messages
    BY <1>0, <1>1 DEF EndInv, LinkTypes
<1>3. /\ wire' \in Seq(Messages) /\ Len(wire') = Len(wire) - 1 /\ DOMAIN wire' = 1..(Len(wire) - 1)
      /\ \A i \in DOMAIN wire' : wire'[i] = wire[i + 1] /\ i + 1 \in DOMAIN wire /\ i \in Nat
    BY <1>1, <1>2
<1>4. r.step = "adopt" /\ r.msg = m /\ handler.step = "none" /\ handler.msg = NoMessage
    BY <1>1, RestingFields DEF Resting
<1> HIDE DEF r
<1>5. /\ handler'.msg = m
      /\ \/ handler'.step = "adopt" /\ InStage("printing") = {}
         \/ /\ handler'.step = "apply" /\ handler'.plate \in InStage("printing")
            /\ handler'.pk = attempt[handler'.plate].pk
    <2>1. ASSUME NEW p \in InStage("printing"), handler' = Loaded(p, m)
          PROVE  handler'.msg = m /\ handler'.step = "apply" /\ handler'.plate = p /\ handler'.pk = attempt[p].pk
        BY <2>1, LoadedFields DEF InStage
    <2> QED BY <1>1, <1>4, <2>1
<1>6. OnItsWay(m) /\ \A n : OnItsWay(n)' => OnItsWay(n)
    BY <1>2, <1>3, <1>5 DEF OnItsWay
<1>7. Basics'
    BY <1>1, <1>6 DEF MissInv, Basics, Running
<1>8. FilesKnown'
    <2>1. PICK name, tell : Told(tell) /\ Named(name, tell)
        BY DEF MissInv, FilesKnown
    <2>2. PICK tell2 : tell2 = [i \in Nat |-> tell[i + 1]]
        OBVIOUS
    <2>3. \A i \in Nat : tell2[i] = tell[i + 1] /\ (i > 0 => tell2[i - 1] = tell[i])
        BY <2>2
    <2>4. tell[1] = current' /\ (ReportedFile(m) # Silent => current' = ReportedFile(m))
          /\ (ReportedFile(m) = Silent => current' = current)
        BY <1>1, <1>2, <2>1 DEF Told
    <2>5. Told(tell2)'
        <3>1. \A i \in DOMAIN wire' : tell2[i] = IF ReportedFile(wire'[i]) = Silent THEN tell2[i - 1] ELSE ReportedFile(wire'[i])
            <4> SUFFICES ASSUME NEW i \in DOMAIN wire'
                         PROVE  tell2[i] = IF ReportedFile(wire'[i]) = Silent THEN tell2[i - 1] ELSE ReportedFile(wire'[i])
                OBVIOUS
            <4>1. wire'[i] = wire[i + 1] /\ i + 1 \in DOMAIN wire /\ i \in Nat /\ i > 0 /\ (i + 1) - 1 = i
                BY <1>3
            <4>2. tell[i + 1] = IF ReportedFile(wire[i + 1]) = Silent THEN tell[(i + 1) - 1] ELSE ReportedFile(wire[i + 1])
                BY <2>1, <4>1 DEF Told
            <4> QED BY <2>3, <4>1, <4>2
        <3>2. connection' = "subscribed" => tell2[Len(wire')] = printer'.file
            BY <1>1, <1>2, <1>3, <2>1, <2>3 DEF Told
        <3>3. tell2[0] = current'
            BY <2>3, <2>4
        <3> QED BY <3>1, <3>2, <3>3 DEF Told, ReportedFile
    <2>6. \A i \in DOMAIN wire' : StartReported(wire'[i]) => tell2[i] = name[wire'[i].run]
        BY <1>3, <2>1, <2>3 DEF Named
    <2>7. StartReported(m) => StartedFile(m)' = name[m.run]
        <3>1. StartReported(m) => tell[1] = name[m.run]
            BY <1>2, <2>1 DEF Named
        <3>2. StartReported(m) => StartedFile(m)' = current'
            BY <2>4 DEF StartReported, StartedFile, ReportedFile
        <3> QED BY <2>4, <3>1, <3>2
    <2>8. Named(name, tell2)'
        <3>1. handler'.step = "adopt" /\ StartReported(handler'.msg) => StartedFile(handler.msg)' = name[handler'.msg.run]
            BY <1>5, <2>7 DEF StartedFile
        <3> QED BY <1>1, <1>6, <2>1, <2>6, <3>1 DEF Named, Running, StartReported, Starts
    <2> QED BY <2>5, <2>8 DEF FilesKnown
<1>9. StartsEnd'
    <2>1. ASSUME NEW i \in DOMAIN wire, NEW run, Starts(wire[i]), wire[i].run = run
          PROVE  \/ Accounted(run)
                 \/ \E k \in DOMAIN wire' : k + 1 > i /\ Finished(wire'[k], run)
        <3>1. CASE Accounted(run)
            BY <3>1
        <3>2. ASSUME NEW k \in DOMAIN wire, k > i, Finished(wire[k], run)
              PROVE  \E j \in DOMAIN wire' : j + 1 > i /\ Finished(wire'[j], run)
            <4>1. k - 1 \in DOMAIN wire' /\ wire'[k - 1] = wire[k] /\ (k - 1) + 1 > i
                BY <1>2, <1>3, <3>2
            <4> QED BY <3>2, <4>1
        <3> QED BY <2>1, <3>1, <3>2 DEF MissInv, StartsEnd
    <2>2. ASSUME NEW i \in DOMAIN wire', NEW run, Starts(wire'[i]), wire'[i].run = run
          PROVE  Accounted(run)' \/ \E k \in DOMAIN wire' : k > i /\ Finished(wire'[k], run)
        <3>1. wire'[i] = wire[i + 1] /\ i + 1 \in DOMAIN wire /\ i \in Nat /\ \A k \in DOMAIN wire' : k \in Nat
            BY <1>3
        <3>2. Accounted(run) \/ \E k \in DOMAIN wire' : k + 1 > i + 1 /\ Finished(wire'[k], run)
            BY <2>1, <2>2, <3>1
        <3> QED BY <1>1, <3>1, <3>2 DEF Accounted, Running
    <2>3. ASSUME NEW run, Starts(m), m.run = run
          PROVE  Accounted(run)' \/ \E k \in DOMAIN wire' : Finished(wire'[k], run)
        <3>1. Accounted(run) \/ \E k \in DOMAIN wire' : Finished(wire'[k], run)
            BY <1>2, <2>1, <2>3
        <3> QED BY <1>1, <3>1 DEF Accounted, Running
    <2> QED BY <1>5, <2>2, <2>3 DEF StartsEnd, Accounted
<1>10. ASSUME NEW p \in Plates, attempt[p].stage = "printing" PROVE EndComes(p)'
    <2>1. EndComes(p) /\ ~Handling(p)
        BY <1>4, <1>10 DEF MissInv, EndsCome, Handling
    <2>2. handler'.step = "apply" /\ handler'.plate = p /\ handler'.pk = attempt[p].pk
        <3>1. p \in InStage("printing")
            BY <1>10 DEF InStage
        <3> QED BY <1>5, <3>1 DEF IInv, OneAttemptOnPrinter
    <2>3. \A k \in DOMAIN wire : (wire[k] = m) \/ \E j \in DOMAIN wire' : wire'[j] = wire[k]
        <3> SUFFICES ASSUME NEW k \in DOMAIN wire, k # 1 PROVE \E j \in DOMAIN wire' : wire'[j] = wire[k]
            BY <1>2
        <3>1. k - 1 \in DOMAIN wire' /\ wire'[k - 1] = wire[k]
            BY <1>2, <1>3
        <3> QED BY <3>1
    <2>4. CASE \E k \in DOMAIN wire : Finished(wire[k], attempt[p].run)
        BY <1>1, <1>5, <2>2, <2>3, <2>4 DEF EndComes, Handling
    <2>5. CASE attempt[p].run \in aborted /\ AbortComes(p)
        <3>1. AbortComes(p)'
            BY <1>1, <1>5, <2>1, <2>2, <2>3, <2>5 DEF AbortComes, Handling, IsStandby
        <3> QED BY <1>1, <2>5, <3>1 DEF EndComes
    <2>6. CASE Current(p) \/ attempt[p].run \in unheard
        BY <1>1, <2>6 DEF EndComes, Current, Running
    <2> QED BY <2>1, <2>4, <2>5, <2>6 DEF EndComes
<1>11. EndsCome'
    BY <1>1, <1>10 DEF EndsCome
<1>12. AbortIsTold'
    <2> SUFFICES ASSUME printer.state = "standby", connection = "subscribed"
                 PROVE  AbortIsTold'
        BY <1>1 DEF AbortIsTold
    <2>1. CASE \A i \in DOMAIN wire : wire[i].progress # 1
        <3>1. handler'.msg.progress # 1 /\ \A i \in DOMAIN wire' : wire'[i].progress # 1
            BY <1>2, <1>3, <1>5, <2>1
        <3> QED BY <3>1 DEF AbortIsTold
    <2>2. ASSUME NEW k \in DOMAIN wire, IsStandby(wire[k]), \A i \in DOMAIN wire : i > k => wire[i].progress # 1
          PROVE  AbortIsTold'
        <3>1. CASE k = 1
            <4>1. m.progress # 1
                BY <1>2, <1>6, <2>2, <3>1 DEF IsStandby, MissInv, Basics
            <4>2. \A i \in DOMAIN wire' : wire'[i].progress # 1
                BY <1>2, <1>3, <2>2, <3>1
            <4> QED BY <1>5, <4>1, <4>2 DEF AbortIsTold
        <3>2. CASE k # 1
            <4>1. k - 1 \in DOMAIN wire' /\ wire'[k - 1] = wire[k] /\ \A i \in DOMAIN wire' : i > k - 1 => wire'[i].progress # 1
                BY <1>2, <1>3, <2>2, <3>2
            <4>2. PICK j : j = k - 1
                OBVIOUS
            <4>3. IsStandby(wire[j])'
                BY <1>1, <2>2, <4>1, <4>2 DEF IsStandby
            <4> QED BY <4>1, <4>2, <4>3 DEF AbortIsTold
        <3> QED BY <3>1, <3>2
    <2> QED BY <2>1, <2>2 DEF MissInv, AbortIsTold
<1> QED BY <1>7, <1>8, <1>9, <1>11, <1>12 DEF MissInv

\* The plate of a started print, if one is found, is of its file.
LEMMA StartedIsKnown ==
  ASSUME EndInv, NEW name, NEW tell, Named(name, tell), handler.step = "adopt", NEW p \in Plates,
         FileOf[p] = StartedFile(handler.msg)
  PROVE  Starts(handler.msg) /\ FileOf[p] = name[handler.msg.run]
<1>1. FileOf[p] # NoFile
    BY PrinterSyncAssumption
<1>2. handler.msg \in Messages /\ OnItsWay(handler.msg)
    BY DEF EndInv, LinkTypes, OnItsWay
<1>3. CASE handler.msg.kind = "added"
    BY <1>2, <1>3 DEF StartedFile, Named, Starts
<1>4. CASE StartReported(handler.msg)
    BY <1>4 DEF Named, Starts
<1>5. CASE handler.msg.kind # "added" /\ ~StartReported(handler.msg)
    BY <1>1, <1>5 DEF StartedFile, StartReported
<1> QED BY <1>3, <1>4, <1>5

\* The worker is done with a notification, or has adopted the print it tells of.
LEMMA HandledMiss ==
  ASSUME EndInv, MissInv, UNCHANGED <<printer, wire, connection, current, unheard, aborted, starter>>,
         handler'.msg \in {handler.msg, NoMessage}, handler'.step # "adopt",
         \A p \in Plates : attempt'[p].stage = "printing" =>
             \/ attempt[p].stage = "printing" /\ attempt'[p].run = attempt[p].run
             \/ handler.step = "adopt" /\ FileOf[p] = StartedFile(handler.msg) /\ attempt'[p].run = handler.msg.run
  PROVE  Basics' /\ FilesKnown' /\ StartsEnd' /\ AbortIsTold'
<1>1. /\ printer' = printer /\ wire' = wire /\ connection' = connection /\ current' = current
      /\ unheard' = unheard /\ aborted' = aborted /\ starter' = starter
    OBVIOUS
<1>2. \A m : OnItsWay(m)' => OnItsWay(m) \/ m = NoMessage
    BY <1>1 DEF OnItsWay
<1>3. Basics'
    BY <1>1, <1>2, NoMessageTyped, SilentIsNothing DEF MissInv, Basics, Running
<1>4. FilesKnown'
    <2>1. PICK name, tell : Told(tell) /\ Named(name, tell)
        BY DEF MissInv, FilesKnown
    <2>2. Told(tell)'
        BY <1>1, <2>1 DEF Told
    <2>3. \A p \in Plates : attempt'[p].stage = "printing" => FileOf[p] = name[attempt'[p].run]
        BY <2>1, StartedIsKnown DEF Named
    <2>4. \A m \in Messages : OnItsWay(m)' /\ m.kind # "status" => m.file = name[m.run]
        BY <1>2, <2>1, NoMessageTyped DEF Named
    <2>5. \A m \in Messages : OnItsWay(m)' /\ Starts(m) => m.gcode \in Plates /\ FileOf[m.gcode] = name[m.run]
        BY <1>2, <2>1, NoMessageStartsNothing DEF Named
    <2>6. Named(name, tell)'
        BY <1>1, <2>1, <2>3, <2>4, <2>5 DEF Named, Running, StartReported, Starts
    <2> QED BY <2>2, <2>6 DEF FilesKnown
<1>5. StartsEnd'
    BY <1>1 DEF MissInv, StartsEnd, Accounted, Running
<1>6. AbortIsTold'
    BY <1>1, NoMessageTyped, SilentIsNothing DEF MissInv, AbortIsTold, IsStandby
<1> QED BY <1>3, <1>4, <1>5, <1>6

LEMMA AdoptMiss ==
  ASSUME EndInv, MissInv, Adopt
  PROVE  MissInv'
<1>1. /\ handler.step = "adopt" /\ UNCHANGED <<printer, wire, connection, current, unheard, aborted, starter>>
      /\ \/ \E p \in Plates : /\ PrinterFree /\ FileOf[p] = StartedFile(handler.msg)
                              /\ MarkedStarted(p, handler.msg.run)
                              /\ handler' = [Loaded(p, handler.msg) EXCEPT !.progress = Silent]
         \/ handler' = Resting /\ attempt' = attempt
    BY DEF Adopt, UnambiguousMatch, Matches, InStage, requests, device, link
<1>2. CASE handler' = Resting /\ attempt' = attempt
    <2>1. handler'.step = "none" /\ handler'.msg = NoMessage
        BY <1>2, RestingFields
    <2>2. Basics' /\ FilesKnown' /\ StartsEnd' /\ AbortIsTold'
        BY <1>1, <1>2, <2>1, HandledMiss
    <2>3. ASSUME NEW p \in Plates, attempt[p].stage = "printing" PROVE EndComes(p)'
        <3>1. EndComes(p) /\ ~Handling(p)
            BY <1>1, <2>3 DEF MissInv, EndsCome, Handling
        <3> QED BY <1>1, <1>2, <3>1 DEF EndComes, AbortComes, Current, Running, IsStandby
    <2> QED BY <1>2, <2>2, <2>3 DEF MissInv, EndsCome
<1>3. ASSUME NEW p \in Plates, PrinterFree, FileOf[p] = StartedFile(handler.msg), MarkedStarted(p, handler.msg.run),
             handler' = [Loaded(p, handler.msg) EXCEPT !.progress = Silent]
      PROVE  MissInv'
    <2>1. handler.msg.run \in Nat
        BY MessageShape DEF EndInv, LinkTypes
    <2>2. /\ \A q \in Plates \ {p} : attempt'[q] = attempt[q]
          /\ attempt'[p].stage = "printing" /\ attempt'[p].progress = Silent /\ attempt'[p].run = handler.msg.run
        BY <1>3, <2>1, StartedColumns DEF EndInv, Changes
    <2>3. handler'.step = "apply" /\ handler'.msg = handler.msg
        BY <1>3 DEF Loaded
    <2>4. \A q \in Plates : attempt'[q].stage = "printing" => q = p
        BY <1>3, <2>2 DEF PrinterFree, InStage
    <2>5. Basics' /\ FilesKnown' /\ StartsEnd' /\ AbortIsTold'
        BY <1>1, <1>3, <2>2, <2>3, <2>4, HandledMiss
    <2>6. EndComes(p)'
        <3>1. PICK name, tell : Told(tell) /\ Named(name, tell)
            BY DEF MissInv, FilesKnown
        <3>2. Starts(handler.msg)
            BY <1>1, <1>3, <3>1, StartedIsKnown
        <3>3. Accounted(handler.msg.run) \/ \E k \in DOMAIN wire : Finished(wire[k], handler.msg.run)
            BY <1>1, <3>2 DEF MissInv, StartsEnd
        <3> QED BY <1>1, <2>2, <3>3, SilentIsNothing DEF EndComes, AbortComes, Accounted, Current, Running
    <2> QED BY <2>4, <2>5, <2>6 DEF MissInv, EndsCome
<1> QED BY <1>1, <1>2, <1>3

\* A notification has its effect on the attempt that was loaded for it.
LEMMA ApplyMiss ==
  ASSUME EndInv, MissInv, Apply
  PROVE  MissInv'
<1> DEFINE h == handler.plate
           msg == handler.msg
<1>1. /\ handler.step = "apply" /\ handler' = Resting
      /\ UNCHANGED <<printer, wire, connection, current, unheard, aborted, starter>>
      /\ IF msg.kind = "status" THEN HandleStatusUpdate(handler) ELSE HandleHistoryChanged(handler)
    BY DEF Apply, requests, device, link, history
<1>2. /\ attempt \in [Plates -> Row] /\ h \in Plates /\ msg \in Messages /\ OnItsWay(msg)
      /\ msg.progress \in {0, 1, Silent} /\ msg.kind \in {"status", "added", "finished"} /\ handler.msg = msg
    BY <1>1, MessageShape DEF EndInv, Types, LinkTypes, OnItsWay
<1>3. handler'.step = "none" /\ handler'.msg = NoMessage
    BY <1>1, RestingFields
<1>4. \/ attempt' = attempt
      \/ StillPrinting(handler) /\ attempt' = [attempt EXCEPT ![h].stage = "review"]
      \/ /\ msg.progress # Silent /\ StillPrinting(handler) /\ msg.kind = "status"
         /\ ~EndsAttempt(msg.state, handler.progress)
         /\ attempt' = [attempt EXCEPT ![h].progress = msg.progress]
    BY <1>1 DEF HandleStatusUpdate, HandleHistoryChanged, TransitionToReview
<1>5. ASSUME NEW p \in Plates, attempt'[p].stage = "printing"
      PROVE  /\ attempt[p].stage = "printing" /\ attempt'[p].run = attempt[p].run /\ attempt'[p].pk = attempt[p].pk
             /\ attempt'[p].progress # attempt[p].progress => attempt'[p].progress = msg.progress
    <2>1. CASE attempt' = attempt
        BY <1>5, <2>1
    <2>2. CASE attempt' = [attempt EXCEPT ![h].stage = "review"]
        <3>1. Changes(attempt', attempt, h, "review", attempt[h].progress, attempt[h].run, attempt[h].refused)
            BY <1>2, <2>2, ChangedColumn DEF Stages
        <3> QED BY <1>5, <3>1 DEF Changes
    <2>3. CASE msg.progress # Silent /\ attempt' = [attempt EXCEPT ![h].progress = msg.progress]
        <3>1. Changes(attempt', attempt, h, attempt[h].stage, msg.progress, attempt[h].run, attempt[h].refused)
            <4>1. attempt[h].run \in Nat /\ attempt[h].stage \in Stages
                BY <1>2 DEF Row
            <4> QED BY <1>2, <2>3, <4>1, ChangedColumn
        <3> QED BY <1>5, <3>1 DEF Changes
    <2> QED BY <1>4, <2>1, <2>2, <2>3
<1>6. ASSUME attempt[h].stage = "printing", handler.pk = attempt[h].pk, attempt'[h].stage = "printing"
      PROVE  /\ ~Finished(msg, attempt[h].run)
             /\ IsStandby(msg) => attempt[h].progress # 1
    <2>1. StillPrinting(handler)
        BY <1>6 DEF StillPrinting, h
    <2>2. attempt' # [attempt EXCEPT ![h].stage = "review"]
        <3>1. Changes([attempt EXCEPT ![h].stage = "review"], attempt, h, "review", attempt[h].progress,
                      attempt[h].run, attempt[h].refused)
            <4>1. "review" \in Stages /\ attempt[h].run \in Nat
                BY <1>2 DEF Row, Stages
            <4> QED BY <1>2, <4>1, ChangedColumn
        <3>2. [attempt EXCEPT ![h].stage = "review"][h].stage = "review"
            BY <3>1 DEF Changes
        <3> QED BY <1>6, <3>2
    <2>3. handler.progress = attempt[h].progress
        BY <1>1, <2>1 DEF EndInv, StandbyFirst, h
    <2>4. ASSUME Finished(msg, attempt[h].run) PROVE FALSE
        <3>1. PICK name, tell : Told(tell) /\ Named(name, tell)
            BY DEF MissInv, FilesKnown
        <3>2. msg.file = name[msg.run] /\ FileOf[h] = name[attempt[h].run]
            BY <1>2, <1>6, <2>4, <3>1 DEF Named, Finished
        <3>3. IsAttemptFile(handler)
            BY <1>2, <2>4, <3>2 DEF IsAttemptFile, Finished, h
        <3> QED BY <1>1, <1>2, <2>1, <2>2, <2>4, <3>3 DEF HandleHistoryChanged, TransitionToReview, Finished, h
    <2>5. ASSUME IsStandby(msg), attempt[h].progress = 1 PROVE FALSE
        <3>1. EndsAttempt(msg.state, handler.progress)
            BY <2>3, <2>5 DEF EndsAttempt, IsStandby
        <3> QED BY <1>1, <2>1, <2>2, <2>5, <3>1 DEF HandleStatusUpdate, TransitionToReview, IsStandby, h
    <2> QED BY <2>4, <2>5
<1>7. Basics' /\ FilesKnown' /\ StartsEnd' /\ AbortIsTold'
    BY <1>1, <1>3, <1>5, HandledMiss
<1>8. ASSUME NEW p \in Plates, attempt'[p].stage = "printing" PROVE EndComes(p)'
    <2>1. EndComes(p) /\ attempt'[p].run = attempt[p].run
        BY <1>5, <1>8 DEF MissInv, EndsCome
    <2>2. CASE Current(p) \/ attempt[p].run \in unheard \/ \E k \in DOMAIN wire : Finished(wire[k], attempt[p].run)
        BY <1>1, <2>1, <2>2 DEF EndComes, Current, Running
    <2>3. CASE Handling(p) /\ Finished(msg, attempt[p].run)
        BY <1>5, <1>6, <1>8, <2>3 DEF Handling
    <2>4. CASE attempt[p].run \in aborted /\ AbortComes(p)
        <3>1. CASE attempt'[p].progress # 1
            BY <1>1, <2>1, <2>4, <3>1 DEF EndComes, AbortComes
        <3>2. CASE attempt[p].run # printer.run \/ connection # "subscribed" \/ \E k \in DOMAIN wire : IsStandby(wire[k])
            BY <1>1, <2>1, <2>4, <3>2 DEF EndComes, AbortComes, IsStandby
        <3>3. CASE attempt'[p].progress = 1 /\ attempt[p].progress # 1 /\ attempt[p].run = printer.run
                   /\ connection = "subscribed"
            <4>1. msg.progress = 1 /\ printer.state = "standby"
                BY <1>5, <1>8, <2>4, <3>3 DEF MissInv, Basics
            <4>2. \E k \in DOMAIN wire : IsStandby(wire[k])
                BY <3>3, <4>1 DEF MissInv, AbortIsTold
            <4> QED BY <3>2, <4>2
        <3>4. CASE attempt[p].progress = 1 /\ Handling(p) /\ IsStandby(msg)
            BY <1>5, <1>6, <1>8, <3>4 DEF Handling
        <3> QED BY <2>4, <3>1, <3>2, <3>3, <3>4 DEF AbortComes
    <2> QED BY <2>1, <2>2, <2>3, <2>4 DEF EndComes
<1> QED BY <1>7, <1>8 DEF MissInv, EndsCome

\* A recorded start is of the print that runs.
LEMMA RecordStartedMiss ==
  ASSUME IInv, EndInv, Timely, MissInv, RecordStarted
  PROVE  MissInv'
<1> DEFINE p == starter.plate
<1>1. /\ starter.step = "reply" /\ starter'.step = "name" /\ MarkedStarted(p, starter.run)
      /\ UNCHANGED <<printer, wire, connection, current, handler, unheard, aborted>>
    <2>1. starter'.step = "name"
        BY DEF RecordStarted, EndInv, Types
    <2> QED BY <2>1 DEF RecordStarted, device, link
<1>2. p \in Plates /\ attempt[p].stage = "claimed" /\ starter.run \in Nat
    BY <1>1 DEF IInv, ClaimHeld, EndInv, Types
<1>3. Running /\ starter.run = printer.run /\ printer.file = FileOf[p]
    BY <1>1 DEF MissInv, Basics
<1>4. /\ \A q \in Plates \ {p} : attempt'[q] = attempt[q]
      /\ attempt'[p].stage = "printing" /\ attempt'[p].run = starter.run
    <2> HIDE DEF p
    <2> QED BY <1>1, <1>2, StartedColumns DEF EndInv, Changes
<1>5. \A q \in Plates : attempt'[q].stage = "printing" => q = p
    BY <1>2, <1>4 DEF IInv, OneAttemptOnPrinter, InStage
<1>6. Basics'
    BY <1>1 DEF MissInv, Basics, Running, OnItsWay
<1>7. FilesKnown'
    <2>1. PICK name, tell : Told(tell) /\ Named(name, tell)
        BY DEF MissInv, FilesKnown
    <2>2. Told(tell)'
        BY <1>1, <2>1 DEF Told
    <2>3. \A q \in Plates : attempt'[q].stage = "printing" => FileOf[q] = name[attempt'[q].run]
        BY <1>3, <1>4, <1>5, <2>1 DEF Named
    <2>4. Named(name, tell)'
        BY <1>1, <2>1, <2>3 DEF Named, Running, OnItsWay, StartedFile
    <2> QED BY <2>2, <2>4 DEF FilesKnown
<1>8. StartsEnd' /\ AbortIsTold'
    BY <1>1 DEF MissInv, StartsEnd, AbortIsTold, Accounted, Running, IsStandby
<1>9. EndsCome'
    BY <1>1, <1>3, <1>4, <1>5 DEF EndsCome, EndComes, Current, Running
<1> QED BY <1>6, <1>7, <1>8, <1>9 DEF MissInv

\* What the printer reports keeps the invariant.
LEMMA ReportsMiss ==
  ASSUME EndInv, MissInv, connection' \in {"lost", "open", "subscribed"},
         starter'.step = "reply" =>
             Running' /\ starter'.run = printer'.run /\ printer'.file = FileOf[starter'.plate],
         \E R : PrinterReports(R) /\ \A tell : Told(tell) => \E next : NextFile(R, tell, next)
  PROVE  MissInv'
<1>1. PICK R : PrinterReports(R) /\ \A tell : Told(tell) => \E next : NextFile(R, tell, next)
    OBVIOUS
<1>2. PICK name, tell : Told(tell) /\ Named(name, tell)
    BY DEF MissInv, FilesKnown
<1>3. PICK next : NextFile(R, tell, next)
    BY <1>1, <1>2
<1>4. Basics'
    BY <1>1, ReportsBasics DEF MissInv
<1>5. FilesKnown'
    BY <1>1, <1>2, <1>3, ReportsNames DEF MissInv
<1>6. StartsEnd' /\ EndsCome' /\ AbortIsTold'
    BY <1>1, ReportsEnds DEF MissInv
<1> QED BY <1>4, <1>5, <1>6 DEF MissInv

LEMMA PrintingMiss ==
  ASSUME EndInv, DiskNamed, Timely, MissInv, Printing
  PROVE  MissInv'
<1>1. connection \in {"lost", "open", "subscribed"} /\ (starter.step = "reply" =>
          Running /\ starter.run = printer.run /\ printer.file = FileOf[starter.plate])
    BY DEF MissInv, Basics
<1>2. ASSUME NEW file \in Files, StartedAtPrinter(file) PROVE MissInv'
    <2>1. Load(file) /\ UNCHANGED <<attempt, handler, current, connection, aborted, starter>> /\ ~Running
        BY <1>2 DEF StartedAtPrinter, Load, database, requests
    <2> QED BY <1>1, <2>1, LoadReports, ReportsMiss DEF MissInv
<1>3. CASE PrintBegins
    <2>1. /\ UNCHANGED <<connection, starter>> /\ Running'
          /\ printer'.run = printer.run /\ printer'.file = printer.file
        BY <1>3, PrinterRecord DEF PrintBegins, requests, Running, EndInv
    <2> QED BY <1>1, <1>3, <2>1, PrintBeginsReports, ReportsMiss DEF MissInv
<1>4. CASE PrintProgresses
    <2>1. /\ UNCHANGED <<connection, starter>> /\ Running'
          /\ printer'.run = printer.run /\ printer'.file = printer.file
        BY <1>4, PrinterRecord DEF PrintProgresses, requests, Running, EndInv
    <2> QED BY <1>1, <1>4, <2>1, PrintProgressesReports, ReportsMiss DEF MissInv
<1>5. CASE PrintEnds
    <2>1. Stop /\ UNCHANGED <<attempt, handler, current, connection, aborted, starter>> /\ Running
          /\ starter.step # "reply"
        BY <1>5 DEF PrintEnds, Recorded, Running, database, requests
    <2> QED BY <1>1, <2>1, StopReports, ReportsMiss DEF MissInv
<1>6. CASE FirmwareRestart
    <2>1. connection' \in {"lost", "open", "subscribed"} /\ starter' = starter /\ starter.step # "reply"
        BY <1>1, <1>6 DEF FirmwareRestart, Recorded, requests
    <2> QED BY <1>6, <2>1, FirmwareRestartReports, ReportsMiss DEF MissInv
<1> QED BY <1>2, <1>3, <1>4, <1>5, <1>6 DEF Printing

LEMMA WorkingMiss ==
  ASSUME IInv, EndInv, MissInv, Working
  PROVE  MissInv'
<1>1. CASE Subscribed
    <2>1. connection' = "subscribed" /\ printer' = printer /\ starter' = starter
        BY <1>1 DEF Subscribed, requests
    <2>2. starter'.step = "reply" =>
              Running' /\ starter'.run = printer'.run /\ printer'.file = FileOf[starter'.plate]
        BY <2>1 DEF MissInv, Basics, Running
    <2> QED BY <1>1, <2>1, <2>2, SubscribedReports, ReportsMiss DEF MissInv
<1> QED BY <1>1, LossMiss, ConnectMiss, ReceiveMiss, AdoptMiss, ApplyMiss DEF Working

\* The row of a plate gets another stage, or is replaced; it is not printing then.
LEMMA OneRowMiss ==
  ASSUME EndInv, MissInv, UNCHANGED <<printer, wire, connection, current, handler, unheard, aborted>>,
         starter'.step = "reply" => starter' = starter, NEW p \in Plates,
         \/ \E stage \in Stages \ {"printing"} : attempt' = [attempt EXCEPT ![p].stage = stage]
         \/ attempt' = [attempt EXCEPT ![p] = NewAttempt]
         \/ attempt' = [attempt EXCEPT ![p] = NoAttempt(p)]
  PROVE  MissInv'
<1>1. attempt \in [Plates -> Row] /\ attempt[p].run \in Nat
    BY DEF EndInv, Types, Row
<1>2. (\A q \in Plates \ {p} : attempt'[q] = attempt[q]) /\ attempt'[p].stage # "printing"
    <2>1. ASSUME NEW stage \in Stages \ {"printing"}, attempt' = [attempt EXCEPT ![p].stage = stage]
          PROVE  (\A q \in Plates \ {p} : attempt'[q] = attempt[q]) /\ attempt'[p].stage # "printing"
        <3>1. Changes(attempt', attempt, p, stage, attempt[p].progress, attempt[p].run, attempt[p].refused)
            BY <1>1, <2>1, ChangedColumn
        <3> QED BY <2>1, <3>1 DEF Changes
    <2> QED BY <1>1, <2>1 DEF NewAttempt, NoAttempt
<1> QED BY <1>2, RowsMiss

LEMMA StartingMiss ==
  ASSUME IInv, EndInv, DiskNamed, Timely, MissInv, Starting
  PROVE  MissInv'
<1>1. ASSUME NEW p \in Plates, Claim(p) PROVE MissInv'
    <2>1. /\ \E stage \in Stages \ {"printing"} : attempt' = [attempt EXCEPT ![p].stage = stage]
          /\ starter'.step # "reply"
          /\ UNCHANGED <<printer, wire, connection, current, handler, unheard, aborted>>
        BY <1>1 DEF Claim, device, link, history, Stages
    <2> QED BY <2>1, OneRowMiss
<1>2. CASE Upload \/ RecordName \/ StarterDies
    <2>1. starter'.step # "reply"
        BY <1>2 DEF Upload, RecordName, StarterDies, NoStarter, EndInv, Types
    <2> QED BY <1>2, <2>1, RowsMiss DEF Upload, UploadGcode, RecordName, StarterDies, database, device, link, history
<1>3. CASE PrinterAccepts
    <2>1. /\ Load(FileOf[starter.plate]) /\ starter'.plate = starter.plate /\ starter'.run = printer'.run
          /\ UNCHANGED <<attempt, handler, current, connection, aborted>> /\ starter.step = "start"
        <3> DEFINE a == [starter EXCEPT !.step = "reply"]
        <3>1. starter \in [step : {"none", "upload", "start", "reply", "name"}, plate : Plates \cup {NoPlate}, run : Nat]
            BY DEF EndInv, Types
        <3>2. a.plate = starter.plate /\ a = [step |-> "reply", plate |-> starter.plate, run |-> starter.run]
            BY <3>1
        <3>3. starter' = [a EXCEPT !.run = printer'.run]
            BY <1>3 DEF PrinterAccepts
        <3> HIDE DEF a
        <3> QED BY <1>3, <3>2, <3>3 DEF PrinterAccepts, database
    <2>2. FileOf[starter.plate] \in Files
        BY <2>1, PrinterSyncAssumption DEF IInv, ClaimHeld
    <2>3. Running' /\ printer'.file = FileOf[starter'.plate]
        BY <2>1 DEF Load, Running
    <2>4. \E R : PrinterReports(R) /\ \A tell : Told(tell) => \E next : NextFile(R, tell, next)
        BY <2>1, <2>2, LoadReports DEF MissInv
    <2> QED BY <2>1, <2>3, <2>4, ReportsMiss DEF MissInv, Basics
<1>4. CASE StartFails
    <2>1. /\ starter.step \in {"upload", "start", "reply"} /\ starter'.step # "reply"
          /\ attempt' = [attempt EXCEPT ![starter.plate].stage = "waiting"]
          /\ UNCHANGED <<printer, wire, connection, current, handler, unheard, aborted>>
        BY <1>4 DEF StartFails, NoStarter, device, link, history
    <2>2. starter.plate \in Plates /\ "waiting" \in Stages \ {"printing"}
        BY <2>1 DEF IInv, ClaimHeld, Stages
    <2> QED BY <2>1, <2>2, OneRowMiss
<1>5. ASSUME NEW p \in Plates, ClaimExpires(p) PROVE MissInv'
    <2>1. /\ \E stage \in Stages \ {"printing"} : attempt' = [attempt EXCEPT ![p].stage = stage]
          /\ starter' = starter
          /\ UNCHANGED <<printer, wire, connection, current, handler, unheard, aborted>>
        BY <1>5 DEF ClaimExpires, requests, device, link, history, Stages
    <2> QED BY <2>1, OneRowMiss
<1> QED BY <1>1, <1>2, <1>3, <1>4, <1>5, RecordStartedMiss DEF Starting

LEMMA ManagingMiss ==
  ASSUME EndInv, Timely, MissInv, Managing
  PROVE  MissInv'
<1>1. ASSUME NEW p \in Plates, Enqueue(p) PROVE MissInv'
    BY <1>1, OneRowMiss DEF Enqueue, requests, device, link, history
<1>2. ASSUME NEW p \in Plates, NEW retry \in BOOLEAN, Review(p, retry) PROVE MissInv'
    BY <1>2, OneRowMiss DEF Review, requests, device, link, history
<1>3. ASSUME NEW p \in Plates, RemoveEntry(p) PROVE MissInv'
    BY <1>3, OneRowMiss DEF RemoveEntry, requests, device, link, history
<1>4. ASSUME NEW p \in Plates, CancelPrint(p) PROVE MissInv'
    <2>1. CASE Running /\ Recorded /\ Stop /\ UNCHANGED attempt
        <3>1. UNCHANGED <<handler, current, connection, aborted, starter>> /\ starter.step # "reply"
            BY <1>4, <2>1 DEF CancelPrint, Recorded
        <3> QED BY <2>1, <3>1, StopReports, ReportsMiss DEF MissInv, Basics
    <2>2. CASE attempt' = [attempt EXCEPT ![p].refused = TRUE] /\ UNCHANGED <<printer, wire, unheard>>
        <3>1. Changes(attempt', attempt, p, attempt[p].stage, attempt[p].progress, attempt[p].run, TRUE)
            <4>1. attempt[p].stage \in Stages /\ attempt[p].progress \in {0, 1, Silent} /\ attempt[p].run \in Nat
                  /\ attempt \in [Plates -> Row]
                BY DEF EndInv, Types, Row
            <4> QED BY <2>2, <4>1, ChangedColumn
        <3>2. UNCHANGED <<printer, wire, connection, current, handler, unheard, aborted, starter>>
            BY <1>4, <2>2 DEF CancelPrint
        <3> QED BY <3>1, <3>2, RowsMiss DEF Changes
    <2> QED BY <1>4, <2>1, <2>2 DEF CancelPrint
<1>5. CASE MarkCancelled
    <2>1. UNCHANGED <<printer, wire, connection, current, handler, unheard, aborted, starter>>
        BY <1>5 DEF MarkCancelled, device, link, history
    <2>2. CASE attempt' = attempt
        BY <2>1, <2>2, RowsMiss
    <2>3. CASE attempt[canceller[1]].stage = "printing" /\ attempt' = [attempt EXCEPT ![canceller[1]].stage = "review"]
        <3>1. CASE canceller[1] \in Plates
            BY <2>1, <2>3, <3>1, OneRowMiss DEF Stages
        <3>2. CASE canceller[1] \notin Plates
            BY <2>2, <2>3, <3>2 DEF EndInv, Types
        <3> QED BY <3>1, <3>2
    <2> QED BY <1>5, <2>2, <2>3 DEF MarkCancelled
<1> QED BY <1>1, <1>2, <1>3, <1>4, <1>5 DEF Managing

LEMMA InitMissInv == Init => MissInv
<1> SUFFICES ASSUME Init PROVE MissInv
    OBVIOUS
<1>1. /\ attempt \in [Plates -> [stage : {"idle", "waiting"}, pk : {0}, progress : {Silent}, run : {0}, refused : {FALSE}]]
      /\ starter = NoStarter /\ wire = <<>> /\ handler = Resting /\ connection = "subscribed" /\ current = NoFile
      /\ printer = [state |-> "standby", file |-> NoFile, progress |-> 0, run |-> 0, gcode |-> NoPlate]
      /\ unheard = {} /\ aborted = {}
    BY DEF Init
<1>2. handler.step = "none" /\ handler.msg = NoMessage /\ starter.step = "none" /\ ~Running
      /\ DOMAIN wire = {} /\ Len(wire) = 0
    BY <1>1, RestingFields DEF NoStarter, Running
<1>3. \A p \in Plates : attempt[p].stage # "printing"
    BY <1>1
<1>4. Basics
    BY <1>1, <1>2, NoMessageTyped, SilentIsNothing DEF Basics, OnItsWay
<1>5. FilesKnown
    <2>1. PICK tell : tell = [i \in Nat |-> NoFile]
        OBVIOUS
    <2>2. Told(tell) /\ Named(tell, tell)
        BY <1>1, <1>2, <1>3, <2>1, NoMessageTyped, NoMessageStartsNothing DEF Told, Named, OnItsWay
    <2> QED BY <2>2 DEF FilesKnown
<1>6. StartsEnd /\ EndsCome /\ AbortIsTold
    BY <1>2, <1>3, NoMessageTyped, SilentIsNothing DEF StartsEnd, EndsCome, AbortIsTold
<1> QED BY <1>4, <1>5, <1>6 DEF MissInv

LEMMA InitDiskNamed == Init => DiskNamed
BY DEF Init, DiskNamed, LastStarted, IsLast, StartsOf

LEMMA StepDiskNamed == IInv /\ EndInv /\ DiskNamed /\ [Next]_vars => DiskNamed'
<1> SUFFICES ASSUME IInv, EndInv, DiskNamed, [Next]_vars PROVE DiskNamed'
    OBVIOUS
<1>1. CASE disk' = disk
    BY <1>1 DEF DiskNamed
<1>2. CASE Upload
    <2>1. starter.plate \in Plates /\ disk \in [Files -> Plates \cup {NoPlate}]
          /\ disk' = [disk EXCEPT ![FileOf[starter.plate]] = starter.plate]
        BY <1>2 DEF Upload, UploadGcode, IInv, ClaimHeld, EndInv, Types
    <2> QED BY <2>1 DEF DiskNamed
<1>3. disk' = disk \/ Upload
    BY DEF Next, Printing, Working, Starting, Managing, StartedAtPrinter, PrintBegins, PrintProgresses, PrintEnds,
           FirmwareRestart, Disconnect, TaskLost, LoseConnection, Connect, Subscribed, Receive, Adopt, Apply,
           Claim, PrinterAccepts, StartFails, RecordStarted, RecordName, StarterDies, ClaimExpires, Enqueue,
           CancelPrint, MarkCancelled, Review, RemoveEntry, vars, device
<1> QED BY <1>1, <1>2, <1>3

LEMMA StepMissInv == Timely /\ IInv /\ EndInv /\ DiskNamed /\ MissInv /\ [Next]_vars => MissInv'
<1> SUFFICES ASSUME Timely, IInv, EndInv, DiskNamed, MissInv, [Next]_vars PROVE MissInv'
    OBVIOUS
<1>1. CASE UNCHANGED vars
    BY <1>1, RowsMiss DEF vars, database, requests, device, link, history
<1> QED BY <1>1, PrintingMiss, WorkingMiss, StartingMiss, ManagingMiss DEF Next

\* NoEndIsMissed, for any plates, file names, delays and losses, if notifications are
\* handled before a later start is recorded: what tells of a start is followed by what
\* tells of the end, and names the file by which the attempt recognises its print.
THEOREM NoEndMissed ==
  ASSUME Timely
  PROVE  Spec => []NoEndIsMissed
<1>1. Init => IInv /\ EndInv /\ DiskNamed /\ MissInv
    BY InitIInv, InitEndInv, InitDiskNamed, InitMissInv
<1>2. (IInv /\ EndInv /\ DiskNamed /\ MissInv) /\ [Next]_vars => (IInv /\ EndInv /\ DiskNamed /\ MissInv)'
    BY StepIInv, StepEndInv, StepDiskNamed, StepMissInv
<1>3. MissInv => NoEndIsMissed
    <2> SUFFICES ASSUME MissInv, connection = "subscribed", wire = <<>>, handler = Resting,
                        NEW p \in InStage("printing")
                 PROVE  \/ Current(p) \/ attempt[p].run \in unheard
                        \/ /\ attempt[p].run \in aborted
                           /\ attempt[p].progress # 1 \/ attempt[p].run # printer.run
        BY DEF NoEndIsMissed
    <2>1. EndComes(p) /\ handler.step = "none" /\ DOMAIN wire = {}
        BY RestingFields DEF MissInv, EndsCome, InStage
    <2> QED BY <2>1 DEF EndComes, AbortComes, Handling
<1> QED BY <1>1, <1>2, <1>3, PTL DEF Spec

-----------------------------------------------------------------------------
(* Plates that share a file name are told apart.                           *)

\* A plate that started after another did not start before it.
Ordered == \A p, q \in Plates : q \in earlier[p] => p \notin earlier[q]

FromDisk(m) == m.gcode = disk[FileOf[m.gcode]]

\* What prints is on the disk, since a file is not replaced while it is printed.
PrintsTheDisk == Running => printer.gcode = disk[printer.file]

\* What tells of the start of a print tells of one plate.
OneGcodePerPrint ==
    \A m \in Messages : OnItsWay(m) /\ Starts(m) =>
        /\ m.run = printer.run => m.gcode = printer.gcode
        /\ \A n \in Messages : OnItsWay(n) /\ Starts(n) /\ n.run = m.run => n.gcode = m.gcode

\* As long as an earlier print is on its way nothing has replaced what a later one printed.
LaterFromDisk ==
    \A m, n \in Messages : OnItsWay(m) /\ m # NoMessage /\ OnItsWay(n) /\ Starts(n) /\ m.run < n.run => FromDisk(n)

\* The plate that the table tells is that whose G-code the printer has.
TableTells == \A file \in Files : file \notin untold => LastStarted(file) = disk[file]

\* So it is for the prints that are on their way; and for all of them while a start has
\* been recorded whose name will be.
StartsAreTold ==
    \A m \in Messages : OnItsWay(m) /\ Starts(m) /\ (FileOf[m.gcode] \notin untold \/ starter.step = "name") => FromDisk(m)

\* What a start has uploaded stays until it is through.
UploadStays ==
    starter.step \in {"start", "reply", "name"} => starter.plate \in Plates /\ disk[FileOf[starter.plate]] = starter.plate

GcodeInv ==
    /\ remote \subseteq Plates /\ earlier \in [Plates -> SUBSET Plates]
    /\ Ordered
    /\ PrintsTheDisk
    /\ OneGcodePerPrint
    /\ LaterFromDisk
    /\ TableTells
    /\ StartsAreTold
    /\ UploadStays

\* What the last start of a name depends on.
LEMMA LastStartedIs ==
  ASSUME Ordered, NEW p \in Plates, NEW file, IsLast(p, file)
  PROVE  LastStarted(file) = p
<1> SUFFICES ASSUME NEW q \in Plates, IsLast(q, file), q # p PROVE FALSE
    BY DEF LastStarted
<1> QED BY DEF IsLast, StartsOf, Ordered

LEMMA LastStartedOf ==
  ASSUME NEW p \in Plates, NEW file, LastStarted(file) = p
  PROVE  IsLast(p, file)
BY PrinterSyncAssumption DEF LastStarted

\* A recorded start changes the last start of its own name only.
LEMMA OtherNames ==
  ASSUME earlier \in [Plates -> SUBSET Plates], NEW p \in Plates, NEW run, MarkedStarted(p, run), remote' = remote,
         NEW file, p \notin StartsOf(file)
  PROVE  LastStarted(file)' = LastStarted(file)
<1>1. earlier' = [q \in Plates |-> IF q = p THEN Plates \ {p} ELSE earlier[q] \ {p}]
    BY DEF MarkedStarted
<1>2. StartsOf(file)' = StartsOf(file)
    BY DEF StartsOf
<1>3. \A q \in Plates : IsLast(q, file)' <=> IsLast(q, file)
    BY <1>1, <1>2 DEF IsLast
<1> QED BY <1>3 DEF LastStarted

LEMMA StartedIsLast ==
  ASSUME GcodeInv, NEW p \in Plates, NEW run, MarkedStarted(p, run), remote' = remote
  PROVE  /\ (earlier \in [Plates -> SUBSET Plates])' /\ Ordered'
         /\ p \in remote => LastStarted(FileOf[p])' = p
<1>1. /\ earlier' = [q \in Plates |-> IF q = p THEN Plates \ {p} ELSE earlier[q] \ {p}]
      /\ earlier \in [Plates -> SUBSET Plates]
    BY DEF MarkedStarted, GcodeInv
<1>2. (earlier \in [Plates -> SUBSET Plates])' /\ Ordered'
    BY <1>1 DEF GcodeInv, Ordered
<1>3. p \in remote => IsLast(p, FileOf[p])'
    BY <1>1 DEF IsLast, StartsOf, GcodeInv
<1>4. ASSUME p \in remote, NEW q \in Plates, IsLast(q, FileOf[p])' PROVE q = p
    BY <1>1, <1>4 DEF IsLast, StartsOf
<1> QED BY <1>2, <1>3, <1>4 DEF LastStarted

\* Steps that leave the printer, the files and what the table tells of them alone.
LEMMA FewerGcodes ==
  ASSUME GcodeInv, UNCHANGED <<earlier, remote, disk, printer, untold>>,
         \A m : OnItsWay(m)' => OnItsWay(m) \/ m = NoMessage,
         starter'.step \in {"start", "reply", "name"} =>
             /\ starter.step \in {"start", "reply", "name"} /\ starter'.plate = starter.plate
             /\ starter'.step = "name" => starter.step = "name"
  PROVE  GcodeInv'
<1>1. /\ earlier' = earlier /\ remote' = remote /\ disk' = disk /\ printer' = printer /\ untold' = untold
    OBVIOUS
<1>2. \A m : (OnItsWay(m)' /\ Starts(m) => OnItsWay(m)) /\ (OnItsWay(m)' /\ m # NoMessage => OnItsWay(m))
    BY NoMessageStartsNothing
<1>3. Ordered' /\ PrintsTheDisk' /\ UploadStays'
    BY <1>1 DEF GcodeInv, Ordered, PrintsTheDisk, Running, UploadStays
<1>4. TableTells'
    BY <1>1 DEF GcodeInv, TableTells, LastStarted, IsLast, StartsOf
<1>5. OneGcodePerPrint' /\ LaterFromDisk' /\ StartsAreTold'
    BY <1>1, <1>2 DEF GcodeInv, OneGcodePerPrint, LaterFromDisk, StartsAreTold, FromDisk, Starts, StartReported
<1> QED BY <1>1, <1>3, <1>4, <1>5 DEF GcodeInv

\* The printer reports: what starts is a print of what is on the disk.
LEMMA ReportsGcodes ==
  ASSUME EndInv, Basics, GcodeInv, NEW S, PrinterReports(S), UNCHANGED <<earlier, remote, disk, untold>>,
         starter'.step \in {"start", "reply", "name"} =>
             /\ starter.step \in {"start", "reply", "name"} /\ starter'.plate = starter.plate
             /\ starter'.step = "name" => starter.step = "name"
  PROVE  GcodeInv'
<1>1. /\ earlier' = earlier /\ remote' = remote /\ disk' = disk /\ untold' = untold
      /\ printer.run \in Nat /\ printer'.run \in Nat
    BY ReportsArrive
<1>2. PrintsTheDisk'
    BY <1>1 DEF GcodeInv, PrintsTheDisk, PrinterReports
<1>3. ASSUME NEW m \in S, Starts(m)
      PROVE  /\ m.run = printer.run /\ printer'.run = printer.run /\ m.gcode = printer.gcode
             /\ printer'.gcode = printer.gcode /\ FromDisk(m)
    <2>1. Running /\ printer'.run = printer.run /\ m.run = printer.run /\ m.gcode = printer.gcode
          /\ printer'.gcode = printer.gcode
        BY <1>3 DEF PrinterReports
    <2> QED BY <2>1 DEF GcodeInv, PrintsTheDisk, Basics, FromDisk
<1>4. ASSUME NEW m, OnItsWay(m)' PROVE (OnItsWay(m) /\ m.run \in Nat /\ m.run <= printer.run) \/ m \in S
    BY <1>4, ReportsArrive
<1>5. OneGcodePerPrint'
    <2> SUFFICES ASSUME NEW m \in Messages, OnItsWay(m)', Starts(m)
                 PROVE  /\ m.run = printer'.run => m.gcode = printer'.gcode
                        /\ \A n \in Messages : OnItsWay(n)' /\ Starts(n) /\ n.run = m.run => n.gcode = m.gcode
        BY DEF OneGcodePerPrint, Starts, StartReported
    <2>1. ASSUME NEW n \in Messages, OnItsWay(n)', Starts(n), n.run = printer'.run PROVE n.gcode = printer'.gcode
        <3>1. CASE OnItsWay(n) /\ n.run \in Nat /\ n.run <= printer.run
            <4>1. printer'.run = printer.run /\ printer'.gcode = printer.gcode
                BY <1>1, <2>1, <3>1 DEF PrinterReports
            <4> QED BY <2>1, <3>1, <4>1 DEF GcodeInv, OneGcodePerPrint
        <3> QED BY <1>3, <1>4, <2>1, <3>1
    <2>2. ASSUME NEW n \in Messages, OnItsWay(n)', Starts(n), n.run = m.run, n.run # printer'.run
          PROVE  n.gcode = m.gcode
        <3>1. OnItsWay(n) /\ OnItsWay(m)
            BY <1>3, <1>4, <2>2
        <3> QED BY <2>2, <3>1 DEF GcodeInv, OneGcodePerPrint
    <2> QED BY <2>1, <2>2
<1>6. LaterFromDisk'
    <2> SUFFICES ASSUME NEW m \in Messages, NEW n \in Messages, OnItsWay(m)', m # NoMessage, OnItsWay(n)', Starts(n),
                        m.run < n.run
                 PROVE  FromDisk(n)
        BY <1>1 DEF LaterFromDisk, FromDisk, Starts, StartReported
    <2>1. CASE n \in S
        BY <1>3, <2>1
    <2>2. CASE OnItsWay(n) /\ n.run \in Nat /\ n.run <= printer.run
        <3>1. m \notin S
            BY <1>1, <2>2 DEF PrinterReports
        <3> QED BY <1>4, <2>2, <3>1 DEF GcodeInv, LaterFromDisk
    <2> QED BY <1>4, <2>1, <2>2
<1>7. StartsAreTold'
    <2> SUFFICES ASSUME NEW m \in Messages, OnItsWay(m)', Starts(m), FileOf[m.gcode] \notin untold \/ starter'.step = "name"
                 PROVE  FromDisk(m)
        BY <1>1 DEF StartsAreTold, FromDisk, Starts, StartReported
    <2> QED BY <1>3, <1>4 DEF GcodeInv, StartsAreTold
<1>8. TableTells'
    BY <1>1 DEF GcodeInv, TableTells, LastStarted, IsLast, StartsOf
<1>9. Ordered' /\ UploadStays'
    BY <1>1 DEF GcodeInv, Ordered, UploadStays
<1> QED BY <1>1, <1>2, <1>5, <1>6, <1>7, <1>8, <1>9 DEF GcodeInv

\* Everything on its way is about the current print.
LEMMA OnlyCurrent ==
  ASSUME OnlyAbout(printer.run)
  PROVE  \A m : OnItsWay(m) /\ m # NoMessage => m.run = printer.run
BY DEF OnlyAbout, OnItsWay, Range

LEMMA UploadGcodes ==
  ASSUME IInv, EndInv, Basics, Timely, GcodeInv, Upload
  PROVE  GcodeInv'
<1>0. PICK p : p = starter.plate
    OBVIOUS
<1>1. /\ earlier' = earlier /\ remote' = remote /\ printer' = printer /\ wire' = wire /\ handler' = handler
      /\ disk' = [disk EXCEPT ![FileOf[p]] = p] /\ untold' = untold \cup {FileOf[p]}
      /\ ~(Running /\ printer.file = FileOf[p]) /\ OnlyAbout(printer.run)
    BY <1>0 DEF Upload, UploadGcode, database, link
<1>2. p \in Plates /\ FileOf[p] \in Files /\ disk \in [Files -> Plates \cup {NoPlate}]
      /\ starter'.step = "start" /\ starter'.plate = p
    BY <1>0, PrinterSyncAssumption DEF Upload, IInv, ClaimHeld, EndInv, Types
<1>3. disk'[FileOf[p]] = p /\ \A file \in Files : file # FileOf[p] => disk'[file] = disk[file]
    BY <1>1, <1>2
<1>4. \A m : OnItsWay(m)' <=> OnItsWay(m)
    BY <1>1 DEF OnItsWay
<1>5. \A m \in Messages : OnItsWay(m) /\ m # NoMessage => m.run = printer.run
    BY <1>1, OnlyCurrent
<1>6. PrintsTheDisk'
    BY <1>1, <1>2, <1>3, PrinterSyncAssumption DEF GcodeInv, PrintsTheDisk, Running, Basics
<1>7. OneGcodePerPrint'
    BY <1>1, <1>4 DEF GcodeInv, OneGcodePerPrint, Starts, StartReported
<1>8. LaterFromDisk'
    BY <1>4, <1>5, NoMessageStartsNothing, MessageShape, <1>1 DEF LaterFromDisk, Starts, StartReported
<1>9. TableTells'
    BY <1>1, <1>3 DEF GcodeInv, TableTells, LastStarted, IsLast, StartsOf
<1>10. StartsAreTold'
    <2> SUFFICES ASSUME NEW m \in Messages, OnItsWay(m), Starts(m), FileOf[m.gcode] \notin untold'
                 PROVE  m.gcode = disk'[FileOf[m.gcode]]
        BY <1>2, <1>4 DEF StartsAreTold, FromDisk, Starts, StartReported
    <2>1. m.gcode = disk[FileOf[m.gcode]] /\ FileOf[m.gcode] # FileOf[p]
        BY <1>1 DEF GcodeInv, StartsAreTold, FromDisk
    <2> QED BY <1>1, <1>2, <2>1
<1>11. Ordered' /\ UploadStays'
    BY <1>1, <1>2, <1>3 DEF GcodeInv, Ordered, UploadStays
<1> QED BY <1>1, <1>6, <1>7, <1>8, <1>9, <1>10, <1>11 DEF GcodeInv

\* The print of a waiting plate is recorded: its G-code was on the disk, or the table no
\* longer tells.
LEMMA AdoptGcodes ==
  ASSUME EndInv, FilesKnown, GcodeInv, Adopt
  PROVE  GcodeInv'
<1> DEFINE m == handler.msg
<1>1. /\ handler.step = "adopt" /\ UNCHANGED <<remote, disk, printer, wire, starter>>
      /\ \/ \E p \in Plates :
               /\ p \in remote /\ FileOf[p] = StartedFile(m) /\ MarkedStarted(p, m.run)
               /\ handler' = [Loaded(p, m) EXCEPT !.progress = Silent]
               /\ untold' = IF disk[FileOf[p]] = p /\ m.gcode = p
                            THEN untold \ {FileOf[p]} ELSE untold \cup {FileOf[p]}
         \/ handler' = Resting /\ UNCHANGED <<earlier, untold>>
    BY DEF Adopt, UnambiguousMatch, Matches, InStage, requests, device, link
<1>2. CASE handler' = Resting /\ UNCHANGED <<earlier, untold>>
    <2>1. \A n : OnItsWay(n)' => OnItsWay(n) \/ n = NoMessage
        BY <1>1, <1>2, RestingFields DEF OnItsWay
    <2> QED BY <1>1, <1>2, <2>1, FewerGcodes
<1>3. ASSUME NEW p \in Plates, p \in remote, FileOf[p] = StartedFile(m), MarkedStarted(p, m.run),
             handler' = [Loaded(p, m) EXCEPT !.progress = Silent],
             untold' = IF disk[FileOf[p]] = p /\ m.gcode = p THEN untold \ {FileOf[p]} ELSE untold \cup {FileOf[p]}
      PROVE  GcodeInv'
    <2>1. /\ handler'.msg = m /\ remote' = remote /\ disk' = disk /\ printer' = printer /\ starter' = starter
          /\ wire' = wire
        BY <1>1, <1>3 DEF Loaded
    <2>2. \A n : OnItsWay(n)' <=> OnItsWay(n)
        BY <2>1 DEF OnItsWay
    <2>3. m \in Messages /\ OnItsWay(m) /\ Starts(m) /\ m # NoMessage
        <3>1. PICK name, tell : Named(name, tell)
            BY DEF FilesKnown
        <3> QED BY <1>1, <1>3, <3>1, StartedIsKnown, NoMessageStartsNothing DEF EndInv, LinkTypes, OnItsWay
    <2>4. /\ (earlier \in [Plates -> SUBSET Plates])' /\ Ordered' /\ LastStarted(FileOf[p])' = p
        BY <1>3, <2>1, StartedIsLast
    <2>5. TableTells'
        <3> SUFFICES ASSUME NEW file \in Files, file \notin untold' PROVE LastStarted(file)' = disk[file]
            BY <2>1 DEF TableTells
        <3>1. CASE file = FileOf[p]
            BY <1>3, <2>4, <3>1
        <3>2. CASE file # FileOf[p]
            <4>1. p \notin StartsOf(file) /\ file \notin untold
                BY <1>3, <3>2 DEF StartsOf
            <4> QED BY <1>3, <2>1, <4>1, OtherNames DEF GcodeInv, TableTells
        <3> QED BY <3>1, <3>2
    <2>6. StartsAreTold'
        <3> SUFFICES ASSUME NEW n \in Messages, OnItsWay(n), Starts(n), FileOf[n.gcode] \notin untold' \/ starter.step = "name"
                     PROVE  FromDisk(n)
            BY <2>1, <2>2 DEF StartsAreTold, FromDisk, Starts, StartReported
        <3>1. CASE FileOf[n.gcode] \notin untold \/ starter.step = "name"
            BY <3>1 DEF GcodeInv, StartsAreTold
        <3>2. CASE FileOf[n.gcode] = FileOf[p] /\ disk[FileOf[p]] = p /\ m.gcode = p
            <4>1. m.run \in Nat /\ n.run \in Nat /\ m.run <= n.run
                BY <2>3, MessageShape DEF EndInv, RunsInOrder, OnItsWay
            <4>2. CASE m.run = n.run
                <5>1. n.gcode = m.gcode
                    BY <2>3, <4>2 DEF GcodeInv, OneGcodePerPrint
                <5> QED BY <3>2, <5>1 DEF FromDisk
            <4>3. CASE m.run < n.run
                BY <2>3, <4>3 DEF GcodeInv, LaterFromDisk
            <4> QED BY <4>1, <4>2, <4>3
        <3> QED BY <1>3, <3>1, <3>2
    <2>7. PrintsTheDisk' /\ UploadStays'
        BY <2>1 DEF GcodeInv, PrintsTheDisk, UploadStays, Running
    <2>8. OneGcodePerPrint' /\ LaterFromDisk'
        BY <2>1, <2>2 DEF GcodeInv, OneGcodePerPrint, LaterFromDisk, FromDisk, Starts, StartReported
    <2> QED BY <2>1, <2>4, <2>5, <2>6, <2>7, <2>8 DEF GcodeInv
<1> QED BY <1>1, <1>2, <1>3

LEMMA RecordStartedGcodes ==
  ASSUME EndInv, Basics, FilesKnown, Timely, GcodeInv, RecordStarted
  PROVE  GcodeInv'
<1>0. PICK p : p = starter.plate
    OBVIOUS
<1>1. /\ starter.step = "reply" /\ OnlyAbout(starter.run) /\ MarkedStarted(p, starter.run)
      /\ remote' = remote /\ disk' = disk /\ printer' = printer /\ wire' = wire /\ handler' = handler
      /\ untold' = untold \ {FileOf[q] : q \in {p} \cap remote}
    BY <1>0 DEF RecordStarted, device, link
<1>2. /\ p \in Plates /\ disk[FileOf[p]] = p /\ starter'.plate = p
      /\ Running /\ starter.run = printer.run
    BY <1>0, <1>1 DEF GcodeInv, UploadStays, Basics, RecordStarted, EndInv, Types
<1>3. (earlier \in [Plates -> SUBSET Plates])' /\ Ordered' /\ (p \in remote => LastStarted(FileOf[p])' = p)
    BY <1>1, <1>2, StartedIsLast
<1>4. \A m : OnItsWay(m)' <=> OnItsWay(m)
    BY <1>1 DEF OnItsWay
<1>5. ASSUME NEW m \in Messages, OnItsWay(m), Starts(m) PROVE FromDisk(m)
    <2>1. m.run = printer.run
        BY <1>1, <1>2, <1>5, OnlyCurrent, NoMessageStartsNothing
    <2>2. m.gcode = printer.gcode
        BY <1>5, <2>1 DEF GcodeInv, OneGcodePerPrint
    <2> QED BY <1>2, <2>2 DEF GcodeInv, PrintsTheDisk, Basics, FromDisk
<1>6. TableTells'
    <2> SUFFICES ASSUME NEW file \in Files, file \notin untold' PROVE LastStarted(file)' = disk[file]
        BY <1>1 DEF TableTells
    <2>1. CASE p \in StartsOf(file)
        BY <1>2, <1>3, <2>1 DEF StartsOf
    <2>2. CASE p \notin StartsOf(file)
        <3>1. file \notin untold
            BY <1>1, <2>2 DEF StartsOf
        <3> QED BY <1>1, <1>2, <2>2, <3>1, OtherNames DEF GcodeInv, TableTells
    <2> QED BY <2>1, <2>2
<1>7. StartsAreTold' /\ OneGcodePerPrint' /\ LaterFromDisk'
    BY <1>1, <1>4, <1>5 DEF GcodeInv, StartsAreTold, OneGcodePerPrint, LaterFromDisk, FromDisk, Starts, StartReported
<1>8. PrintsTheDisk' /\ UploadStays'
    BY <1>1, <1>2 DEF GcodeInv, PrintsTheDisk, UploadStays, Running
<1> QED BY <1>1, <1>3, <1>6, <1>7, <1>8 DEF GcodeInv

\* The name is stored: if nobody else has started one of it meanwhile, the table tells.
LEMMA RecordNameGcodes ==
  ASSUME GcodeInv, RecordName
  PROVE  GcodeInv'
<1>0. PICK p : p = starter.plate
    OBVIOUS
<1>1. /\ starter.step = "name" /\ remote' = remote \cup {p} /\ starter' = NoStarter
      /\ untold' = IF StartsOf(FileOf[p]) \ {p} \subseteq earlier[p] THEN untold \ {FileOf[p]} ELSE untold
      /\ earlier' = earlier /\ disk' = disk /\ printer' = printer /\ wire' = wire /\ handler' = handler
    BY <1>0 DEF RecordName, device, link
<1>2. p \in Plates /\ disk[FileOf[p]] = p /\ starter'.step = "none"
    BY <1>0, <1>1 DEF GcodeInv, UploadStays, NoStarter
<1>3. \A m : OnItsWay(m)' <=> OnItsWay(m)
    BY <1>1 DEF OnItsWay
<1>4. Ordered'
    BY <1>1 DEF GcodeInv, Ordered
<1>5. TableTells'
    <2> SUFFICES ASSUME NEW file \in Files, file \notin untold' PROVE LastStarted(file)' = disk[file]
        BY <1>1 DEF TableTells
    <2>1. CASE file # FileOf[p]
        <3>1. StartsOf(file)' = StartsOf(file) /\ file \notin untold
            BY <1>1, <2>1 DEF StartsOf
        <3>2. \A q \in Plates : IsLast(q, file)' <=> IsLast(q, file)
            BY <1>1, <3>1 DEF IsLast
        <3>3. LastStarted(file)' = LastStarted(file)
            BY <3>2 DEF LastStarted
        <3> QED BY <3>1, <3>3 DEF GcodeInv, TableTells
    <2>2. CASE file = FileOf[p] /\ StartsOf(file) \ {p} \subseteq earlier[p]
        <3>1. IsLast(p, file)'
            BY <1>1, <1>2, <2>2 DEF IsLast, StartsOf
        <3>2. \A q \in Plates : IsLast(q, file)' => q = p
            BY <1>1, <1>2, <3>1 DEF IsLast, StartsOf, GcodeInv, Ordered
        <3> QED BY <1>2, <2>2, <3>1, <3>2 DEF LastStarted
    <2>3. CASE file = FileOf[p] /\ ~(StartsOf(file) \ {p} \subseteq earlier[p])
        <3>1. LastStarted(file) = p
            BY <1>1, <1>2, <2>3 DEF GcodeInv, TableTells
        <3> QED BY <1>2, <2>3, <3>1, LastStartedOf DEF IsLast
    <2> QED BY <2>1, <2>2, <2>3
<1>6. StartsAreTold' /\ OneGcodePerPrint' /\ LaterFromDisk'
    BY <1>1, <1>3 DEF GcodeInv, StartsAreTold, OneGcodePerPrint, LaterFromDisk, FromDisk, Starts, StartReported
<1>7. PrintsTheDisk' /\ UploadStays'
    BY <1>1, <1>2 DEF GcodeInv, PrintsTheDisk, UploadStays, Running
<1> QED BY <1>1, <1>2, <1>4, <1>5, <1>6, <1>7 DEF GcodeInv

\* Entries and requests move on, notifications are lost or taken from the wire.
LEMMA OtherGcodes ==
  ASSUME EndInv, GcodeInv,
         \/ Disconnect \/ TaskLost \/ Connect \/ Receive \/ Apply
         \/ \E p \in Plates : Claim(p) \/ ClaimExpires(p) \/ Enqueue(p) \/ RemoveEntry(p)
         \/ \E p \in Plates, retry \in BOOLEAN : Review(p, retry)
         \/ \E p \in Plates : CancelPrint(p) /\ UNCHANGED <<printer, wire>>
         \/ MarkCancelled \/ StartFails \/ StarterDies \/ UNCHANGED vars
  PROVE  GcodeInv'
<1>1. CASE Disconnect \/ TaskLost
    <2>1. /\ UNCHANGED <<earlier, remote, disk, printer, untold, starter>> /\ wire' = <<>>
          /\ handler' = handler \/ handler' = Resting
        BY <1>1 DEF Disconnect, TaskLost, LoseConnection, database, requests, device
    <2> QED BY <2>1, RestingFields, FewerGcodes DEF OnItsWay
<1>2. CASE Receive
    <2> DEFINE r == [Resting EXCEPT !.step = "adopt", !.msg = Head(wire)]
    <2>1. /\ UNCHANGED <<earlier, remote, disk, printer, untold, starter>> /\ wire' = Tail(wire) /\ wire # <<>>
          /\ handler' = r \/ \E p \in InStage("printing") : handler' = Loaded(p, Head(wire))
        BY <1>2 DEF Receive, database, requests, device, history
    <2>2. handler'.msg = Head(wire)
        <3>1. r.msg = Head(wire)
            BY DEF Resting
        <3> HIDE DEF r
        <3> QED BY <2>1, <3>1 DEF Loaded
    <2>3. wire \in Seq(Messages)
        BY DEF EndInv, LinkTypes
    <2>4. Head(wire) = wire[1] /\ 1 \in DOMAIN wire /\ \A i \in DOMAIN wire' : wire'[i] = wire[i + 1] /\ i + 1 \in DOMAIN wire
        BY <2>1, <2>3
    <2> QED BY <2>1, <2>2, <2>4, FewerGcodes DEF OnItsWay
<1>3. CASE Apply
    BY <1>3, RestingFields, FewerGcodes DEF Apply, requests, device, link, history, OnItsWay
<1>4. ASSUME \/ Connect \/ MarkCancelled \/ StartFails \/ StarterDies \/ UNCHANGED vars
             \/ \E p \in Plates : Claim(p) \/ ClaimExpires(p) \/ Enqueue(p) \/ RemoveEntry(p)
             \/ \E p \in Plates, retry \in BOOLEAN : Review(p, retry)
             \/ \E p \in Plates : CancelPrint(p) /\ UNCHANGED <<printer, wire>>
      PROVE  GcodeInv'
    <2>1. /\ UNCHANGED <<earlier, remote, disk, printer, untold, handler, wire>>
          /\ starter' = starter \/ starter'.step \in {"none", "upload"}
        BY <1>4 DEF Connect, MarkCancelled, StartFails, StarterDies, Claim, ClaimExpires, Enqueue, RemoveEntry,
                    Review, CancelPrint, NoStarter, vars, database, requests, device, link, history
    <2> QED BY <2>1, FewerGcodes DEF OnItsWay
<1> QED BY <1>1, <1>2, <1>3, <1>4

\* The printer, a subscription, or a start that the printer accepts.
LEMMA PrinterGcodes ==
  ASSUME IInv, EndInv, DiskNamed, Basics, GcodeInv,
         \/ Printing \/ Subscribed \/ PrinterAccepts \/ \E p \in Plates : CancelPrint(p) /\ Running /\ Stop /\ UNCHANGED attempt
  PROVE  GcodeInv'
<1> DEFINE Reports == \E R : PrinterReports(R) /\ \A tell : Told(tell) => \E next : NextFile(R, tell, next)
<1>1. CASE Printing \/ Subscribed
    <2>1. Reports
        <3>1. ASSUME NEW file \in Files, StartedAtPrinter(file) PROVE Reports
            <4>1. Load(file) /\ UNCHANGED <<attempt, handler, current, connection, aborted>>
                BY <3>1 DEF StartedAtPrinter, database
            <4> QED BY <4>1, LoadReports
        <3>2. CASE PrintEnds
            <4>1. Stop /\ Running /\ UNCHANGED <<attempt, handler, current, connection, aborted>>
                BY <3>2 DEF PrintEnds, Running, database
            <4> QED BY <4>1, StopReports
        <3> QED BY <1>1, <3>1, <3>2, PrintBeginsReports, PrintProgressesReports, FirmwareRestartReports, SubscribedReports
                DEF Printing
    <2>2. UNCHANGED <<earlier, remote, disk, untold, starter>>
        BY <1>1 DEF Printing, StartedAtPrinter, PrintBegins, PrintProgresses, PrintEnds, FirmwareRestart, Subscribed,
                    database, requests, history
    <2> QED BY <2>1, <2>2, ReportsGcodes
<1>2. CASE PrinterAccepts
    <2>1. starter.step = "start" /\ starter.plate \in Plates
        BY <1>2 DEF PrinterAccepts, IInv, ClaimHeld
    <2>2. starter'.step = "reply" /\ starter'.plate = starter.plate
        <3> DEFINE a == [starter EXCEPT !.step = "reply"]
        <3>1. starter = [step |-> starter.step, plate |-> starter.plate, run |-> starter.run]
            BY DEF IInv, Shape
        <3>2. a = [step |-> "reply", plate |-> starter.plate, run |-> starter.run]
            BY <3>1
        <3>3. starter' = [a EXCEPT !.run = printer'.run]
            BY <1>2 DEF PrinterAccepts
        <3> HIDE DEF a
        <3> QED BY <3>2, <3>3
    <2>3. UNCHANGED <<attempt, handler, current, connection, aborted, earlier, remote, disk, untold>>
          /\ Load(FileOf[starter.plate])
        BY <1>2 DEF PrinterAccepts, database
    <2>4. Reports
        BY <2>1, <2>3, LoadReports, PrinterSyncAssumption
    <2> QED BY <2>1, <2>2, <2>3, <2>4, ReportsGcodes
<1>3. ASSUME NEW p \in Plates, CancelPrint(p), Running, Stop, UNCHANGED attempt PROVE GcodeInv'
    <2>1. UNCHANGED <<handler, current, connection, aborted, earlier, remote, disk, untold, starter>>
        BY <1>3 DEF CancelPrint
    <2>2. Reports
        BY <1>3, <2>1, StopReports
    <2> QED BY <2>1, <2>2, ReportsGcodes
<1> QED BY <1>1, <1>2, <1>3

LEMMA InitGcodeInv == Init => GcodeInv
<1> SUFFICES ASSUME Init PROVE GcodeInv
    OBVIOUS
<1>1. /\ starter = NoStarter /\ handler = Resting /\ wire = <<>> /\ remote \in SUBSET Plates
      /\ disk = [f \in Files |-> LastStarted(f)]
      /\ printer = [state |-> "standby", file |-> NoFile, progress |-> 0, run |-> 0, gcode |-> NoPlate]
    BY DEF Init
<1>2. ~Running /\ starter.step = "none" /\ \A m : OnItsWay(m) => m = NoMessage
    BY <1>1, RestingFields DEF Running, NoStarter, OnItsWay
<1>3. earlier \in [Plates -> SUBSET Plates] /\ Ordered
    <2>1. PICK rank \in Bijection(Plates, 1..Cardinality(Plates)) :
              earlier = [p \in Plates |-> {q \in Plates : rank[q] < rank[p]}]
        BY DEF Init
    <2>2. rank \in [Plates -> 1..Cardinality(Plates)]
        BY DEF Bijection, Injection
    <2>3. Cardinality(Plates) \in Nat
        BY PrinterSyncAssumption, FS_CardinalityType
    <2>4. \A p \in Plates : rank[p] \in Nat
        BY <2>2, <2>3
    <2> QED BY <2>1, <2>4 DEF Ordered
<1>4. PrintsTheDisk /\ UploadStays /\ TableTells
    BY <1>1, <1>2 DEF PrintsTheDisk, UploadStays, TableTells
<1>5. OneGcodePerPrint /\ LaterFromDisk /\ StartsAreTold
    BY <1>2, NoMessageStartsNothing DEF OneGcodePerPrint, LaterFromDisk, StartsAreTold
<1> QED BY <1>1, <1>3, <1>4, <1>5 DEF GcodeInv

LEMMA StepGcodeInv == Timely /\ IInv /\ EndInv /\ DiskNamed /\ MissInv /\ GcodeInv /\ [Next]_vars => GcodeInv'
<1> SUFFICES ASSUME Timely, IInv, EndInv, DiskNamed, MissInv, GcodeInv, [Next]_vars PROVE GcodeInv'
    OBVIOUS
<1>1. Basics /\ FilesKnown
    BY DEF MissInv
<1>2. CASE Printing
    BY <1>1, <1>2, PrinterGcodes
<1>3. CASE Working
    BY <1>1, <1>3, PrinterGcodes, OtherGcodes, AdoptGcodes DEF Working
<1>4. CASE Starting
    BY <1>1, <1>4, PrinterGcodes, OtherGcodes, UploadGcodes, RecordStartedGcodes, RecordNameGcodes DEF Starting
<1>5. CASE Managing
    <2>1. ASSUME NEW p \in Plates, CancelPrint(p)
          PROVE  (Running /\ Stop /\ UNCHANGED attempt) \/ UNCHANGED <<printer, wire>>
        BY <2>1 DEF CancelPrint
    <2> QED BY <1>1, <1>5, <2>1, PrinterGcodes, OtherGcodes DEF Managing
<1> QED BY <1>2, <1>3, <1>4, <1>5, OtherGcodes DEF Next

\* While a notification is looked at for a print to adopt, that is the only way by which
\* a waiting attempt gets printing.
LEMMA OnlyAdoption ==
  ASSUME IInv, EndInv, [Next]_vars, NEW p \in Plates, handler.step = "adopt",
         attempt[p].stage = "waiting", attempt'[p].stage = "printing"
  PROVE  Adopt
<1>1. attempt \in [Plates -> Row] /\ starter \in [step : {"none", "upload", "start", "reply", "name"},
                                                  plate : Plates \cup {NoPlate}, run : Nat]
    BY DEF EndInv, Types
<1>2. ASSUME NEW q \in Plates, NEW stage \in Stages \ {"printing"}, attempt' = [attempt EXCEPT ![q].stage = stage]
      PROVE  FALSE
    <2>1. Changes(attempt', attempt, q, stage, attempt[q].progress, attempt[q].run, attempt[q].refused)
        <3>1. attempt[q].run \in Nat
            BY <1>1 DEF Row
        <3> QED BY <1>1, <1>2, <3>1, ChangedColumn
    <2> QED BY <1>2, <2>1 DEF Changes
<1>3. ASSUME attempt' = attempt PROVE FALSE
    BY <1>3
<1>4. ~Printing /\ ~(UNCHANGED vars)
    BY <1>3 DEF Printing, StartedAtPrinter, PrintBegins, PrintProgresses, PrintEnds, FirmwareRestart, vars, database
<1>5. CASE Working
    BY <1>3, <1>5 DEF Working, Disconnect, TaskLost, LoseConnection, Connect, Subscribed, Receive, Apply, database
<1>6. CASE Starting
    <2>1. ~\E q \in Plates : Claim(q) \/ ClaimExpires(q)
        BY <1>2 DEF Claim, ClaimExpires, Stages
    <2>2. ~(Upload \/ PrinterAccepts \/ RecordName \/ StarterDies)
        BY <1>3 DEF Upload, PrinterAccepts, RecordName, StarterDies, database
    <2>3. ~StartFails
        BY <1>2 DEF StartFails, IInv, ClaimHeld, Stages
    <2>4. ASSUME RecordStarted PROVE FALSE
        <3>1. /\ starter.plate \in Plates /\ attempt[starter.plate].stage = "claimed" /\ starter.run \in Nat
              /\ MarkedStarted(starter.plate, starter.run)
            BY <1>1, <2>4 DEF RecordStarted, IInv, ClaimHeld
        <3>2. Changes(attempt', attempt, starter.plate, "printing", Silent, starter.run, attempt[starter.plate].refused)
            BY <3>1, StartedColumns DEF EndInv
        <3> QED BY <3>1, <3>2 DEF Changes
    <2> QED BY <1>6, <2>1, <2>2, <2>3, <2>4 DEF Starting
<1>7. CASE Managing
    <2>1. ASSUME NEW q \in Plates, Enqueue(q) \/ RemoveEntry(q) \/ \E retry \in BOOLEAN : Review(q, retry) PROVE FALSE
        BY <1>1, <2>1 DEF Enqueue, RemoveEntry, Review, NewAttempt, NoAttempt
    <2>2. ASSUME NEW q \in Plates, CancelPrint(q) PROVE FALSE
        <3>1. attempt' = [attempt EXCEPT ![q].refused = TRUE]
            BY <1>3, <2>2 DEF CancelPrint
        <3> QED BY <1>1, <3>1 DEF Row
    <2>3. ASSUME MarkCancelled PROVE FALSE
        <3>1. attempt' = [attempt EXCEPT ![canceller[1]].stage = "review"]
            BY <1>3, <2>3 DEF MarkCancelled
        <3>2. canceller[1] \notin Plates => attempt' = attempt
            BY <1>1, <3>1
        <3> QED BY <1>2, <1>3, <3>1, <3>2 DEF Stages
    <2> QED BY <1>7, <2>1, <2>2, <2>3 DEF Managing
<1> QED BY <1>4, <1>5, <1>6, <1>7 DEF Next

\* SharedNamesAreToldApart, for any number of plates of any names, losses and delays, if
\* notifications are handled in time: unless an upload whose start or name was not
\* recorded has replaced the file, or a print was counted for the wrong plate before, the
\* last recorded start of the name tells whose G-code it is that prints.
THEOREM SharedNamesToldApart ==
  ASSUME Timely
  PROVE  Spec => SharedNamesAreToldApart
<1> DEFINE Inv == IInv /\ EndInv /\ DiskNamed /\ MissInv /\ GcodeInv
           ToldApart == \A p \in Plates :
               handler.step = "adopt" /\ attempt[p].stage = "waiting" /\ attempt'[p].stage = "printing"
               /\ FileOf[p] \notin untold /\ Cardinality(Matches(handler.msg)) > 1
                   => handler.msg.gcode = p
<1>1. Init => Inv
    BY InitIInv, InitEndInv, InitDiskNamed, InitMissInv, InitGcodeInv
<1>2. Inv /\ [Next]_vars => Inv'
    BY StepIInv, StepEndInv, StepDiskNamed, StepMissInv, StepGcodeInv
<1>3. Inv /\ [Next]_vars => [ToldApart]_vars
    <2> SUFFICES ASSUME Inv, [Next]_vars, NEW p \in Plates, handler.step = "adopt", attempt[p].stage = "waiting",
                        attempt'[p].stage = "printing", FileOf[p] \notin untold,
                        Cardinality(Matches(handler.msg)) > 1
                 PROVE  handler.msg.gcode = p
        OBVIOUS
    <2> DEFINE m == handler.msg
    <2>1. Adopt
        BY OnlyAdoption
    <2>2. PICK q \in Plates : q \in UnambiguousMatch(m) /\ MarkedStarted(q, m.run)
        BY <2>1 DEF Adopt, UnambiguousMatch, Matches, InStage
    <2>3. q = p
        <3>1. m.run \in Nat
            BY MessageShape DEF EndInv, LinkTypes
        <3>2. Changes(attempt', attempt, q, "printing", Silent, m.run, attempt[q].refused)
            BY <2>2, <3>1, StartedColumns DEF EndInv
        <3> QED BY <3>2 DEF Changes
    <2>4. ~(Cardinality(Matches(m)) <= 1)
        <3>1. Matches(m) \in SUBSET Plates
            BY DEF Matches, InStage
        <3>2. Cardinality(Matches(m)) \in Nat
            BY <3>1, FS_Subset, FS_CardinalityType, PrinterSyncAssumption
        <3> QED BY <3>2
    <2>5. FileOf[p] = StartedFile(m) /\ p = LastStarted(FileOf[p])
        BY <2>2, <2>3, <2>4 DEF UnambiguousMatch, Matches
    <2>6. PICK name, tell : Named(name, tell)
        BY DEF MissInv, FilesKnown
    <2>7. Starts(m) /\ FileOf[p] = name[m.run] /\ m \in Messages /\ OnItsWay(m)
        BY <2>5, <2>6, StartedIsKnown DEF EndInv, LinkTypes, OnItsWay
    <2>8. FileOf[m.gcode] = FileOf[p]
        BY <2>6, <2>7 DEF Named
    <2>9. m.gcode = disk[FileOf[p]]
        BY <2>7, <2>8 DEF GcodeInv, StartsAreTold, FromDisk
    <2>10. FileOf[p] \in Files
        BY PrinterSyncAssumption
    <2> QED BY <2>5, <2>9, <2>10 DEF GcodeInv, TableTells
<1>4. [][ToldApart]_vars => SharedNamesAreToldApart
    BY DEF SharedNamesAreToldApart
<1> QED BY <1>1, <1>2, <1>3, <1>4, PTL DEF Spec
=============================================================================
