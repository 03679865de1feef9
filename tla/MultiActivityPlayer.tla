--------------------------- MODULE MultiActivityPlayer ---------------------------
(***************************************************************************)
(* The browser page a student works through a book assignment with, and    *)
(* the part of the server it talks to.                                     *)
(*                                                                         *)
(* The page keeps a copy of every activity (status, answers, dirty flag),  *)
(* shows one of them, and saves the one it shows: on a 30 second interval, *)
(* before moving to another activity, before leaving and before            *)
(* submitting.  Each save is an HTTP call that carries the answers of the  *)
(* moment it was made, and a continuation that runs when the answer is     *)
(* back.  The student, the interval and the countdown go on in between.    *)
(*                                                                         *)
(* The server's side is one atomic step per call: BookSubmission models    *)
(* the interleaving of calls there.                                        *)
(***************************************************************************)
EXTENDS AssignmentRow

CONSTANTS
    NumActivities,  \* activities of the assignment, in the order shown
    Habits,         \* what the student does beyond answering each activity once
    MaxCalls        \* bound on the calls in flight together

ASSUME PlayerAssumption == NumActivities \in Nat \ {0} /\ MaxCalls \in Nat

(***************************************************************************)
(* Habits.  "revise": changes answers of an activity the server holds as   *)
(* completed.  "type_ahead": changes answers, or closes the tab, while a   *)
(* call is in flight.  "wait": a call may take longer than the interval.   *)
(***************************************************************************)

VARIABLES
    page,           \* "closed", "playing" or "result"
    index,          \* currentIndex, from 1
    local,          \* activityStates: the page's copy of each activity
    isSaving,
    isSubmitting,
    dialog,         \* the modal dialog that is open
    expired,        \* hasExpired of the countdown
    away,           \* the student has stopped using the page
    calls,          \* calls in flight
    stored,         \* assignment_student_activities: status and response_data
    row,            \* assignment_students.status
    graded          \* answers_json of the completed row

session == <<page, index, local, isSaving, isSubmitting, dialog, expired, away>>
server == <<stored, row, graded>>
vars == <<page, index, local, isSaving, isSubmitting, dialog, expired, away,
          calls, stored, row, graded>>

-------------------------------------------------------------------------------
Index == 1..NumActivities

Copy == [status : Status, data : Payload, dirty : BOOLEAN]

Record == [status : Status, data : Payload]

(***************************************************************************)
(* A call in flight.  then: the code waiting for the answer; to: where a   *)
(* navigation goes; force: force_submit, also of the submission that       *)
(* follows a save; reply: what the server answered, "none" before it did.  *)
(***************************************************************************)
Call ==
    [kind  : {"save", "submit"},
     then  : {"interval", "navigate", "exit", "submit", "finish", "nobody"},
     to    : Index,
     act   : Index,
     data  : Payload,
     status: Status,
     force : BOOLEAN,
     reply : {"none", "ok", "refused", "closed", "lost"}]

Room == Cardinality(calls) < MaxCalls

AllCompleted(copies) == \A i \in Index : copies[i].status = "completed"

SaveCall(then, to, force) ==
    [kind |-> "save", then |-> then, to |-> to, act |-> index,
     data |-> local[index].data,
     status |-> IF then # "exit" /\ local[index].status = "completed"
                THEN "completed" ELSE "in_progress",
     force |-> force, reply |-> "none"]

SubmitCall(force) ==
    [kind |-> "submit", then |-> "finish", to |-> index, act |-> index,
     data |-> NoAnswers, status |-> "completed", force |-> force, reply |-> "none"]

-------------------------------------------------------------------------------
(***************************************************************************)
(* Opening the page.  ActivityPlayer is mounted anew for every activity    *)
(* shown; when it has answers to restore it reports them like new ones.    *)
(***************************************************************************)
Reported(copies, i, d) ==
    [k \in DOMAIN copies |->
        IF k = i THEN [status |-> "completed", data |-> d, dirty |-> TRUE]
        ELSE copies[k]]

Mounted(copies, i) ==
    [k \in DOMAIN copies |->
        IF k = i /\ copies[k].data # NoAnswers
        THEN [copies[k] EXCEPT !.status = "completed", !.dirty = TRUE]
        ELSE copies[k]]

\* Mutant: findIndex's -1 is taken for an index.
FirstIncompleteUnchecked(recs) ==
    IF \E i \in Index : recs[i].status # "completed"
    THEN CHOOSE i \in Index : /\ recs[i].status # "completed"
                              /\ \A k \in 1..(i - 1) : recs[k].status = "completed"
    ELSE 0

FirstIncomplete(recs) ==
    IF \E i \in Index : recs[i].status # "completed"
    THEN CHOOSE i \in Index : /\ recs[i].status # "completed"
                              /\ \A k \in 1..(i - 1) : recs[k].status = "completed"
    ELSE 1

Restored(recs) ==
    [i \in Index |-> [status |-> recs[i].status, data |-> recs[i].data, dirty |-> FALSE]]

Init ==
    /\ page = "closed"
    /\ index = 1
    /\ stored = [i \in Index |-> [status |-> "not_started", data |-> NoAnswers]]
    /\ local = Restored(stored)
    /\ isSaving = FALSE
    /\ isSubmitting = FALSE
    /\ dialog = "none"
    /\ expired = FALSE
    /\ away = FALSE
    /\ calls = {}
    /\ row = "in_progress"
    /\ graded = [i \in Index |-> NoAnswers]

\* A completed assignment answers start-multi with 409: the result page.
Open ==
    /\ page = "closed"
    /\ ~away
    /\ calls = {}
    /\ page' = IF row = "completed" THEN "result" ELSE "playing"
    /\ index' = FirstIncomplete(stored)
    /\ local' = Mounted(Restored(stored), FirstIncomplete(stored))
    /\ isSaving' = FALSE
    /\ isSubmitting' = FALSE
    /\ dialog' = "none"
    /\ expired' = FALSE
    /\ UNCHANGED <<away, calls, stored, row, graded>>

-------------------------------------------------------------------------------
(***************************************************************************)
(* The student.  A modal dialog covers the page.                           *)
(***************************************************************************)
AtWork == page = "playing" /\ ~away

OnPage == AtWork /\ dialog = "none"

\* The student may change the answers on screen.
MayChange ==
    /\ "revise" \in Habits \/ stored[index].status # "completed"
    /\ "type_ahead" \in Habits \/ calls = {}

Answer(d) ==
    /\ OnPage
    /\ MayChange
    /\ d # local[index].data
    /\ local' = Reported(local, index, d)
    /\ UNCHANGED <<page, index, isSaving, isSubmitting, dialog, expired, away, calls, server>>

\* handleNavigate, from Prev, Next and the navigation bar.
Navigate(to) ==
    /\ OnPage
    /\ ~isSaving
    /\ ~isSubmitting
    /\ to # index
    /\ isSaving' = TRUE
    /\ Room
    /\ calls' = calls \cup {SaveCall("navigate", to, FALSE)}
    /\ UNCHANGED <<page, index, local, isSubmitting, dialog, expired, away, server>>

\* handleSaveAndExit.
SaveAndExit ==
    /\ OnPage
    /\ ~isSaving
    /\ ~isSubmitting
    /\ isSaving' = TRUE
    /\ Room
    /\ calls' = calls \cup {SaveCall("exit", index, FALSE)}
    /\ UNCHANGED <<page, index, local, isSubmitting, dialog, expired, away, server>>

OpenDialog ==
    /\ OnPage
    /\ ~isSubmitting
    /\ \/ dialog' = "submit" /\ index = NumActivities
       \/ dialog' = "reset" /\ ~isSaving
    /\ UNCHANGED <<page, index, local, isSaving, isSubmitting, expired, away, calls, server>>

CancelDialog ==
    /\ AtWork
    /\ dialog # "none"
    /\ dialog' = "none"
    /\ UNCHANGED <<page, index, local, isSaving, isSubmitting, expired, away, calls, server>>

ConfirmReset ==
    /\ AtWork
    /\ dialog = "reset"
    /\ MayChange
    /\ dialog' = "none"
    /\ local' = [local EXCEPT ![index] =
                    [status |-> "in_progress", data |-> NoAnswers, dirty |-> TRUE]]
    /\ UNCHANGED <<page, index, isSaving, isSubmitting, expired, away, calls, server>>

\* Mutant: the submission does not wait for the save.
ConfirmSubmitAtOnce ==
    /\ AtWork
    /\ dialog = "submit"
    /\ dialog' = "none"
    /\ isSubmitting' = TRUE
    /\ isSaving' = TRUE
    /\ calls' = calls \cup {SaveCall("interval", index, FALSE),
                            SubmitCall(~AllCompleted(local))}
    /\ UNCHANGED <<page, index, local, expired, away, server>>

\* handleConfirmSubmit, up to the awaited save.
ConfirmSubmit ==
    /\ AtWork
    /\ dialog = "submit"
    /\ dialog' = "none"
    /\ isSubmitting' = TRUE
    /\ isSaving' = TRUE
    /\ Room
    /\ calls' = calls \cup {SaveCall("submit", index, ~AllCompleted(local))}
    /\ UNCHANGED <<page, index, local, expired, away, server>>

(***************************************************************************)
(* The tab is closed.  The beacon of beforeunload is a POST, which the     *)
(* endpoint does not take: it stores nothing.  A call already sent may     *)
(* still reach the server.                                                 *)
(***************************************************************************)
CloseTab ==
    /\ AtWork
    /\ "type_ahead" \in Habits \/ calls = {}
    /\ page' = "closed"
    /\ dialog' = "none"
    /\ calls' = {[c EXCEPT !.then = "nobody"] : c \in {b \in calls : b.reply = "none"}}
    /\ UNCHANGED <<index, local, isSaving, isSubmitting, expired, away, server>>

\* The student stops, with the page open or closed.
WalkAway ==
    /\ ~away
    /\ dialog = "none"
    /\ away' = TRUE
    /\ UNCHANGED <<page, index, local, isSaving, isSubmitting, dialog, expired, calls, server>>

-------------------------------------------------------------------------------
(***************************************************************************)
(* The timers of the page.                                                 *)
(***************************************************************************)
AutoSave ==
    /\ page = "playing"
    /\ local[index].dirty
    /\ "wait" \in Habits \/ calls = {}
    /\ isSaving' = TRUE
    /\ Room
    /\ calls' = calls \cup {SaveCall("interval", index, FALSE)}
    /\ UNCHANGED <<page, index, local, isSubmitting, dialog, expired, away, server>>

\* handleTimeExpired: submits what the server holds, once per visit.
TimeExpired ==
    /\ page = "playing"
    /\ ~expired
    /\ expired' = TRUE
    /\ isSubmitting' = TRUE
    /\ Room
    /\ calls' = calls \cup {SubmitCall(TRUE)}
    /\ UNCHANGED <<page, index, local, isSaving, dialog, away, server>>

-------------------------------------------------------------------------------
(***************************************************************************)
(* The server.  A save to a completed activity is answered like any other  *)
(* and changes nothing; a second submission is answered like the first.    *)
(***************************************************************************)
Answered(c, reply) == calls' = (calls \ {c}) \cup {[c EXCEPT !.reply = reply]}

ServeSave(c) ==
    /\ c.kind = "save"
    /\ c.reply = "none"
    /\ stored' = IF row = "completed" \/ stored[c.act].status = "completed" THEN stored
                 ELSE [stored EXCEPT ![c.act] = [status |-> c.status, data |-> c.data]]
    /\ Answered(c, IF row = "completed" THEN "closed" ELSE "ok")
    /\ UNCHANGED <<row, graded, session>>

ServeSubmit(c) ==
    LET refused == /\ row # "completed"
                   /\ ~c.force
                   /\ \E i \in Index : stored[i].status # "completed"
    IN  /\ c.kind = "submit"
        /\ c.reply = "none"
        /\ row' = IF refused THEN row ELSE "completed"
        /\ graded' = IF refused \/ row = "completed" THEN graded
                     ELSE [i \in Index |-> stored[i].data]
        /\ Answered(c, IF refused THEN "refused" ELSE "ok")
        /\ UNCHANGED <<stored, session>>

\* The network drops the call, or the answer to it.
Lose(c) ==
    /\ c.reply # "lost"
    /\ Answered(c, "lost")
    /\ UNCHANGED <<session, server>>

-------------------------------------------------------------------------------
(***************************************************************************)
(* The answer is back.                                                     *)
(***************************************************************************)
\* Mutant: a save that failed clears the flag too.
MarkedAlways(c) == [local EXCEPT ![c.act].dirty = FALSE]

Marked(c) == IF c.reply = "ok" THEN [local EXCEPT ![c.act].dirty = FALSE] ELSE local

\* Mutant: the page moves on whether or not the save succeeded.
MovesAlways(c) == c.then = "navigate" /\ c.to # index

Moves(c) == c.then = "navigate" /\ c.to # index /\ c.reply = "ok"

FinishSave(c) ==
    /\ c.kind = "save"
    /\ c.reply # "none"
    /\ isSaving' = FALSE
    /\ local' = IF Moves(c) THEN Mounted(Marked(c), c.to) ELSE Marked(c)
    /\ index' = IF Moves(c) THEN c.to ELSE index
    /\ page' = IF c.then = "exit" /\ c.reply = "ok" THEN "closed" ELSE page
    /\ isSubmitting' = IF c.then = "submit" /\ c.reply # "ok" THEN FALSE ELSE isSubmitting
    /\ calls' = (calls \ {c}) \cup
                (IF c.then = "submit" /\ c.reply = "ok" THEN {SubmitCall(c.force)} ELSE {})
    /\ UNCHANGED <<dialog, expired, away, server>>

FinishSubmit(c) ==
    /\ c.kind = "submit"
    /\ c.reply # "none"
    /\ isSubmitting' = FALSE
    /\ page' = IF c.then # "nobody" /\ c.reply = "ok" THEN "result" ELSE page
    /\ calls' = calls \ {c}
    /\ UNCHANGED <<index, local, isSaving, dialog, expired, away, server>>

-------------------------------------------------------------------------------
Student ==
    \/ Open
    \/ \E d \in Answers : Answer(d)
    \/ \E to \in Index : Navigate(to)
    \/ SaveAndExit
    \/ OpenDialog
    \/ CancelDialog
    \/ ConfirmReset
    \/ ConfirmSubmit
    \/ CloseTab
    \/ WalkAway

Network ==
    \E c \in calls : \/ ServeSave(c)
                     \/ ServeSubmit(c)
                     \/ Lose(c)
                     \/ FinishSave(c)
                     \/ FinishSubmit(c)

Next == Student \/ AutoSave \/ TimeExpired \/ Network

(***************************************************************************)
(* Fairness.  The interval of a page nobody types on fires; an answer that *)
(* is back is handled; the network is not down for ever.                   *)
(***************************************************************************)
Fairness ==
    /\ WF_vars(away /\ AutoSave)
    /\ WF_vars(\E c \in calls : FinishSave(c) \/ FinishSubmit(c))
    /\ SF_vars(\E c \in calls : ServeSave(c) \/ ServeSubmit(c))

Spec == Init /\ [][Next]_vars /\ Fairness

-------------------------------------------------------------------------------
(***************************************************************************)
(* Properties.                                                             *)
(***************************************************************************)
TypeOK ==
    /\ page \in {"closed", "playing", "result"}
    /\ index \in Index
    /\ local \in [Index -> Copy]
    /\ isSaving \in BOOLEAN
    /\ isSubmitting \in BOOLEAN
    /\ dialog \in {"none", "submit", "reset"}
    /\ expired \in BOOLEAN
    /\ away \in BOOLEAN
    /\ calls \in SUBSET Call
    /\ stored \in [Index -> Record]
    /\ row \in {"in_progress", "completed"}
    /\ graded \in [Index -> Payload]

\* The page moves from an activity only once its answers are stored: whatever
\* the network loses and however calls overlap, the answers of an activity that
\* is not on screen are those the server holds.
LeftBehindIsSaved ==
    page = "playing" => \A i \in Index \ {index} : stored[i].data = local[i].data

\* A submission grades the answers the student saw; when the time ran out, those
\* of the activity on screen may be older.
SubmittedIsShown ==
    [][row' # row => \A i \in Index : \/ graded'[i] = local[i].data
                                      \/ expired /\ i = index]_vars

\* The server turns down a submission the page took for complete only for an
\* activity that Save & Exit put away and that was passed by since, while two
\* navigations overlapped: its answers are there, its status is not.
CompleteIsAccepted ==
    [][\A c \in calls' \ calls : c.reply = "refused" =>
           \E i \in Index : stored[i].status = "in_progress" /\ stored[i].data # NoAnswers]_vars

\* Work left on an open page reaches the server, or the page is left: a save
\* the network lost is repeated.
PausedWorkIsSaved ==
    (page = "playing" /\ away) ~>
        \/ page # "playing"
        \/ row = "completed"
        \/ /\ stored[index].data = local[index].data
           /\ stored[index].status = "completed" <=> local[index].status = "completed"
==============================================================================
