---------------------------- MODULE BookSubmission ----------------------------
(***************************************************************************)
(* One student's submission of a book assignment: the assignment_students  *)
(* row, the assignment_student_activities record of each activity, the     *)
(* assignment's activity links and publish status, and the student's       *)
(* cached assignment list.                                                 *)
(*                                                                         *)
(* Every HTTP request runs in a session of its own under READ COMMITTED    *)
(* and takes no row lock.  A request is therefore two steps or three: it   *)
(* reads, checks and computes its write set; it commits that write set     *)
(* over whatever the rows hold by then; it invalidates the cached list.    *)
(* Requests of the student (two tabs, the two auto-save timers, the        *)
(* submit button, the time limit), of the teacher and of the scheduler     *)
(* interleave between the steps.                                           *)
(***************************************************************************)
EXTENDS AssignmentRow

CONSTANTS
    Activities,     \* activities of the assignment's book
    MaxPoints,      \* max_score of an activity
    Mark,           \* Mark[d]: the score the client computes for answers d
    Requests,       \* HTTP requests that may be in flight together
    Endpoints       \* the endpoints called in this deployment

ASSUME BookAssumption ==
    /\ IsFiniteSet(Activities)
    /\ MaxPoints \in Nat \ {0}
    /\ Mark \in [Answers -> 0..MaxPoints]

VARIABLES
    row,            \* assignment_students: the student's row
    records,        \* assignment_student_activities: one record per activity
    linked,         \* assignment_activities: activities in the assignment
    publish,        \* assignments.status
    listing,        \* Redis: student:{id}:assignments:*
    request         \* the requests in flight

vars == <<row, records, linked, publish, listing, request>>

-------------------------------------------------------------------------------
(***************************************************************************)
(* Values.                                                                 *)
(***************************************************************************)
PublishStatus == {"draft", "scheduled", "published", "archived"}

Points == 0..MaxPoints

RowColumn == {"status", "score", "answers_json", "started_at", "completed_at"}

RowValue(c) ==
    CASE c = "status"       -> Status
      [] c = "score"        -> Percent \cup {NoScore}
      [] c = "answers_json" -> [Activities -> Payload]
      [] OTHER              -> BOOLEAN

RecordColumn == {"status", "score", "response_data"}

RecordValue(c) ==
    CASE c = "status" -> Status \cup {"absent"}
      [] c = "score"  -> Points \cup {NoScore}
      [] OTHER        -> Payload

\* A value for some of the columns, each of its type.
RowWrite(w) == DOMAIN w \subseteq RowColumn /\ \A c \in DOMAIN w : w[c] \in RowValue(c)

RecordWrite(w) ==
    DOMAIN w \subseteq RecordColumn /\ \A c \in DOMAIN w : w[c] \in RecordValue(c)

AbsentRecord ==
    [status |-> "absent", score |-> NoScore, response_data |-> NoAnswers]

NewRecord == [AbsentRecord EXCEPT !.status = "not_started"]

Existing(recs) == {a \in Activities : recs[a].status # "absent"}

Incomplete(recs) == {a \in Existing(recs) : recs[a].status # "completed"}

(***************************************************************************)
(* calculate_combined_score: points earned over points possible, as a      *)
(* percentage, over the records that exist; an unscored record earns 0.    *)
(***************************************************************************)
Earned(recs) ==
    {point \in Existing(recs) \X (1..MaxPoints) : point[2] <= recs[point[1]].score}

\* Mutant: the percentage of one activity's points.
CombinedScoreOfOne(recs) ==
    IF Existing(recs) = {} THEN NoScore
    ELSE (100 * Cardinality(Earned(recs))) \div MaxPoints

CombinedScore(recs) ==
    IF Existing(recs) = {}
    THEN NoScore
    ELSE (100 * Cardinality(Earned(recs))) \div (Cardinality(Existing(recs)) * MaxPoints)

-------------------------------------------------------------------------------
(***************************************************************************)
(* Requests.  pc = "idle": not in flight; "commit": has read and computed  *)
(* its write set; "invalidate": committed; "fill": has read the list it is *)
(* about to cache.                                                         *)
(***************************************************************************)
Idle ==
    [pc         |-> "idle",
     endpoint   |-> "none",
     row        |-> NoChange,                         \* UPDATE of the row
     records    |-> [a \in {} |-> NoChange],          \* UPDATEs and INSERTs of records
     inserts    |-> {},                               \* the records that are INSERTs
     unlink     |-> {},                               \* links deleted
     link       |-> {},                               \* links inserted
     publish    |-> "unchanged",
     invalidate |-> FALSE,                            \* the list is invalidated after commit
     entry      |-> NotCached]                        \* the list entry to cache

Begin(r, endpoint, write) ==
    /\ endpoint \in Endpoints
    /\ request[r] = Idle
    /\ request' = [request EXCEPT ![r] = write]
    /\ UNCHANGED <<row, records, linked, publish, listing>>

Init ==
    /\ row = [status |-> "not_started", score |-> NoScore,
              answers_json |-> [a \in Activities |-> NoAnswers],
              started_at |-> FALSE, completed_at |-> FALSE]
    /\ linked \in (SUBSET Activities) \ {{}}
    /\ records = [a \in Activities |-> IF a \in linked THEN NewRecord ELSE AbsentRecord]
    /\ publish \in {"scheduled", "published"}
    /\ listing = NotCached
    /\ request = [r \in Requests |-> Idle]

(***************************************************************************)
(* GET start-multi: opens the assignment and adds the missing records.     *)
(***************************************************************************)
StartMulti(r) ==
    LET missing  == linked \ Existing(records)
        starting == row.status = "not_started"
    IN  /\ publish = "published"
        /\ row.status # "completed"
        /\ linked # {}
        /\ Begin(r, "start_multi",
                 [Idle EXCEPT
                    !.pc = "commit",
                    !.endpoint = "start_multi",
                    !.row = CASE starting -> [status |-> "in_progress", started_at |-> TRUE]
                              [] ~starting /\ ~row.started_at -> [started_at |-> TRUE]
                              [] OTHER -> NoChange,
                    !.records = [a \in missing |-> NewRecord],
                    !.inserts = missing,
                    !.invalidate = starting])

(***************************************************************************)
(* PATCH activities/{a}: saves answers d of activity a, finished or not.   *)
(***************************************************************************)
\* Mutant: the check that the submission is still open is missing.
SaveAcceptedLate(a) == a \in linked /\ records[a].status # "completed"

SaveAccepted(a) ==
    /\ row.status # "completed"
    /\ a \in linked
    /\ records[a].status # "completed"

\* Mutant: the score waits for the submission.
SavedRecordUnscored(d, finished) ==
    [status |-> IF finished THEN "completed" ELSE "in_progress", response_data |-> d]

SavedRecord(d, finished) ==
    IF finished
    THEN [status |-> "completed", response_data |-> d, score |-> Mark[d]]
    ELSE [status |-> "in_progress", response_data |-> d]

\* Mutant: the save that opens the submission does not stamp it.
RowAtSaveUnstamped ==
    IF row.status = "not_started" THEN [status |-> "in_progress"] ELSE NoChange

\* What a save writes to the row: the first one opens the submission.
RowAtSave ==
    IF row.status = "not_started"
    THEN [status |-> "in_progress", started_at |-> TRUE] ELSE NoChange

SaveActivityProgress(r, a, d, finished) ==
    LET existing == a \in Existing(records)
    IN  /\ SaveAccepted(a)
        /\ Begin(r, "save_activity",
                 [Idle EXCEPT
                    !.pc = "commit",
                    !.endpoint = "save_activity",
                    !.row = RowAtSave,
                    !.records = [b \in {a} |-> IF existing
                                               THEN Changes(records[a], SavedRecord(d, finished))
                                               ELSE Flush(NewRecord, SavedRecord(d, finished))],
                    !.inserts = IF existing THEN {} ELSE {a},
                    !.invalidate = row.status = "not_started"])

(***************************************************************************)
(* POST submit-multi.  A completed row takes the idempotent path, which    *)
(* writes the time spent only.                                             *)
(***************************************************************************)
AllActivitiesCompleted == Incomplete(records) = {}

\* Mutant: a submission that was never opened is accepted.
SubmitAcceptedUnopened(force) ==
    row.status # "completed" /\ (force \/ AllActivitiesCompleted)

SubmitAccepted(force) ==
    row.status = "in_progress" /\ (force \/ AllActivitiesCompleted)

\* Mutant: the completion time is not set.
SubmittedRowUnstamped ==
    [status |-> "completed",
     score |-> CombinedScore(records),
     answers_json |-> [a \in Activities |-> records[a].response_data]]

SubmittedRow ==
    [status |-> "completed",
     score |-> IF CombinedScore(records) = NoScore THEN 0 ELSE CombinedScore(records),
     answers_json |-> [a \in Activities |-> records[a].response_data],
     completed_at |-> TRUE]

SubmitMulti(r, force) ==
    /\ SubmitAccepted(force)
    /\ Begin(r, "submit_multi",
             [Idle EXCEPT
                !.pc = "commit",
                !.endpoint = "submit_multi",
                !.row = Changes(row, SubmittedRow),
                !.invalidate = TRUE])

(***************************************************************************)
(* POST grade with an activity_id: the teacher gives activity a p points.  *)
(***************************************************************************)
\* Mutant: the combined score is computed before the grade is given.
GradedLate(a, p) == records

Graded(a, p) == [records EXCEPT ![a].score = p]

GradeActivity(r, a, p) ==
    /\ a \in Existing(records)
    /\ Begin(r, "grade",
             [Idle EXCEPT
                !.pc = "commit",
                !.endpoint = "grade",
                !.row = Changes(row, [score |-> CombinedScore(Graded(a, p))]),
                !.records = [b \in {a} |-> Changes(records[a], [score |-> p])],
                !.invalidate = TRUE])

(***************************************************************************)
(* PATCH assignment: the teacher replaces the activities by S, or changes  *)
(* the publish status to s, or both.  Student records are left alone.      *)
(***************************************************************************)
\* Mutant: the lists of the students are not invalidated.
UpdateAssignmentQuietly(r, S, s) ==
    Begin(r, "update",
          [Idle EXCEPT
             !.pc = "commit",
             !.endpoint = "update",
             !.unlink = IF S = {} THEN {} ELSE linked,
             !.link = S,
             !.publish = s])

UpdateAssignment(r, S, s) ==
    Begin(r, "update",
          [Idle EXCEPT
             !.pc = "commit",
             !.endpoint = "update",
             !.unlink = IF S = {} THEN {} ELSE linked,
             !.link = S,
             !.publish = s,
             !.invalidate = TRUE])

(***************************************************************************)
(* publish_scheduled_assignments, once the scheduled date has passed.      *)
(***************************************************************************)
PublishScheduled(r) ==
    /\ publish = "scheduled"
    /\ Begin(r, "publish_scheduled",
             [Idle EXCEPT
                !.pc = "commit",
                !.endpoint = "publish_scheduled",
                !.publish = "published"])

(***************************************************************************)
(* GET me/assignments: a miss reads the rows, then caches what it read.    *)
(***************************************************************************)
ListAssignments(r) ==
    /\ listing = NotCached
    /\ Begin(r, "list",
             [Idle EXCEPT
                !.pc = "fill",
                !.endpoint = "list",
                !.entry = ListView(row, publish)])

-------------------------------------------------------------------------------
(***************************************************************************)
(* The flush of a request fails on uq_assignment_student_activity when a   *)
(* record it inserts exists by now, and on uq_assignment_activity when it  *)
(* inserts a link that exists by now: SQLAlchemy's unit of work sends      *)
(* INSERTs before DELETEs, so the links it deletes are still there.        *)
(***************************************************************************)
FlushFails(r) ==
    \/ request[r].inserts \cap Existing(records) # {}
    \/ request[r].link \cap linked # {}

Commit(r) ==
    LET w == request[r]
    IN  /\ w.pc = "commit"
        /\ ~FlushFails(r)
        /\ row' = Flush(row, w.row)
        /\ records' = [a \in Activities |->
                          IF a \in DOMAIN w.records
                          THEN Flush(records[a], w.records[a]) ELSE records[a]]
        /\ linked' = (linked \ w.unlink) \cup w.link
        /\ publish' = IF w.publish = "unchanged" THEN publish ELSE w.publish
        /\ request' = [request EXCEPT
                          ![r] = IF w.invalidate
                                 THEN [Idle EXCEPT !.pc = "invalidate", !.endpoint = w.endpoint]
                                 ELSE Idle]
        /\ UNCHANGED listing

\* IntegrityError: the session rolls back and the client gets a 500.
Rollback(r) ==
    /\ request[r].pc = "commit"
    /\ FlushFails(r)
    /\ request' = [request EXCEPT ![r] = Idle]
    /\ UNCHANGED <<row, records, linked, publish, listing>>

Invalidate(r) ==
    /\ request[r].pc = "invalidate"
    /\ listing' = NotCached
    /\ request' = [request EXCEPT ![r] = Idle]
    /\ UNCHANGED <<row, records, linked, publish>>

FillListing(r) ==
    /\ request[r].pc = "fill"
    /\ listing' = request[r].entry
    /\ request' = [request EXCEPT ![r] = Idle]
    /\ UNCHANGED <<row, records, linked, publish>>

\* The TTL of the cached list runs out.
ExpireListing ==
    /\ listing # NotCached
    /\ listing' = NotCached
    /\ UNCHANGED <<row, records, linked, publish, request>>

Next ==
    \/ \E r \in Requests :
          \/ StartMulti(r)
          \/ \E a \in Activities, d \in Answers, finished \in BOOLEAN :
                SaveActivityProgress(r, a, d, finished)
          \/ \E force \in BOOLEAN : SubmitMulti(r, force)
          \/ \E a \in Activities, p \in Points : GradeActivity(r, a, p)
          \/ \E S \in SUBSET Activities, s \in PublishStatus \cup {"unchanged"} :
                UpdateAssignment(r, S, s)
          \/ PublishScheduled(r)
          \/ ListAssignments(r)
          \/ Commit(r)
          \/ Rollback(r)
          \/ Invalidate(r)
          \/ FillListing(r)
    \/ ExpireListing

Spec == Init /\ [][Next]_vars
-------------------------------------------------------------------------------
(***************************************************************************)
(* Type invariant.                                                         *)
(***************************************************************************)
RequestOK(w) ==
    /\ w.pc \in {"idle", "commit", "invalidate", "fill"}
    /\ RowWrite(w.row)
    /\ DOMAIN w.records \subseteq Activities
    /\ \A a \in DOMAIN w.records : RecordWrite(w.records[a])
    /\ w.inserts \subseteq DOMAIN w.records
    /\ w.unlink \subseteq Activities
    /\ w.link \subseteq Activities
    /\ w.publish \in PublishStatus \cup {"unchanged"}
    /\ w.invalidate \in BOOLEAN
    /\ w.entry \in ListEntry

\* The columns of the tables and the fields of a request hold what models.py
\* declares for them; in particular a combined score stays in 0..100, which
\* AssignmentStudent.validate_score demands.
TypeOK ==
    /\ DOMAIN row = RowColumn /\ RowWrite(row)
    /\ DOMAIN records = Activities
    /\ \A a \in Activities : DOMAIN records[a] = RecordColumn /\ RecordWrite(records[a])
    /\ linked \subseteq Activities
    /\ publish \in PublishStatus
    /\ listing \in ListEntry
    /\ DOMAIN request = Requests /\ \A r \in Requests : RequestOK(request[r])

(***************************************************************************)
(* What holds however requests overlap.                                    *)
(***************************************************************************)

\* A submission that left "not_started" has its start time, whichever of
\* start-multi and the first save won the race to open it: analytics and the
\* time limit count from started_at.
OpenedIsStamped == row.status # "not_started" => row.started_at

\* A completed submission has a score and a completion time, even if a late
\* start, a grade or a second submit overwrites some of its columns.
CompletedIsScored == row.status = "completed" => row.score # NoScore /\ row.completed_at

\* A finished activity has its answers and its score, whatever half-finished
\* save, insert or grade of the same activity lands after it.
FinishedIsAnswered ==
    \A a \in Activities :
        records[a].status = "completed" =>
            records[a].score # NoScore /\ records[a].response_data # NoAnswers

(***************************************************************************)
(* What holds when requests do not overlap.                                *)
(***************************************************************************)

\* The score of a completed submission is the combined score of its records,
\* after any number of saves, activity edits and grades.
ScoreIsCombined == row.status = "completed" => row.score = CombinedScore(records)

\* What the result page and the insights read (answers_json) is what the
\* student's records hold.
AnswersAreRecorded ==
    row.status = "completed" =>
        \A a \in Activities : row.answers_json[a] = records[a].response_data

\* With no request in flight, a cached list shows the submission as it is:
\* every write that shows in the list invalidates it.
ListingIsFresh ==
    (\A r \in Requests : request[r] = Idle) =>
        listing \in {NotCached, ListView(row, publish)}

\* A submission goes through the stages of SubmissionLifecycle.
Lifecycle ==
    INSTANCE SubmissionLifecycle
        WITH status <- row.status, score <- row.score, answers <- row.answers_json,
             AnswerSheet <- [Activities -> Payload]

RefinesLifecycle == Lifecycle!Spec
===============================================================================
