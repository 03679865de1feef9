-------------------------- MODULE ContentSubmission --------------------------
(***************************************************************************)
(* One student's submission of a Content Library assignment: one embedded  *)
(* AI activity, so progress, answers and score all live in the             *)
(* assignment_students row, which five student endpoints and the teacher's *)
(* grading write.  Completing it also attributes its score to a language   *)
(* skill (student_skill_scores) in a second transaction.                   *)
(*                                                                         *)
(* Requests interleave as in BookSubmission: read and check, commit the    *)
(* changed columns, then refresh, attribute and invalidate.                *)
(***************************************************************************)
EXTENDS AssignmentRow

CONSTANTS
    Mark,           \* Mark[d]: the score the client computes for answers d,
                    \* NoScore (-1) when a teacher has to grade them
    Grades,         \* the grades a teacher may give
    Sent,           \* what submit-multi may carry: answers, or none of them
    Requests,       \* HTTP requests that may be in flight together
    Endpoints       \* the endpoints called in this deployment

ASSUME ContentAssumption ==
    /\ Mark \in [Answers -> Percent \cup {NoScore}]
    /\ Grades \subseteq Percent
    /\ Sent \subseteq Payload

VARIABLES
    row,            \* assignment_students: the student's row
    skill,          \* student_skill_scores: attributed_score, NoScore if no record
    listing,        \* Redis: student:{id}:assignments:*
    request         \* the requests in flight

vars == <<row, skill, listing, request>>

-------------------------------------------------------------------------------
RowColumn ==
    {"status", "score", "answers_json", "progress_json", "started_at", "completed_at"}

RowValue(c) ==
    CASE c = "status" -> Status
      [] c = "score"  -> Percent \cup {NoScore}
      [] c \in {"answers_json", "progress_json"} -> Payload
      [] OTHER        -> BOOLEAN

\* w holds a value for some of the columns of the row, each of its type.
Typed(w) == DOMAIN w \subseteq RowColumn /\ \A c \in DOMAIN w : w[c] \in RowValue(c)

OrZero(score) == IF score = NoScore THEN 0 ELSE score

(***************************************************************************)
(* Requests.  pc is the next step of the handler: "commit" its write set;  *)
(* "refresh" the row it committed; "delete" and "insert" the skill record; *)
(* "conflict": another insert got there first; "invalidate" the list;      *)
(* "fill" the list.                                                        *)
(***************************************************************************)
Idle ==
    [pc         |-> "idle",
     endpoint   |-> "none",
     row        |-> NoChange,       \* UPDATE of the row
     next       |-> "idle",         \* step after the commit
     attribute  |-> FALSE,          \* the handler attributes the skill score
     old        |-> "not_started",  \* status the handler loaded
     score      |-> NoScore,        \* score the refresh loaded
     invalidate |-> TRUE,           \* the list is invalidated at the end
     entry      |-> NotCached]      \* the list entry to cache

Begin(r, endpoint, write) ==
    /\ endpoint \in Endpoints
    /\ request[r] = Idle
    /\ request' = [request EXCEPT ![r] = write]
    /\ UNCHANGED <<row, skill, listing>>

Init ==
    /\ row = [status |-> "not_started", score |-> NoScore,
              answers_json |-> NoAnswers, progress_json |-> NoAnswers,
              started_at |-> FALSE, completed_at |-> FALSE]
    /\ skill = NoScore
    /\ listing = NotCached
    /\ request = [r \in Requests |-> Idle]

\* Mutant: only a first start is stamped.
OpeningUnstamped ==
    IF row.status = "not_started" THEN [status |-> "in_progress"] ELSE NoChange

Opening ==
    CASE row.status = "not_started" -> [status |-> "in_progress", started_at |-> TRUE]
      [] row.status # "not_started" /\ ~row.started_at -> [started_at |-> TRUE]
      [] OTHER -> NoChange

(***************************************************************************)
(* GET start: opens the assignment; it invalidates nothing.                *)
(***************************************************************************)
Start(r) ==
    /\ row.status # "completed"
    /\ Opening # NoChange
    /\ Begin(r, "start", [Idle EXCEPT !.pc = "commit", !.endpoint = "start", !.row = Opening])

(***************************************************************************)
(* GET start-multi: the same, and invalidates the list when it opened it.  *)
(***************************************************************************)
StartMulti(r) ==
    /\ row.status # "completed"
    /\ Begin(r, "start_multi",
             [Idle EXCEPT
                !.pc = "commit",
                !.endpoint = "start_multi",
                !.row = Opening,
                !.next = IF row.status = "not_started" THEN "invalidate" ELSE "idle"])

(***************************************************************************)
(* POST save-progress: the player's 30-second auto-save.                   *)
(***************************************************************************)
SaveProgress(r, d) ==
    /\ row.status = "in_progress"
    /\ Begin(r, "save_progress",
             [Idle EXCEPT
                !.pc = "commit",
                !.endpoint = "save_progress",
                !.row = Changes(row, [progress_json |-> d])])

(***************************************************************************)
(* PATCH activities/{assignment_id}: saves answers d.  Finished answers    *)
(* complete the assignment, unless it is completed already; unfinished     *)
(* answers (Save & Exit) take a completed one back to in_progress.         *)
(***************************************************************************)
\* Mutant: the answers are left for the submission to store.
SavedRowUnanswered(d, finished) ==
    [status |-> IF finished THEN "completed" ELSE "in_progress",
     completed_at |-> finished, progress_json |-> d, started_at |-> TRUE]

\* Mutant: the client's percentage is scaled to a percentage once more.
SavedRowScaled(d, finished) ==
    [status |-> IF finished THEN "completed" ELSE "in_progress",
     completed_at |-> finished, progress_json |-> d, started_at |-> TRUE,
     score |-> IF finished THEN 100 * Mark[d] ELSE row.score]

SavedRow(d, finished) ==
    [status |-> IF finished THEN "completed" ELSE "in_progress",
     completed_at |-> finished,
     progress_json |-> d,
     started_at |-> TRUE,
     score |-> IF finished /\ Mark[d] # NoScore THEN Mark[d] ELSE row.score,
     answers_json |-> IF finished /\ row.answers_json = NoAnswers THEN d ELSE row.answers_json]

\* The timestamps this save leaves alone.
Untouched(finished) ==
    (IF row.started_at THEN {"started_at"} ELSE {})
    \cup (IF finished \/ row.status = "completed" THEN {} ELSE {"completed_at"})

SaveActivityProgress(r, d, finished) ==
    LET saved == SavedRow(d, finished)
    IN  /\ row.status = "completed" => ~finished
        /\ Begin(r, "save_activity",
                 [Idle EXCEPT
                    !.pc = "commit",
                    !.endpoint = "save_activity",
                    !.row = Changes(row, [c \in DOMAIN saved \ Untouched(finished) |-> saved[c]]),
                    !.next = "refresh",
                    !.attribute = finished,
                    !.old = row.status])

(***************************************************************************)
(* POST submit.                                                            *)
(***************************************************************************)
Submit(r, d) ==
    /\ row.status = "in_progress"
    /\ Begin(r, "submit",
             [Idle EXCEPT
                !.pc = "commit",
                !.endpoint = "submit",
                !.row = Changes(row,
                            [status |-> "completed", score |-> OrZero(Mark[d]),
                             completed_at |-> TRUE, answers_json |-> d,
                             progress_json |-> NoAnswers]),
                !.next = "refresh",
                !.attribute = TRUE])

(***************************************************************************)
(* POST submit-multi with answers d in activity_states, or with none.  The *)
(* score must be a valid one (validate_assignment), or the request fails.  *)
(***************************************************************************)
SubmitMulti(r, d, force) ==
    LET sent  == d # NoAnswers
        score == IF sent THEN Mark[d] ELSE OrZero(row.score)
    IN  /\ row.status = "in_progress"
        /\ sent \/ row.progress_json # NoAnswers \/ force
        /\ score \in Percent
        /\ Begin(r, "submit_multi",
                 [Idle EXCEPT
                    !.pc = "commit",
                    !.endpoint = "submit_multi",
                    !.row = Changes(row,
                                [status |-> "completed", score |-> score, completed_at |-> TRUE,
                                 answers_json |-> IF sent THEN d ELSE row.progress_json]),
                    !.next = "refresh",
                    !.attribute = TRUE])

\* The idempotent path of submit-multi: the row is completed already, and at
\* most its missing answers are added.
ResubmitMulti(r, d) ==
    LET found == IF d # NoAnswers THEN d ELSE row.progress_json
    IN  /\ row.status = "completed"
        /\ Begin(r, "submit_multi",
                 [Idle EXCEPT
                    !.pc = "commit",
                    !.endpoint = "submit_multi",
                    !.row = IF row.answers_json = NoAnswers
                            THEN Changes(row, [answers_json |-> found]) ELSE NoChange])

(***************************************************************************)
(* POST grade without an activity_id.                                      *)
(***************************************************************************)
Grade(r, p) ==
    Begin(r, "grade",
          [Idle EXCEPT
             !.pc = "commit",
             !.endpoint = "grade",
             !.row = Changes(row, [score |-> p]),
             !.next = "invalidate"])

(***************************************************************************)
(* GET me/assignments: a miss reads the row, then caches what it read.     *)
(***************************************************************************)
ListAssignments(r) ==
    /\ listing = NotCached
    /\ Begin(r, "list",
             [Idle EXCEPT !.pc = "fill", !.endpoint = "list",
                          !.entry = ListView(row, "published")])

-------------------------------------------------------------------------------
(***************************************************************************)
(* The later steps of a request.                                           *)
(***************************************************************************)
Continue(r, w) == request' = [request EXCEPT ![r] = w]

\* What follows attribution: the list is invalidated, or the request is over.
Rest(w) == IF w.invalidate THEN [w EXCEPT !.pc = "invalidate"] ELSE Idle

Commit(r) ==
    LET w == request[r]
    IN  /\ w.pc = "commit"
        /\ row' = Flush(row, w.row)
        /\ Continue(r, IF w.next = "idle"
                       THEN Idle ELSE [w EXCEPT !.pc = w.next, !.row = NoChange])
        /\ UNCHANGED <<skill, listing>>

\* Mutant: invalidates when the save completed the submission, and only then.
RefreshOnCompletion(r) ==
    LET changed == request[r].endpoint # "save_activity" \/ row.status = "completed"
        w == [request[r] EXCEPT !.score = row.score, !.invalidate = changed]
    IN  /\ w.pc = "refresh"
        /\ Continue(r, IF w.attribute /\ row.status = "completed"
                       THEN [w EXCEPT !.pc = "delete"] ELSE Rest(w))
        /\ UNCHANGED <<row, skill, listing>>

\* Mutant: a submission without a score is not attributed.
RefreshScored(r) ==
    LET changed == request[r].endpoint # "save_activity" \/ row.status # request[r].old
        w == [request[r] EXCEPT !.score = row.score, !.invalidate = changed]
    IN  /\ w.pc = "refresh"
        /\ Continue(r, IF w.attribute /\ row.status = "completed" /\ row.score # NoScore
                       THEN [w EXCEPT !.pc = "delete"] ELSE Rest(w))
        /\ UNCHANGED <<row, skill, listing>>

\* session.refresh: attribution works on the row as this step reads it, and
\* save_activity_progress invalidates if the status differs from the old one.
Refresh(r) ==
    LET changed == request[r].endpoint # "save_activity" \/ row.status # request[r].old
        w == [request[r] EXCEPT !.score = row.score, !.invalidate = changed]
    IN  /\ w.pc = "refresh"
        /\ Continue(r, IF w.attribute /\ row.status = "completed"
                       THEN [w EXCEPT !.pc = "delete"] ELSE Rest(w))
        /\ UNCHANGED <<row, skill, listing>>

\* attribute_skill_scores deletes the record it finds, in an open transaction.
AttributeDelete(r) ==
    /\ request[r].pc = "delete"
    /\ Continue(r, [request[r] EXCEPT !.pc = "insert"])
    /\ UNCHANGED <<row, skill, listing>>

\* Mutant: an existing skill record is kept.
AttributeOnce(r) ==
    /\ request[r].pc = "insert"
    /\ skill' = IF skill = NoScore THEN OrZero(request[r].score) ELSE skill
    /\ Continue(r, Rest(request[r]))
    /\ UNCHANGED <<row, listing>>

\* The INSERT commits.  A transaction that deleted before this point did not
\* see the new record: its own INSERT violates uq_student_skill_score.
AttributeInsert(r) ==
    /\ request[r].pc = "insert"
    /\ skill' = OrZero(request[r].score)
    /\ request' = [q \in Requests |->
                      IF q = r THEN Rest(request[r])
                      ELSE IF request[q].pc = "insert" THEN [request[q] EXCEPT !.pc = "conflict"]
                      ELSE request[q]]
    /\ UNCHANGED <<row, listing>>

\* The error is caught, but the rollback has expired every loaded object, and
\* the handler fails when it next reads one: save_activity_progress before it
\* invalidates, the submits before or after (current_user may be a cached copy).
AttributionFails(r) ==
    /\ request[r].pc = "conflict"
    /\ \/ Continue(r, Idle)
       \/ /\ request[r].endpoint # "save_activity"
          /\ Continue(r, Rest(request[r]))
    /\ UNCHANGED <<row, skill, listing>>

Invalidate(r) ==
    /\ request[r].pc = "invalidate"
    /\ listing' = NotCached
    /\ Continue(r, Idle)
    /\ UNCHANGED <<row, skill>>

FillListing(r) ==
    /\ request[r].pc = "fill"
    /\ listing' = request[r].entry
    /\ Continue(r, Idle)
    /\ UNCHANGED <<row, skill>>

ExpireListing ==
    /\ listing # NotCached
    /\ listing' = NotCached
    /\ UNCHANGED <<row, skill, request>>

Next ==
    \/ \E r \in Requests :
          \/ Start(r)
          \/ StartMulti(r)
          \/ \E d \in Answers :
                \/ SaveProgress(r, d)
                \/ \E finished \in BOOLEAN : SaveActivityProgress(r, d, finished)
                \/ Submit(r, d)
          \/ \E d \in Sent :
                \/ \E force \in BOOLEAN : SubmitMulti(r, d, force)
                \/ ResubmitMulti(r, d)
          \/ \E p \in Grades : Grade(r, p)
          \/ ListAssignments(r)
          \/ Commit(r)
          \/ Refresh(r)
          \/ AttributeDelete(r)
          \/ AttributeInsert(r)
          \/ AttributionFails(r)
          \/ Invalidate(r)
          \/ FillListing(r)
    \/ ExpireListing

Spec == Init /\ [][Next]_vars

-------------------------------------------------------------------------------
\* The columns of the row and the fields of a request hold what models.py
\* declares for them.
RequestOK(w) ==
    /\ w.pc \in {"idle", "commit", "refresh", "delete", "insert", "conflict", "invalidate", "fill"}
    /\ Typed(w.row)
    /\ w.next \in {"idle", "refresh", "invalidate"}
    /\ w.attribute \in BOOLEAN
    /\ w.old \in Status
    /\ w.score \in Percent \cup {NoScore}
    /\ w.invalidate \in BOOLEAN
    /\ w.entry \in ListEntry

TypeOK ==
    /\ DOMAIN row = RowColumn /\ Typed(row)
    /\ skill \in Percent \cup {NoScore}
    /\ listing \in ListEntry
    /\ DOMAIN request = Requests /\ \A r \in Requests : RequestOK(request[r])

Quiet == \A r \in Requests : request[r] = Idle

(***************************************************************************)
(* What holds however requests overlap.                                    *)
(***************************************************************************)

\* A submission that left "not_started" has its start time.
OpenedIsStamped == row.status # "not_started" => row.started_at

\* A completed submission has its completion time and answers to show: the
\* result endpoint answers 404 without them.  A Save & Exit that reverts it, a
\* late start and a second submit may each overwrite columns of the other.
ResultIsServed ==
    row.status = "completed" => row.completed_at /\ row.answers_json # NoAnswers

\* With no request in flight a completed submission counts for its skill: when
\* two attributions collide and one is lost, the other one is recorded.
CompletedIsAttributed == Quiet => (row.status = "completed" => skill # NoScore)

(***************************************************************************)
(* What holds when requests do not overlap.                                *)
(***************************************************************************)

\* The skill profile holds the score of the completed submission.
SkillMatchesScore == Quiet => (row.status = "completed" => skill = OrZero(row.score))

\* With no request in flight, a cached list shows the submission as it is.
ListingIsFresh == Quiet => listing \in {NotCached, ListView(row, "published")}
==============================================================================
