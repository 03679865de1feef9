---------------------------- MODULE AssignmentRow ----------------------------
(***************************************************************************)
(* What every module about a student's submission shares: the columns of   *)
(* an assignment_students row, the write set SQLAlchemy sends for a row it *)
(* loaded earlier, and the entry of the cached assignment list that the    *)
(* row shows up as.                                                        *)
(***************************************************************************)
EXTENDS Integers, FiniteSets

CONSTANTS
    Answers,        \* the answer payloads a client may send
    NoAnswers       \* SQL NULL in a JSON column

ASSUME AnswersAssumption == NoAnswers \notin Answers

(***************************************************************************)
(* Column types.                                                           *)
(***************************************************************************)
Status == {"not_started", "in_progress", "completed"}

NoScore == -1                     \* SQL NULL in a score column
Percent == 0..100
Payload == Answers \cup {NoAnswers}

(***************************************************************************)
(* An ORM object is flushed as an UPDATE of the columns whose value        *)
(* differs from the one loaded, and of no others: two requests that loaded *)
(* the same row overwrite each other column by column.  A timestamp is     *)
(* written as the current time, which never equals the loaded one.         *)
(***************************************************************************)
Timestamps == {"started_at", "completed_at"}

Changes(loaded, assigned) ==
    [c \in {d \in DOMAIN assigned :
                \/ assigned[d] # loaded[d]
                \/ d \in Timestamps /\ assigned[d]} |-> assigned[c]]

NoChange == [c \in {} |-> NoScore]

Flush(stored, write) ==
    [c \in DOMAIN stored |-> IF c \in DOMAIN write THEN write[c] ELSE stored[c]]

(***************************************************************************)
(* The entry a student's cached list holds for one assignment.             *)
(* get_student_assignments lists published assignments only.               *)
(***************************************************************************)
ListEntry ==
    [status : Status \cup {"not_listed", "not_cached"}, score : Percent \cup {NoScore}]

NotCached == [status |-> "not_cached", score |-> NoScore]

ListView(row, publish) ==
    IF publish = "published"
    THEN [status |-> row.status, score |-> row.score]
    ELSE [status |-> "not_listed", score |-> NoScore]
==============================================================================
