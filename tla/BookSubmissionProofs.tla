------------------------- MODULE BookSubmissionProofs -------------------------
(***************************************************************************)
(* What BookSubmission guarantees for any book, any set of answers and any *)
(* number of requests in flight.  The first results hold however requests  *)
(* overlap.  The others are proved from the races they need to be kept     *)
(* out: NoSaveBesideSubmit for the answers and SubmissionLifecycle,        *)
(* NoGradeBesideScoring also for the score, ListsAlone for the cached list.*)
(***************************************************************************)
EXTENDS BookSubmission, FiniteSetTheorems, TLAPS

-------------------------------------------------------------------------------
(***************************************************************************)
(* The combined score.                                                     *)
(***************************************************************************)

\* A part x of a whole y is a percentage of at most 100.
LEMMA PercentOfPart ==
    ASSUME NEW x \in Nat, NEW y \in Nat \ {0}, x <= y
    PROVE  (100 * x) \div y \in Percent
<1>1. 100 * x \in 0..(100 * y)
    OBVIOUS
<1>2. (100 * x) \div y \in Int /\ y * ((100 * x) \div y) <= 100 * x
    BY <1>1
<1>3. 100 * x < y * ((100 * x) \div y) + y
    BY <1>1
<1>4. (100 * x) \div y >= 0
    BY <1>1
<1>5. (100 * x) \div y <= 100
    <2> SUFFICES ASSUME (100 * x) \div y >= 101 PROVE FALSE
        BY <1>2
    <2>1. y * ((100 * x) \div y) >= y * 101
        BY <1>2
    <2> QED BY <2>1, <1>1, <1>2
<1> QED BY <1>2, <1>4, <1>5 DEF Percent

\* The points earned are at most the points possible, and a submission with a
\* record has a combined score, which is a percentage.
LEMMA CombinedScoreType ==
    ASSUME NEW recs
    PROVE  /\ CombinedScore(recs) \in Percent \cup {NoScore}
           /\ Existing(recs) # {} => CombinedScore(recs) \in Percent
<1>1. CASE Existing(recs) = {}
    BY <1>1 DEF CombinedScore
<1>2. CASE Existing(recs) # {}
    <2> DEFINE n == Cardinality(Existing(recs))
               possible == Existing(recs) \X (1..MaxPoints)
    <2>1. IsFiniteSet(Existing(recs)) /\ n \in Nat
        BY BookAssumption, FS_Subset, FS_CardinalityType DEF Existing
    <2>2. n # 0
        BY <1>2, <2>1, FS_EmptySet
    <2>3. MaxPoints \in Nat \ {0}
        BY BookAssumption
    <2>4. IsFiniteSet(1..MaxPoints) /\ Cardinality(1..MaxPoints) = MaxPoints
        BY <2>3, FS_Interval
    <2>5. IsFiniteSet(possible) /\ Cardinality(possible) = n * MaxPoints
        BY <2>1, <2>4, FS_Product
    <2>6. Earned(recs) \in SUBSET possible
        BY DEF Earned
    <2>7. /\ IsFiniteSet(Earned(recs))
          /\ Cardinality(Earned(recs)) \in Nat
          /\ Cardinality(Earned(recs)) <= n * MaxPoints
        BY <2>5, <2>6, FS_Subset, FS_CardinalityType
    <2>8. n * MaxPoints \in Nat \ {0}
        BY <2>1, <2>2, <2>3
    <2> QED BY <1>2, <2>7, <2>8, PercentOfPart DEF CombinedScore
<1> QED BY <1>1, <1>2

-------------------------------------------------------------------------------
(***************************************************************************)
(* Types.                                                                  *)
(***************************************************************************)
LEMMA RowValues ==
    /\ RowValue("status") = Status
    /\ RowValue("score") = Percent \cup {NoScore}
    /\ RowValue("answers_json") = [Activities -> Payload]
    /\ RowValue("started_at") = BOOLEAN
    /\ RowValue("completed_at") = BOOLEAN
<1>1. RowValue("status") = Status /\ RowValue("score") = Percent \cup {NoScore}
    BY DEF RowValue
<1>2. RowValue("answers_json") = [Activities -> Payload]
    BY DEF RowValue
<1>3. RowValue("started_at") = BOOLEAN /\ RowValue("completed_at") = BOOLEAN
    BY DEF RowValue
<1> QED BY <1>1, <1>2, <1>3

\* What opening a submission writes to the row.
LEMMA OpeningType ==
    /\ RowWrite([status |-> "in_progress", started_at |-> TRUE])
    /\ RowWrite([started_at |-> TRUE])
<1>1. "in_progress" \in Status
    BY DEF Status
<1>2. TRUE \in BOOLEAN
    OBVIOUS
<1>3. RowWrite([status |-> "in_progress", started_at |-> TRUE])
    <2> DEFINE w == [status |-> "in_progress", started_at |-> TRUE]
    <2>1. w["status"] \in RowValue("status") /\ w["started_at"] \in RowValue("started_at")
        BY <1>1, <1>2, RowValues
    <2>2. DOMAIN w = {"status", "started_at"}
        OBVIOUS
    <2> HIDE DEF w
    <2>3. RowWrite(w)
        BY <2>1, <2>2 DEF RowWrite, RowColumn
    <2> QED BY <2>3 DEF w
<1>4. RowWrite([started_at |-> TRUE])
    <2> DEFINE w == [started_at |-> TRUE]
    <2>1. w["started_at"] \in RowValue("started_at")
        BY <1>2, RowValues
    <2>2. DOMAIN w = {"started_at"}
        OBVIOUS
    <2> HIDE DEF w
    <2>3. RowWrite(w)
        BY <2>1, <2>2 DEF RowWrite, RowColumn
    <2> QED BY <2>3 DEF w
<1> QED BY <1>3, <1>4

LEMMA IdleType == RequestOK(Idle)
BY DEF RequestOK, Idle, NoChange, RowWrite, RecordWrite, ListEntry, NotCached, NoScore

\* Writing typed columns over a typed row or record leaves it typed.
LEMMA FlushRowType ==
    ASSUME NEW stored, NEW w,
           DOMAIN stored = RowColumn, RowWrite(stored), RowWrite(w)
    PROVE  DOMAIN Flush(stored, w) = RowColumn /\ RowWrite(Flush(stored, w))
BY DEF Flush, RowWrite

LEMMA FlushRecordType ==
    ASSUME NEW stored, NEW w,
           DOMAIN stored = RecordColumn, RecordWrite(stored), RecordWrite(w)
    PROVE  DOMAIN Flush(stored, w) = RecordColumn /\ RecordWrite(Flush(stored, w))
BY DEF Flush, RecordWrite

\* The columns an assignment changes are among those it assigns.
LEMMA ChangesRowType ==
    ASSUME NEW loaded, NEW w, RowWrite(w)
    PROVE  RowWrite(Changes(loaded, w))
BY DEF Changes, RowWrite

LEMMA ChangesRecordType ==
    ASSUME NEW loaded, NEW w, RecordWrite(w)
    PROVE  RecordWrite(Changes(loaded, w))
BY DEF Changes, RecordWrite

LEMMA RecordTypes ==
    /\ DOMAIN AbsentRecord = RecordColumn /\ RecordWrite(AbsentRecord)
    /\ DOMAIN NewRecord = RecordColumn /\ RecordWrite(NewRecord)
BY DEF AbsentRecord, NewRecord, RecordWrite, RecordColumn, RecordValue, Status, Payload

LEMMA NoChangeType == RowWrite(NoChange)
BY DEF NoChange, RowWrite

\* A request that begins with a typed write set keeps the types.
LEMMA BeginType ==
    ASSUME TypeOK, NEW r, NEW e, NEW w, RequestOK(w), Begin(r, e, w)
    PROVE  TypeOK'
BY DEF TypeOK, Begin, RequestOK, RowWrite, RecordWrite

LEMMA ListViewType ==
    ASSUME TypeOK
    PROVE  ListView(row, publish) \in ListEntry
BY DEF TypeOK, RowWrite, RowColumn, RowValue, ListView, ListEntry, NoScore

\* The writes of the actions are typed.
LEMMA StartMultiType ==
    ASSUME TypeOK, NEW r \in Requests, StartMulti(r)
    PROVE  TypeOK'
<1> DEFINE missing == linked \ Existing(records)
           starting == row.status = "not_started"
           opening == CASE starting -> [status |-> "in_progress", started_at |-> TRUE]
                        [] ~starting /\ ~row.started_at -> [started_at |-> TRUE]
                        [] OTHER -> NoChange
           w == [Idle EXCEPT !.pc = "commit", !.endpoint = "start_multi", !.row = opening,
                             !.records = [a \in missing |-> NewRecord],
                             !.inserts = missing, !.invalidate = starting]
<1>1. RowWrite(opening)
    BY OpeningType, NoChangeType
<1>2. missing \subseteq Activities
    BY DEF TypeOK
<1>3. RequestOK(w)
    BY <1>1, <1>2, IdleType, RecordTypes DEF RequestOK, Idle
<1>4. Begin(r, "start_multi", w)
    BY DEF StartMulti
<1> QED BY <1>3, <1>4, BeginType

LEMMA SavedRecordType ==
    ASSUME NEW d \in Answers, NEW finished \in BOOLEAN
    PROVE  RecordWrite(SavedRecord(d, finished))
<1>1. Mark[d] \in Points
    BY BookAssumption DEF Points
<1> QED BY <1>1 DEF SavedRecord, RecordWrite, RecordColumn, RecordValue, Status, Payload

LEMMA RowAtSaveType == RowWrite(RowAtSave)
BY OpeningType, NoChangeType DEF RowAtSave

LEMMA SaveActivityProgressType ==
    ASSUME TypeOK, NEW r \in Requests, NEW a \in Activities, NEW d \in Answers,
           NEW finished \in BOOLEAN, SaveActivityProgress(r, a, d, finished)
    PROVE  TypeOK'
<1> DEFINE existing == a \in Existing(records)
           saved == IF existing THEN Changes(records[a], SavedRecord(d, finished))
                                ELSE Flush(NewRecord, SavedRecord(d, finished))
           w == [Idle EXCEPT !.pc = "commit", !.endpoint = "save_activity", !.row = RowAtSave,
                             !.records = [b \in {a} |-> saved],
                             !.inserts = IF existing THEN {} ELSE {a},
                             !.invalidate = row.status = "not_started"]
<1>1. RecordWrite(saved)
    BY SavedRecordType, ChangesRecordType, FlushRecordType, RecordTypes
<1>2. RequestOK(w)
    BY <1>1, IdleType, RowAtSaveType DEF RequestOK, Idle
<1>3. Begin(r, "save_activity", w)
    BY DEF SaveActivityProgress
<1> QED BY <1>2, <1>3, BeginType

LEMMA SubmittedRowType ==
    ASSUME TypeOK
    PROVE  RowWrite(SubmittedRow)
<1>1. \A a \in Activities : records[a].response_data \in Payload
    BY DEF TypeOK, RecordWrite, RecordColumn, RecordValue
<1>2. CombinedScore(records) \in Percent \cup {NoScore} /\ 0 \in Percent
    BY CombinedScoreType DEF Percent
<1> DEFINE w == SubmittedRow
<1>3. DOMAIN w = {"status", "score", "answers_json", "completed_at"}
    BY DEF SubmittedRow
<1>4. w["status"] \in RowValue("status") /\ w["score"] \in RowValue("score")
    BY <1>2, RowValues DEF SubmittedRow, Status
<1>5. w["answers_json"] \in RowValue("answers_json")
    BY <1>1, RowValues DEF SubmittedRow
<1>6. w["completed_at"] \in RowValue("completed_at")
    BY RowValues DEF SubmittedRow
<1> HIDE DEF w
<1>7. RowWrite(w)
    BY <1>3, <1>4, <1>5, <1>6 DEF RowWrite, RowColumn
<1> QED BY <1>7 DEF w

LEMMA SubmitMultiType ==
    ASSUME TypeOK, NEW r \in Requests, NEW force, SubmitMulti(r, force)
    PROVE  TypeOK'
<1> DEFINE w == [Idle EXCEPT !.pc = "commit", !.endpoint = "submit_multi",
                             !.row = Changes(row, SubmittedRow), !.invalidate = TRUE]
<1>1. RequestOK(w)
    BY IdleType, SubmittedRowType, ChangesRowType DEF RequestOK, Idle
<1>2. Begin(r, "submit_multi", w)
    BY DEF SubmitMulti
<1> QED BY <1>1, <1>2, BeginType

LEMMA GradeActivityType ==
    ASSUME TypeOK, NEW r \in Requests, NEW a \in Activities, NEW p \in Points,
           GradeActivity(r, a, p)
    PROVE  TypeOK'
<1> DEFINE w == [Idle EXCEPT !.pc = "commit", !.endpoint = "grade",
                             !.row = Changes(row, [score |-> CombinedScore(Graded(a, p))]),
                             !.records = [b \in {a} |-> Changes(records[a], [score |-> p])],
                             !.invalidate = TRUE]
<1>1. RowWrite([score |-> CombinedScore(Graded(a, p))])
    BY CombinedScoreType DEF RowWrite, RowColumn, RowValue
<1>2. RecordWrite([score |-> p])
    BY DEF RecordWrite, RecordColumn, RecordValue
<1>3. RequestOK(w)
    BY <1>1, <1>2, IdleType, ChangesRowType, ChangesRecordType DEF RequestOK, Idle
<1>4. Begin(r, "grade", w)
    BY DEF GradeActivity
<1> QED BY <1>3, <1>4, BeginType

LEMMA UpdateAssignmentType ==
    ASSUME TypeOK, NEW r \in Requests, NEW S \in SUBSET Activities,
           NEW s \in PublishStatus \cup {"unchanged"}, UpdateAssignment(r, S, s)
    PROVE  TypeOK'
<1> DEFINE w == [Idle EXCEPT !.pc = "commit", !.endpoint = "update",
                             !.unlink = IF S = {} THEN {} ELSE linked,
                             !.link = S, !.publish = s, !.invalidate = TRUE]
<1>1. RequestOK(w)
    BY IdleType DEF RequestOK, Idle, TypeOK, PublishStatus
<1>2. Begin(r, "update", w)
    BY DEF UpdateAssignment
<1> QED BY <1>1, <1>2, BeginType

LEMMA PublishScheduledType ==
    ASSUME TypeOK, NEW r \in Requests, PublishScheduled(r)
    PROVE  TypeOK'
<1> DEFINE w == [Idle EXCEPT !.pc = "commit", !.endpoint = "publish_scheduled",
                             !.publish = "published"]
<1>1. RequestOK(w)
    BY IdleType DEF RequestOK, Idle, PublishStatus
<1>2. Begin(r, "publish_scheduled", w)
    BY DEF PublishScheduled
<1> QED BY <1>1, <1>2, BeginType

LEMMA ListAssignmentsType ==
    ASSUME TypeOK, NEW r \in Requests, ListAssignments(r)
    PROVE  TypeOK'
<1> DEFINE w == [Idle EXCEPT !.pc = "fill", !.endpoint = "list",
                             !.entry = ListView(row, publish)]
<1>1. RequestOK(w)
    BY IdleType, ListViewType DEF RequestOK, Idle
<1>2. Begin(r, "list", w)
    BY DEF ListAssignments
<1> QED BY <1>1, <1>2, BeginType

\* Every later step of a request replaces it by an idle one or by one that
\* still has to invalidate.
LEMMA NextRequestType ==
    ASSUME NEW e
    PROVE  RequestOK([Idle EXCEPT !.pc = "invalidate", !.endpoint = e])
BY IdleType DEF RequestOK, Idle

LEMMA CommitType ==
    ASSUME TypeOK, NEW r \in Requests, Commit(r)
    PROVE  TypeOK'
<1> DEFINE w == request[r]
<1>1. RequestOK(w)
    BY DEF TypeOK
<1>2. DOMAIN row' = RowColumn /\ RowWrite(row')
    BY <1>1, FlushRowType DEF TypeOK, Commit, RequestOK
<1>3. /\ DOMAIN records' = Activities
      /\ \A a \in Activities : DOMAIN records'[a] = RecordColumn /\ RecordWrite(records'[a])
    <2>1. DOMAIN records' = Activities
        BY DEF Commit
    <2>2. ASSUME NEW a \in Activities
          PROVE  DOMAIN records'[a] = RecordColumn /\ RecordWrite(records'[a])
        <3>1. CASE a \in DOMAIN w.records
            BY <1>1, <3>1, FlushRecordType DEF TypeOK, Commit, RequestOK
        <3>2. CASE a \notin DOMAIN w.records
            BY <3>2 DEF TypeOK, Commit
        <3> QED BY <3>1, <3>2
    <2> QED BY <2>1, <2>2
<1>4. linked' \subseteq Activities /\ publish' \in PublishStatus /\ listing' \in ListEntry
    BY <1>1 DEF TypeOK, Commit, RequestOK
<1>5. DOMAIN request' = Requests /\ \A q \in Requests : RequestOK(request'[q])
    <2>1. RequestOK(IF w.invalidate
                    THEN [Idle EXCEPT !.pc = "invalidate", !.endpoint = w.endpoint] ELSE Idle)
        BY IdleType, NextRequestType
    <2> QED BY <2>1 DEF TypeOK, Commit
<1>6. \A q \in Requests : RequestOK(request[q])' <=> RequestOK(request'[q])
    BY DEF RequestOK, RowWrite, RecordWrite
<1> QED BY <1>2, <1>3, <1>4, <1>5, <1>6 DEF TypeOK, RowWrite, RecordWrite

\* A step that only ends a request, caching or dropping the list.
LEMMA EndType ==
    ASSUME TypeOK, NEW r \in Requests, listing' \in ListEntry,
           request' = [request EXCEPT ![r] = Idle],
           UNCHANGED <<row, records, linked, publish>>
    PROVE  TypeOK'
BY IdleType DEF TypeOK, RequestOK, RowWrite, RecordWrite

LEMMA NotCachedType == NotCached \in ListEntry
BY DEF NotCached, ListEntry

\* The initial state is typed.
LEMMA InitType == Init => TypeOK
<1> SUFFICES ASSUME Init PROVE TypeOK
    OBVIOUS
<1>1. DOMAIN row = RowColumn /\ RowWrite(row)
    <2>1. DOMAIN row = RowColumn
        BY DEF Init, RowColumn
    <2>2. row["status"] \in RowValue("status") /\ row["score"] \in RowValue("score")
        BY RowValues DEF Init, Status
    <2>3. row["answers_json"] \in RowValue("answers_json")
        BY RowValues DEF Init, Payload
    <2>4. row["started_at"] \in RowValue("started_at")
        BY RowValues DEF Init
    <2>5. row["completed_at"] \in RowValue("completed_at")
        BY RowValues DEF Init
    <2> QED BY <2>1, <2>2, <2>3, <2>4, <2>5 DEF RowWrite, RowColumn
<1>2. \A a \in Activities : DOMAIN records[a] = RecordColumn /\ RecordWrite(records[a])
    BY RecordTypes DEF Init
<1> QED BY <1>1, <1>2, IdleType, NotCachedType DEF Init, TypeOK, PublishStatus

\* Every step keeps the types.
LEMMA NextType == TypeOK /\ [Next]_vars => TypeOK'
<1> SUFFICES ASSUME TypeOK, [Next]_vars PROVE TypeOK'
    OBVIOUS
<1>1. ASSUME NEW r \in Requests, StartMulti(r) PROVE TypeOK'
    BY <1>1, StartMultiType
<1>2. ASSUME NEW r \in Requests, NEW a \in Activities, NEW d \in Answers,
             NEW finished \in BOOLEAN, SaveActivityProgress(r, a, d, finished)
      PROVE  TypeOK'
    BY <1>2, SaveActivityProgressType
<1>3. ASSUME NEW r \in Requests, NEW force \in BOOLEAN, SubmitMulti(r, force) PROVE TypeOK'
    BY <1>3, SubmitMultiType
<1>4. ASSUME NEW r \in Requests, NEW a \in Activities, NEW p \in Points, GradeActivity(r, a, p)
      PROVE  TypeOK'
    BY <1>4, GradeActivityType
<1>5. ASSUME NEW r \in Requests, NEW S \in SUBSET Activities,
             NEW s \in PublishStatus \cup {"unchanged"}, UpdateAssignment(r, S, s)
      PROVE  TypeOK'
    BY <1>5, UpdateAssignmentType
<1>6. ASSUME NEW r \in Requests, PublishScheduled(r) PROVE TypeOK'
    BY <1>6, PublishScheduledType
<1>7. ASSUME NEW r \in Requests, ListAssignments(r) PROVE TypeOK'
    BY <1>7, ListAssignmentsType
<1>8. ASSUME NEW r \in Requests, Commit(r) PROVE TypeOK'
    BY <1>8, CommitType
<1>9. ASSUME NEW r \in Requests, Rollback(r) PROVE TypeOK'
    BY <1>9, EndType DEF Rollback, TypeOK
<1>10. ASSUME NEW r \in Requests, Invalidate(r) PROVE TypeOK'
    BY <1>10, EndType, NotCachedType DEF Invalidate
<1>11. ASSUME NEW r \in Requests, FillListing(r) PROVE TypeOK'
    <2>1. request[r].entry \in ListEntry
        BY DEF TypeOK, RequestOK
    <2> QED BY <1>11, <2>1, EndType DEF FillListing
<1>12. CASE ExpireListing
    BY <1>12, NotCachedType DEF ExpireListing, TypeOK, RequestOK, RowWrite, RecordWrite
<1>13. CASE UNCHANGED vars
    BY <1>13 DEF vars, TypeOK, RequestOK, RowWrite, RecordWrite
<1> QED BY <1>1, <1>2, <1>3, <1>4, <1>5, <1>6, <1>7, <1>8, <1>9, <1>10, <1>11, <1>12, <1>13
        DEF Next

\* Rows, records and requests keep the types models.py declares, and a score
\* stays a percentage, however many requests of students, teachers and the
\* scheduler overlap.
THEOREM TypeCorrect == Spec => []TypeOK
BY InitType, NextType, PTL DEF Spec

-------------------------------------------------------------------------------
(***************************************************************************)
(* A submission keeps its start time, completion time and score.  The      *)
(* invariants alone are not inductive: a commit applies a write set that   *)
(* was computed from an older row.  What makes them hold is that no write  *)
(* set ever clears a timestamp or a score, and that one which completes    *)
(* the submission brings what the row it was computed from had not got.    *)
(***************************************************************************)
RowWriteSound(u) ==
    /\ "started_at" \in DOMAIN u => u.started_at = TRUE
    /\ "completed_at" \in DOMAIN u => u.completed_at = TRUE
    /\ "score" \in DOMAIN u => u.score # NoScore
    /\ "status" \in DOMAIN u => "started_at" \in DOMAIN u \/ row.started_at = TRUE
    /\ "status" \in DOMAIN u /\ u.status = "completed" =>
          /\ "completed_at" \in DOMAIN u
          /\ "score" \in DOMAIN u \/ row.score # NoScore

RowSound ==
    /\ row.status # "not_started" => row.started_at = TRUE
    /\ row.status = "completed" => row.score # NoScore /\ row.completed_at = TRUE
    /\ \A r \in Requests : RowWriteSound(request[r].row)

(***************************************************************************)
(* A finished activity keeps its answers and its score.  An update is only *)
(* computed for a record that exists, and never clears a score or answers; *)
(* an insert writes the whole record, and only where there is none yet.    *)
(***************************************************************************)
Answered(v) == v.status = "completed" => v.score # NoScore /\ v.response_data # NoAnswers

UpdateSound(a, v) ==
    /\ a \in Existing(records)
    /\ "status" \in DOMAIN v => v.status # "absent"
    /\ "score" \in DOMAIN v => v.score # NoScore
    /\ "response_data" \in DOMAIN v => v.response_data # NoAnswers
    /\ "status" \in DOMAIN v /\ v.status = "completed" =>
          /\ "score" \in DOMAIN v \/ records[a].score # NoScore
          /\ "response_data" \in DOMAIN v \/ records[a].response_data # NoAnswers

InsertSound(v) == DOMAIN v = RecordColumn /\ v.status # "absent" /\ Answered(v)

RecordsSound ==
    /\ \A a \in Activities : Answered(records[a])
    /\ \A r \in Requests : \A a \in DOMAIN request[r].records :
          IF a \in request[r].inserts
          THEN InsertSound(request[r].records[a])
          ELSE UpdateSound(a, request[r].records[a])

\* Beginning a request with a sound write set keeps RowSound.
LEMMA BeginRowSound ==
    ASSUME TypeOK, RowSound, NEW r \in Requests, NEW e, NEW w,
           RowWriteSound(w.row), Begin(r, e, w)
    PROVE  RowSound'
BY DEF TypeOK, RowSound, RowWriteSound, Begin

\* So does a step that replaces a request by one that writes nothing.
LEMMA EndRowSound ==
    ASSUME TypeOK, RowSound, NEW r \in Requests, NEW w, w.row = NoChange,
           request' = [request EXCEPT ![r] = w], UNCHANGED row
    PROVE  RowSound'
BY DEF TypeOK, RowSound, RowWriteSound, NoChange

LEMMA NoChangeRowSound == RowWriteSound(NoChange)
BY DEF NoChange, RowWriteSound

\* A commit never loses a timestamp or a score.
LEMMA FlushKeeps ==
    ASSUME TypeOK, NEW u, RowWriteSound(u), row' = Flush(row, u)
    PROVE  /\ row.started_at = TRUE => row'.started_at = TRUE
           /\ row.completed_at = TRUE => row'.completed_at = TRUE
           /\ row.score # NoScore => row'.score # NoScore
BY DEF TypeOK, RowWriteSound, Flush, RowColumn

LEMMA CommitRowSound ==
    ASSUME TypeOK, RowSound, NEW r \in Requests, Commit(r)
    PROVE  RowSound'
<1> DEFINE u == request[r].row
<1>1. RowWriteSound(u) /\ row' = Flush(row, u)
    BY DEF RowSound, Commit
<1>2. DOMAIN row = RowColumn
    BY DEF TypeOK
<1>3. /\ row.started_at = TRUE => row'.started_at = TRUE
      /\ row.completed_at = TRUE => row'.completed_at = TRUE
      /\ row.score # NoScore => row'.score # NoScore
    BY <1>1, FlushKeeps
<1>4. row'.status # "not_started" => row'.started_at = TRUE
    <2>1. CASE "status" \in DOMAIN u
        BY <1>1, <1>2, <1>3, <2>1 DEF RowWriteSound, Flush, RowColumn
    <2>2. CASE "status" \notin DOMAIN u
        BY <1>1, <1>2, <1>3, <2>2 DEF RowSound, Flush, RowColumn
    <2> QED BY <2>1, <2>2
<1>5. row'.status = "completed" => row'.score # NoScore /\ row'.completed_at = TRUE
    <2>1. CASE "status" \in DOMAIN u
        BY <1>1, <1>2, <1>3, <2>1 DEF RowWriteSound, Flush, RowColumn
    <2>2. CASE "status" \notin DOMAIN u
        BY <1>1, <1>2, <1>3, <2>2 DEF RowSound, Flush, RowColumn
    <2> QED BY <2>1, <2>2
<1>6. ASSUME NEW q \in Requests PROVE RowWriteSound(request[q].row)'
    <2>1. CASE q = r
        BY <2>1, NoChangeRowSound DEF Commit, TypeOK, Idle, NoChange, RowWriteSound
    <2>2. CASE q # r
        <3>1. request'[q] = request[q]
            BY <2>2 DEF Commit, TypeOK
        <3> QED BY <3>1, <1>3 DEF RowSound, RowWriteSound
    <2> QED BY <2>1, <2>2
<1> QED BY <1>4, <1>5, <1>6 DEF RowSound

LEMMA NextRowSound == TypeOK /\ RowSound /\ [Next]_vars => RowSound'
<1> SUFFICES ASSUME TypeOK, RowSound, [Next]_vars PROVE RowSound'
    OBVIOUS
<1>1. ASSUME NEW r \in Requests, StartMulti(r) PROVE RowSound'
    <2> DEFINE opening == CASE row.status = "not_started" ->
                                    [status |-> "in_progress", started_at |-> TRUE]
                            [] ~(row.status = "not_started") /\ ~row.started_at ->
                                    [started_at |-> TRUE]
                            [] OTHER -> NoChange
    <2>1. RowWriteSound(opening)
        BY NoChangeRowSound DEF RowWriteSound
    <2>2. PICK w : w.row = opening /\ Begin(r, "start_multi", w)
        BY <1>1 DEF StartMulti, Idle
    <2> QED BY <2>1, <2>2, BeginRowSound
<1>2. ASSUME NEW r \in Requests, NEW a \in Activities, NEW d \in Answers,
             NEW finished \in BOOLEAN, SaveActivityProgress(r, a, d, finished)
      PROVE  RowSound'
    <2>1. RowWriteSound(RowAtSave)
        BY NoChangeRowSound DEF RowAtSave, RowWriteSound
    <2>2. PICK w : w.row = RowAtSave /\ Begin(r, "save_activity", w)
        BY <1>2 DEF SaveActivityProgress, Idle
    <2> QED BY <2>1, <2>2, BeginRowSound
<1>3. ASSUME NEW r \in Requests, NEW force \in BOOLEAN, SubmitMulti(r, force) PROVE RowSound'
    <2> DEFINE u == Changes(row, SubmittedRow)
    <2>1. row.started_at = TRUE
        BY <1>3 DEF SubmitMulti, SubmitAccepted, RowSound
    <2>2. SubmittedRow.score # NoScore /\ SubmittedRow.completed_at = TRUE
        BY CombinedScoreType DEF SubmittedRow, NoScore
    <2>3. DOMAIN SubmittedRow = {"status", "score", "answers_json", "completed_at"}
        BY DEF SubmittedRow
    <2>4. RowWriteSound(u)
        BY <2>1, <2>2, <2>3 DEF RowWriteSound, Changes, Timestamps
    <2>5. PICK w : w.row = u /\ Begin(r, "submit_multi", w)
        BY <1>3 DEF SubmitMulti, Idle
    <2> QED BY <2>4, <2>5, BeginRowSound
<1>4. ASSUME NEW r \in Requests, NEW a \in Activities, NEW p \in Points, GradeActivity(r, a, p)
      PROVE  RowSound'
    <2> DEFINE u == Changes(row, [score |-> CombinedScore(Graded(a, p))])
    <2>1. a \in Existing(Graded(a, p))
        BY <1>4 DEF GradeActivity, Existing, Graded, TypeOK, RecordColumn
    <2>2. CombinedScore(Graded(a, p)) # NoScore
        BY <2>1, CombinedScoreType DEF Percent, NoScore
    <2>3. RowWriteSound(u)
        BY <2>2 DEF RowWriteSound, Changes
    <2>4. PICK w : w.row = u /\ Begin(r, "grade", w)
        BY <1>4 DEF GradeActivity, Idle
    <2> QED BY <2>3, <2>4, BeginRowSound
<1>5. ASSUME NEW r \in Requests, NEW S \in SUBSET Activities,
             NEW s \in PublishStatus \cup {"unchanged"}, UpdateAssignment(r, S, s)
      PROVE  RowSound'
    <2>1. PICK w : w.row = NoChange /\ Begin(r, "update", w)
        BY <1>5 DEF UpdateAssignment, Idle
    <2> QED BY <2>1, NoChangeRowSound, BeginRowSound
<1>6. ASSUME NEW r \in Requests, PublishScheduled(r) \/ ListAssignments(r) PROVE RowSound'
    <2>1. PICK e, w : w.row = NoChange /\ Begin(r, e, w)
        BY <1>6 DEF PublishScheduled, ListAssignments, Idle
    <2> QED BY <2>1, NoChangeRowSound, BeginRowSound
<1>7. ASSUME NEW r \in Requests, Commit(r) PROVE RowSound'
    BY <1>7, CommitRowSound
<1>8. ASSUME NEW r \in Requests, Rollback(r) \/ Invalidate(r) \/ FillListing(r) PROVE RowSound'
    <2>1. Idle.row = NoChange
        BY DEF Idle
    <2> QED BY <1>8, <2>1, EndRowSound DEF Rollback, Invalidate, FillListing
<1>9. CASE ExpireListing \/ UNCHANGED vars
    BY <1>9 DEF ExpireListing, vars, RowSound, RowWriteSound
<1> QED BY <1>1, <1>2, <1>3, <1>4, <1>5, <1>6, <1>7, <1>8, <1>9 DEF Next

LEMMA InitRowSound == Init => RowSound
BY NoChangeRowSound DEF Init, RowSound, Idle

\* A submission that was opened has a start time, whichever of the requests
\* that open it wins, and whatever they overwrite of each other.
THEOREM OpenedStaysStamped == Spec => []OpenedIsStamped
<1>1. Spec => [](TypeOK /\ RowSound)
    BY InitType, NextType, InitRowSound, NextRowSound, PTL DEF Spec
<1>2. TypeOK /\ RowSound => OpenedIsStamped
    BY DEF RowSound, OpenedIsStamped
<1> QED BY <1>1, <1>2, PTL

\* A completed submission has a score and a completion time, whatever starts,
\* saves, submissions and grades overlap with the one that completed it.
THEOREM CompletedStaysScored == Spec => []CompletedIsScored
<1>1. Spec => [](TypeOK /\ RowSound)
    BY InitType, NextType, InitRowSound, NextRowSound, PTL DEF Spec
<1>2. TypeOK /\ RowSound => CompletedIsScored
    BY DEF RowSound, CompletedIsScored
<1> QED BY <1>1, <1>2, PTL

-------------------------------------------------------------------------------
\* The write sets of two requests for a record can both be pending: an update
\* stays sound when another update of the record commits, or an insert of
\* another record.
LEMMA BeginRecordsSound ==
    ASSUME TypeOK, RecordsSound, NEW r \in Requests, NEW e, NEW w, Begin(r, e, w),
           \A a \in DOMAIN w.records :
              IF a \in w.inserts THEN InsertSound(w.records[a]) ELSE UpdateSound(a, w.records[a])
    PROVE  RecordsSound'
<1>1. records' = records
    BY DEF Begin
<1>2. ASSUME NEW q \in Requests, NEW a \in DOMAIN request'[q].records
      PROVE  IF a \in request'[q].inserts
             THEN InsertSound(request'[q].records[a])
             ELSE UpdateSound(a, request'[q].records[a])
    <2>1. CASE q = r
        BY <1>2, <2>1 DEF Begin, TypeOK
    <2>2. CASE q # r
        BY <1>2, <2>2 DEF Begin, TypeOK, RecordsSound
    <2> QED BY <2>1, <2>2
<1> QED BY <1>1, <1>2 DEF RecordsSound, UpdateSound, InsertSound, Existing, Answered

LEMMA EndRecordsSound ==
    ASSUME TypeOK, RecordsSound, NEW r \in Requests, NEW w, w.records = Idle.records,
           request' = [request EXCEPT ![r] = w], UNCHANGED records
    PROVE  RecordsSound'
<1>1. DOMAIN w.records = {}
    BY DEF Idle
<1>2. ASSUME NEW q \in Requests, NEW a \in DOMAIN request'[q].records
      PROVE  IF a \in request'[q].inserts
             THEN InsertSound(request'[q].records[a])
             ELSE UpdateSound(a, request'[q].records[a])
    <2>1. q # r
        BY <1>1, <1>2 DEF TypeOK
    <2> QED BY <1>2, <2>1 DEF TypeOK, RecordsSound
<1> QED BY <1>2 DEF RecordsSound, UpdateSound, InsertSound, Existing, Answered

\* A sound update leaves a record that exists, answered if it is completed,
\* with the score and the answers it had or new ones.
LEMMA UpdateKeeps ==
    ASSUME TypeOK, NEW a \in Activities, NEW v, Answered(records[a]), UpdateSound(a, v),
           records'[a] = Flush(records[a], v)
    PROVE  /\ Answered(records'[a]) /\ records'[a].status # "absent"
           /\ records[a].score # NoScore => records'[a].score # NoScore
           /\ records[a].response_data # NoAnswers => records'[a].response_data # NoAnswers
<1>1. DOMAIN records[a] = RecordColumn /\ records[a].status # "absent"
    BY DEF TypeOK, UpdateSound, Existing
<1>2. /\ records'[a].status = IF "status" \in DOMAIN v THEN v.status ELSE records[a].status
      /\ records'[a].score = IF "score" \in DOMAIN v THEN v.score ELSE records[a].score
      /\ records'[a].response_data = IF "response_data" \in DOMAIN v
                                     THEN v.response_data ELSE records[a].response_data
    BY <1>1 DEF Flush, RecordColumn
<1> QED BY <1>1, <1>2 DEF Answered, UpdateSound

\* A sound insert leaves the record it writes.
LEMMA InsertKeeps ==
    ASSUME TypeOK, NEW a \in Activities, NEW v, InsertSound(v),
           records'[a] = Flush(records[a], v)
    PROVE  Answered(records'[a]) /\ records'[a].status # "absent"
<1>1. DOMAIN records[a] = RecordColumn /\ DOMAIN v = RecordColumn
    BY DEF TypeOK, InsertSound
<1>2. /\ records'[a].status = v.status /\ records'[a].score = v.score
      /\ records'[a].response_data = v.response_data
    BY <1>1 DEF Flush, RecordColumn
<1> QED BY <1>2 DEF Answered, InsertSound

LEMMA CommitRecordsSound ==
    ASSUME TypeOK, RecordsSound, NEW r \in Requests, Commit(r)
    PROVE  RecordsSound'
<1> DEFINE w == request[r]
           Kept(a) == /\ a \in Existing(records)
                      /\ a \in Activities
                      /\ records'[a].status # "absent"
                      /\ records[a].score # NoScore => records'[a].score # NoScore
                      /\ records[a].response_data # NoAnswers
                            => records'[a].response_data # NoAnswers
<1>1. w.inserts \cap Existing(records) = {}
    BY DEF Commit, FlushFails
<1>2. \A a \in Activities : records'[a] = IF a \in DOMAIN w.records
                                          THEN Flush(records[a], w.records[a]) ELSE records[a]
    BY DEF Commit
<1>3. ASSUME NEW a \in Activities
      PROVE  Answered(records'[a]) /\ (a \in Existing(records) => Kept(a))
    <2>1. CASE a \notin DOMAIN w.records
        BY <1>2, <2>1 DEF RecordsSound, Existing
    <2>2. CASE a \in DOMAIN w.records /\ a \in w.inserts
        <3>1. InsertSound(w.records[a]) /\ a \notin Existing(records)
            BY <1>1, <2>2 DEF RecordsSound
        <3> QED BY <1>2, <2>2, <3>1, InsertKeeps
    <2>3. CASE a \in DOMAIN w.records /\ a \notin w.inserts
        <3>1. UpdateSound(a, w.records[a]) /\ Answered(records[a])
            BY <2>3 DEF RecordsSound
        <3> QED BY <1>2, <2>3, <3>1, UpdateKeeps
    <2> QED BY <2>1, <2>2, <2>3
<1>4. ASSUME NEW q \in Requests, NEW a \in DOMAIN request'[q].records
      PROVE  (IF a \in request[q].inserts
              THEN InsertSound(request[q].records[a])
              ELSE UpdateSound(a, request[q].records[a]))'
    <2>1. q # r
        BY <1>4 DEF Commit, TypeOK, Idle
    <2>2. request'[q] = request[q]
        BY <2>1 DEF Commit, TypeOK
    <2>3. a \in Activities
        BY <1>4, <2>2 DEF TypeOK, RequestOK
    <2>4. CASE a \in request[q].inserts
        BY <1>4, <2>2, <2>4 DEF RecordsSound, InsertSound, Answered
    <2>5. CASE a \notin request[q].inserts
        <3>1. UpdateSound(a, request[q].records[a])
            BY <1>4, <2>2, <2>5 DEF RecordsSound
        <3>2. Kept(a)
            BY <1>3, <2>3, <3>1 DEF UpdateSound
        <3>3. a \in Existing(records')
            BY <3>2 DEF Existing
        <3> QED BY <2>2, <2>5, <3>1, <3>2, <3>3 DEF UpdateSound, Existing
    <2> QED BY <2>4, <2>5
<1> QED BY <1>3, <1>4 DEF RecordsSound, InsertSound, Answered

LEMMA NextRecordsSound == TypeOK /\ RecordsSound /\ [Next]_vars => RecordsSound'
<1> SUFFICES ASSUME TypeOK, RecordsSound, [Next]_vars PROVE RecordsSound'
    OBVIOUS
<1>1. ASSUME NEW r \in Requests, StartMulti(r) PROVE RecordsSound'
    <2> DEFINE missing == linked \ Existing(records)
    <2>1. InsertSound(NewRecord)
        BY RecordTypes DEF InsertSound, Answered, NewRecord, AbsentRecord
    <2>2. PICK w : /\ w.records = [a \in missing |-> NewRecord]
                   /\ w.inserts = missing
                   /\ Begin(r, "start_multi", w)
        BY <1>1 DEF StartMulti, Idle
    <2> QED BY <2>1, <2>2, BeginRecordsSound
<1>2. ASSUME NEW r \in Requests, NEW a \in Activities, NEW d \in Answers,
             NEW finished \in BOOLEAN, SaveActivityProgress(r, a, d, finished)
      PROVE  RecordsSound'
    <2> DEFINE existing == a \in Existing(records)
               saved == SavedRecord(d, finished)
               v == IF existing THEN Changes(records[a], saved) ELSE Flush(NewRecord, saved)
    <2>1. saved.response_data # NoAnswers /\ saved.status \in {"in_progress", "completed"}
        BY AnswersAssumption DEF SavedRecord
    <2>2. finished => saved.score # NoScore /\ DOMAIN saved = RecordColumn
        BY BookAssumption DEF SavedRecord, NoScore, RecordColumn
    <2>3. ~finished => DOMAIN saved = {"status", "response_data"} /\ saved.status = "in_progress"
        BY DEF SavedRecord
    <2>4. CASE existing
        <3>1. UpdateSound(a, Changes(records[a], saved))
            BY <2>1, <2>2, <2>3, <2>4 DEF UpdateSound, Changes, Timestamps, RecordColumn
        <3>2. PICK w : /\ w.records = [b \in {a} |-> v]
                       /\ w.inserts = {}
                       /\ Begin(r, "save_activity", w)
            BY <1>2, <2>4 DEF SaveActivityProgress, Idle
        <3> QED BY <2>4, <3>1, <3>2, BeginRecordsSound
    <2>5. CASE ~existing
        <3>1. InsertSound(Flush(NewRecord, saved))
            BY <2>1, <2>2, <2>3, RecordTypes DEF InsertSound, Answered, Flush, RecordColumn
        <3>2. PICK w : /\ w.records = [b \in {a} |-> v]
                       /\ w.inserts = {a}
                       /\ Begin(r, "save_activity", w)
            BY <1>2, <2>5 DEF SaveActivityProgress, Idle
        <3> QED BY <2>5, <3>1, <3>2, BeginRecordsSound
    <2> QED BY <2>4, <2>5
<1>3. ASSUME NEW r \in Requests, NEW a \in Activities, NEW p \in Points, GradeActivity(r, a, p)
      PROVE  RecordsSound'
    <2> DEFINE v == Changes(records[a], [score |-> p])
    <2>1. a \in Existing(records) /\ p # NoScore
        BY <1>3, BookAssumption DEF GradeActivity, Points, NoScore
    <2>2. UpdateSound(a, v)
        BY <2>1 DEF UpdateSound, Changes
    <2>3. PICK w : /\ w.records = [b \in {a} |-> v]
                   /\ w.inserts = {}
                   /\ Begin(r, "grade", w)
        BY <1>3 DEF GradeActivity, Idle
    <2> QED BY <2>2, <2>3, BeginRecordsSound
<1>4. ASSUME NEW r \in Requests, NEW force \in BOOLEAN, SubmitMulti(r, force)
      PROVE  RecordsSound'
    <2>1. PICK w : DOMAIN w.records = {} /\ Begin(r, "submit_multi", w)
        BY <1>4 DEF SubmitMulti, Idle
    <2> QED BY <2>1, BeginRecordsSound
<1>5. ASSUME NEW r \in Requests, NEW S \in SUBSET Activities,
             NEW s \in PublishStatus \cup {"unchanged"}, UpdateAssignment(r, S, s)
      PROVE  RecordsSound'
    <2>1. PICK w : DOMAIN w.records = {} /\ Begin(r, "update", w)
        BY <1>5 DEF UpdateAssignment, Idle
    <2> QED BY <2>1, BeginRecordsSound
<1>6. ASSUME NEW r \in Requests, PublishScheduled(r) \/ ListAssignments(r) PROVE RecordsSound'
    <2>1. PICK e, w : DOMAIN w.records = {} /\ Begin(r, e, w)
        BY <1>6 DEF PublishScheduled, ListAssignments, Idle
    <2> QED BY <2>1, BeginRecordsSound
<1>7. ASSUME NEW r \in Requests, Commit(r) PROVE RecordsSound'
    BY <1>7, CommitRecordsSound
<1>8. ASSUME NEW r \in Requests, Rollback(r) \/ Invalidate(r) \/ FillListing(r)
      PROVE  RecordsSound'
    BY <1>8, EndRecordsSound DEF Rollback, Invalidate, FillListing
<1>9. CASE ExpireListing \/ UNCHANGED vars
    BY <1>9 DEF ExpireListing, vars, RecordsSound, UpdateSound, InsertSound, Existing, Answered
<1> QED BY <1>1, <1>2, <1>3, <1>4, <1>5, <1>6, <1>7, <1>8, <1>9 DEF Next

LEMMA InitRecordsSound == Init => RecordsSound
BY DEF Init, RecordsSound, Answered, Idle, NewRecord, AbsentRecord

\* A finished activity has its answers and its score, whatever saves, inserts
\* and grades of the same activity overlap.
THEOREM FinishedStaysAnswered == Spec => []FinishedIsAnswered
<1>1. Spec => [](TypeOK /\ RecordsSound)
    BY InitType, NextType, InitRecordsSound, NextRecordsSound, PTL DEF Spec
<1>2. TypeOK /\ RecordsSound => FinishedIsAnswered
    BY DEF RecordsSound, Answered, FinishedIsAnswered
<1> QED BY <1>1, <1>2, PTL

-------------------------------------------------------------------------------
(***************************************************************************)
(* What needs some requests not to race.                                   *)
(*                                                                         *)
(* NoSaveBesideSubmit: while a submit is between its read and its commit,  *)
(* no start and no save is, either way round.  Submits may overlap each    *)
(* other, and everything may overlap the teacher's grades and edits, the   *)
(* scheduler and the list.  NoGradeBesideScoring: nor does a grade overlap *)
(* another grade, or a submit.  The answers and the lifecycle need the     *)
(* first only, the score needs both.                                       *)
(*                                                                         *)
(* The invariants are about what the write sets in flight make of the row  *)
(* and the records (RowAfter, RecordsAfter).                               *)
(***************************************************************************)
Writing(r) == request[r].pc = "commit"

Saving(w) == w.endpoint \in {"start_multi", "save_activity"}

Scoring(w) == w.endpoint \in {"submit_multi", "grade"}

NoSaveBesideSubmit ==
    \A q, r \in Requests :
        Writing(q) /\ Writing(r) /\ request[q].endpoint = "submit_multi"
            => ~Saving(request[r])

NoGradeBesideScoring ==
    \A q, r \in Requests :
        q # r /\ Writing(q) /\ Writing(r) /\ request[q].endpoint = "grade"
            => ~Scoring(request[r])

RowAfter(w) == Flush(row, w.row)

RecordsAfter(w) ==
    [a \in Activities |->
        IF a \in DOMAIN w.records THEN Flush(records[a], w.records[a]) ELSE records[a]]

AnswersOf(recs) == [a \in Activities |-> recs[a].response_data]

\* Row x, once completed, has the answers of the records recs.
Filed(x, recs) ==
    /\ Existing(recs) # {}
    /\ x.status = "completed" => x.answers_json = AnswersOf(recs)

\* From row x to row y is a step of SubmissionLifecycle, or none.
LifecycleStep(x, y) ==
    \/ /\ y.status = x.status
       /\ y.score = x.score \/ y.score \in Percent
       /\ y.answers_json = x.answers_json
    \/ /\ x.status = "not_started" /\ y.status = "in_progress"
       /\ y.score = x.score /\ y.answers_json = x.answers_json
    \/ /\ x.status = "in_progress" /\ y.status = "completed"
       /\ y.score \in Percent /\ y.answers_json \in [Activities -> Payload]

\* No write set takes a record away.
RecordsKept(w) ==
    \A a \in DOMAIN w.records :
        "status" \in DOMAIN w.records[a] => w.records[a].status # "absent"

\* A start or a save writes to an open submission, and leaves its score alone.
SaveSound(w) ==
    /\ row.status # "completed"
    /\ "score" \notin DOMAIN w.row /\ "answers_json" \notin DOMAIN w.row
    /\ "status" \in DOMAIN w.row => w.row.status = "in_progress"

\* A grade writes scores only.
GradeSound(w) ==
    /\ DOMAIN w.row \subseteq {"score"}
    /\ "score" \in DOMAIN w.row => w.row.score \in Percent
    /\ \A a \in DOMAIN w.records : DOMAIN w.records[a] \subseteq {"score"}

\* A submit takes the answers from the records as they are now, although it
\* read them earlier and another submit may have committed since.
SubmitSound(w) ==
    /\ DOMAIN w.records = {}
    /\ row.status # "not_started" /\ RowAfter(w).status = "completed"
    /\ RowAfter(w).score \in Percent
    /\ RowAfter(w).answers_json = AnswersOf(records)

\* Edits, the scheduler and the list leave row and records alone.
OtherSound(w) == DOMAIN w.row = {} /\ DOMAIN w.records = {}

WriteSound(w) ==
    /\ RecordsKept(w)
    /\ Saving(w) => SaveSound(w)
    /\ w.endpoint = "grade" => GradeSound(w)
    /\ w.endpoint = "submit_multi" => SubmitSound(w)
    /\ ~Saving(w) /\ ~Scoring(w) => OtherSound(w)

Recorded ==
    /\ Filed(row, records)
    /\ \A r \in Requests : Writing(r) => WriteSound(request[r])

\* The score a submit or a grade in flight writes is that of the records it
\* leaves, if it leaves the submission completed.
ScoreSound(w) ==
    /\ w.endpoint = "submit_multi" => RowAfter(w).score = CombinedScore(records)
    /\ w.endpoint = "grade" /\ row.status = "completed"
          => RowAfter(w).score = CombinedScore(RecordsAfter(w))

Combined ==
    /\ ScoreIsCombined
    /\ \A r \in Requests : Writing(r) => ScoreSound(request[r])

\* A flushed write set replaces the columns it has.
LEMMA RowAfterColumns ==
    ASSUME TypeOK, NEW w
    PROVE  \A c \in {"status", "score", "answers_json"} :
              RowAfter(w)[c] = IF c \in DOMAIN w.row THEN w.row[c] ELSE row[c]
BY DEF TypeOK, RowAfter, Flush, RowColumn

\* A flush of the changed columns has the effect of one of all assigned columns.
LEMMA FlushChanges ==
    ASSUME NEW x, NEW w, NEW c \in DOMAIN x
    PROVE  Flush(x, Changes(x, w))[c] = IF c \in DOMAIN w THEN w[c] ELSE x[c]
BY DEF Flush, Changes, Timestamps

\* The combined score depends on which records exist and on their scores.
LEMMA CombinedScoreOf ==
    ASSUME NEW recs, NEW other,
           \A a \in Activities : /\ recs[a].status = "absent" <=> other[a].status = "absent"
                                 /\ recs[a].score = other[a].score
    PROVE  CombinedScore(recs) = CombinedScore(other)
<1>1. Existing(recs) = Existing(other)
    BY DEF Existing
<1>2. Earned(recs) = Earned(other)
    BY <1>1 DEF Earned, Existing
<1> QED BY <1>1, <1>2 DEF CombinedScore

\* A record that exists stays there.
LEMMA RecordsAfterExist ==
    ASSUME TypeOK, Existing(records) # {}, NEW w, RecordsKept(w)
    PROVE  Existing(RecordsAfter(w)) # {}
<1>1. PICK a \in Activities : records[a].status # "absent"
    BY DEF Existing
<1>2. DOMAIN records[a] = RecordColumn /\ "status" \in RecordColumn
    BY DEF TypeOK, RecordColumn
<1>3. RecordsAfter(w)[a].status # "absent"
    BY <1>1, <1>2 DEF RecordsAfter, RecordsKept, Flush
<1> QED BY <1>3 DEF Existing

\* Only a start or a save changes the answers of the records.
LEMMA AnswersOfStay ==
    ASSUME TypeOK, NEW w, WriteSound(w), ~Saving(w)
    PROVE  AnswersOf(RecordsAfter(w)) = AnswersOf(records)
<1> SUFFICES ASSUME NEW a \in Activities, a \in DOMAIN w.records
             PROVE  Flush(records[a], w.records[a]).response_data = records[a].response_data
    BY DEF AnswersOf, RecordsAfter
<1>1. DOMAIN w.records[a] \subseteq {"score"}
    BY DEF WriteSound, GradeSound, SubmitSound, OtherSound, Scoring
<1>2. DOMAIN records[a] = RecordColumn /\ "response_data" \in RecordColumn
    BY DEF TypeOK, RecordColumn
<1> QED BY <1>1, <1>2 DEF Flush

\* What a write set that is neither a start's nor a save's makes of the row.
LEMMA RowAfterRest ==
    ASSUME TypeOK, NEW w, WriteSound(w), ~Saving(w)
    PROVE  /\ \/ RowAfter(w).status = row.status
              \/ w.endpoint = "submit_multi" /\ RowAfter(w).status = "completed"
           /\ \/ RowAfter(w).score = row.score
              \/ RowAfter(w).score \in Percent
           /\ \/ RowAfter(w).answers_json = row.answers_json
              \/ /\ w.endpoint = "submit_multi"
                 /\ RowAfter(w).answers_json = AnswersOf(records)
<1>1. CASE w.endpoint = "submit_multi"
    BY <1>1 DEF WriteSound, SubmitSound
<1>2. CASE w.endpoint # "submit_multi"
    BY <1>2, RowAfterColumns DEF WriteSound, GradeSound, OtherSound, Scoring
<1> QED BY <1>1, <1>2

\* What a write set in flight is going to make of the submission.
LEMMA WriteFiles ==
    ASSUME TypeOK, Filed(row, records), NEW w, WriteSound(w)
    PROVE  /\ Filed(RowAfter(w), RecordsAfter(w))
           /\ LifecycleStep(row, RowAfter(w))
<1>1. Existing(RecordsAfter(w)) # {}
    BY RecordsAfterExist DEF Filed, WriteSound
<1>2. row.status \in Status
    BY DEF TypeOK, RowWrite, RowColumn, RowValue
<1>3. CASE Saving(w)
    <2>1. /\ row.status # "completed"
          /\ RowAfter(w).score = row.score /\ RowAfter(w).answers_json = row.answers_json
          /\ RowAfter(w).status \in {row.status, "in_progress"}
        BY <1>3, RowAfterColumns DEF WriteSound, SaveSound
    <2> QED BY <1>1, <1>2, <2>1 DEF Filed, LifecycleStep, Status
<1>4. CASE w.endpoint = "submit_multi"
    <2>1. /\ row.status # "not_started" /\ RowAfter(w).status = "completed"
          /\ RowAfter(w).score \in Percent
          /\ RowAfter(w).answers_json = AnswersOf(records)
        BY <1>4 DEF WriteSound, SubmitSound
    <2>2. AnswersOf(RecordsAfter(w)) = AnswersOf(records)
        BY <1>4, AnswersOfStay DEF Saving
    <2>3. AnswersOf(records) \in [Activities -> Payload]
        BY DEF AnswersOf, TypeOK, RecordWrite, RecordColumn, RecordValue
    <2>4. row.status = "completed" => RowAfter(w).answers_json = row.answers_json
        BY <2>1 DEF Filed
    <2> QED BY <1>1, <1>2, <2>1, <2>2, <2>3, <2>4 DEF Filed, LifecycleStep, Status
<1>5. CASE ~Saving(w) /\ w.endpoint # "submit_multi"
    BY <1>1, <1>5, RowAfterRest, AnswersOfStay DEF Filed, LifecycleStep
<1> QED BY <1>3, <1>4, <1>5

\* A write set stays sound while row and records stay.
LEMMA SoundStays ==
    ASSUME UNCHANGED <<row, records>>, NEW q \in Requests
    PROVE  /\ WriteSound(request'[q]) => WriteSound(request[q])'
           /\ ScoreSound(request'[q]) => ScoreSound(request[q])'
<1>1. /\ RowAfter(request[q])' = RowAfter(request'[q])
      /\ RecordsAfter(request[q])' = RecordsAfter(request'[q])
    BY DEF RowAfter, RecordsAfter
<1>2. WriteSound(request'[q]) => WriteSound(request[q])'
    BY <1>1 DEF WriteSound, RecordsKept, SaveSound, GradeSound, SubmitSound, OtherSound,
                Saving, Scoring, AnswersOf
<1>3. ScoreSound(request'[q]) => ScoreSound(request[q])'
    BY <1>1 DEF ScoreSound, CombinedScore, Existing, Earned
<1> QED BY <1>2, <1>3

\* Request r begins with a sound write set.
BeginsSound(r) == \E e, w : Begin(r, e, w) /\ WriteSound(w) /\ ScoreSound(w)

LEMMA BeginKeeps ==
    ASSUME TypeOK, NEW r \in Requests, BeginsSound(r)
    PROVE  /\ UNCHANGED <<row, records>>
           /\ Recorded => Recorded'
           /\ Combined => Combined'
<1>1. PICK e, w : Begin(r, e, w) /\ WriteSound(w) /\ ScoreSound(w)
    BY DEF BeginsSound
<1>2. /\ UNCHANGED <<row, records>>
      /\ \A q \in Requests : request'[q] = IF q = r THEN w ELSE request[q]
    BY <1>1 DEF Begin, TypeOK
<1>3. ASSUME Recorded, NEW q \in Requests, Writing(q)' PROVE WriteSound(request'[q])
    BY <1>1, <1>2, <1>3 DEF Writing, Recorded
<1>4. ASSUME Combined, NEW q \in Requests, Writing(q)' PROVE ScoreSound(request'[q])
    BY <1>1, <1>2, <1>4 DEF Writing, Combined
<1>5. Recorded => Recorded'
    BY <1>2, <1>3, SoundStays DEF Recorded, Filed, Existing, AnswersOf
<1>6. Combined => Combined'
    BY <1>2, <1>4, SoundStays DEF Combined, ScoreIsCombined, CombinedScore, Existing, Earned
<1> QED BY <1>2, <1>5, <1>6

\* Steps that end a request, or concern the list, keep row, records and the
\* write sets in flight.
LEMMA RestKeeps ==
    ASSUME TypeOK, UNCHANGED <<row, records>>,
           \A q \in Requests : Writing(q)' => request'[q] = request[q]
    PROVE  (Recorded => Recorded') /\ (Combined => Combined')
<1>1. ASSUME Recorded, NEW q \in Requests, Writing(q)' PROVE WriteSound(request'[q])
    BY <1>1 DEF Writing, Recorded
<1>2. ASSUME Combined, NEW q \in Requests, Writing(q)' PROVE ScoreSound(request'[q])
    BY <1>2 DEF Writing, Combined
<1>3. Recorded => Recorded'
    BY <1>1, SoundStays DEF Recorded, Filed, Existing, AnswersOf
<1>4. Combined => Combined'
    BY <1>2, SoundStays DEF Combined, ScoreIsCombined, CombinedScore, Existing, Earned
<1> QED BY <1>3, <1>4

\* What a commit does to the rows, and which write sets are left.
LEMMA CommitEffect ==
    ASSUME TypeOK, NEW r \in Requests, Commit(r)
    PROVE  /\ Writing(r)
           /\ row' = RowAfter(request[r]) /\ records' = RecordsAfter(request[r])
           /\ \A q \in Requests : Writing(q)' => /\ q # r /\ Writing(q)
                                                 /\ request'[q] = request[q]
BY DEF Commit, Writing, RowAfter, RecordsAfter, TypeOK, Idle

\* A submit in flight stays sound unless a start or a save commits.
LEMMA SubmitStays ==
    ASSUME TypeOK, NEW r \in Requests, Commit(r), WriteSound(request[r]), ~Saving(request[r]),
           NEW q \in Requests, request'[q] = request[q], SubmitSound(request[q])
    PROVE  SubmitSound(request[q])'
<1> DEFINE v == request[q]
           w == request[r]
<1>1. row' = RowAfter(w) /\ records' = RecordsAfter(w)
    BY CommitEffect
<1>2. AnswersOf(records)' = AnswersOf(records)
    BY <1>1, AnswersOfStay DEF AnswersOf
<1>3. /\ row'.status \in {row.status, "completed"}
      /\ row'.score = row.score \/ row'.score \in Percent
      /\ row'.answers_json \in {row.answers_json, AnswersOf(records)}
    BY <1>1, RowAfterRest
<1>4. \A c \in {"status", "score", "answers_json"} :
          /\ c \in DOMAIN row /\ c \in DOMAIN row'
          /\ RowAfter(v)'[c] = IF c \in DOMAIN v.row THEN v.row[c] ELSE row'[c]
    BY <1>1 DEF TypeOK, RowColumn, RowAfter, Flush
<1>5. /\ RowAfter(v)'.status = "completed"
      /\ RowAfter(v)'.score \in Percent
      /\ RowAfter(v)'.answers_json = AnswersOf(records)
    BY <1>3, <1>4, RowAfterColumns DEF SubmitSound
<1> QED BY <1>2, <1>3, <1>5 DEF SubmitSound

\* A commit makes the row and the records what its write set announced, and
\* leaves the other write sets in flight sound.
LEMMA CommitRecorded ==
    ASSUME TypeOK, Recorded, NoSaveBesideSubmit, NEW r \in Requests, Commit(r)
    PROVE  Recorded' /\ LifecycleStep(row, row')
<1> DEFINE w == request[r]
<1>1. /\ Writing(r) /\ WriteSound(w)
      /\ row' = RowAfter(w) /\ records' = RecordsAfter(w)
    BY CommitEffect DEF Recorded
<1>2. Filed(row, records)' /\ LifecycleStep(row, row')
    BY <1>1, WriteFiles DEF Recorded, Filed, Existing, AnswersOf
<1>3. ASSUME NEW q \in Requests, Writing(q)' PROVE WriteSound(request[q])'
    <2> DEFINE v == request[q]
    <2>1. Writing(q) /\ request'[q] = v /\ WriteSound(v)
        BY <1>3, CommitEffect DEF Recorded
    <2>2. /\ RecordsKept(v)'
          /\ v.endpoint = "grade" => GradeSound(v)'
          /\ ~Saving(v) /\ ~Scoring(v) => OtherSound(v)'
        BY <2>1 DEF WriteSound, RecordsKept, GradeSound, OtherSound
    <2>3. ASSUME Saving(v) PROVE SaveSound(v)'
        <3>1. w.endpoint # "submit_multi" /\ SaveSound(v)
            BY <1>1, <2>1, <2>3 DEF NoSaveBesideSubmit, WriteSound
        <3>2. row'.status # "completed"
            <4>1. CASE Saving(w)
                BY <1>1, <4>1, RowAfterColumns DEF WriteSound, SaveSound
            <4>2. CASE ~Saving(w)
                BY <1>1, <3>1, <4>2, RowAfterRest DEF SaveSound
            <4> QED BY <4>1, <4>2
        <3> QED BY <2>1, <3>1, <3>2 DEF SaveSound
    <2>4. ASSUME v.endpoint = "submit_multi" PROVE SubmitSound(v)'
        <3>1. ~Saving(w) /\ SubmitSound(v)
            BY <1>1, <2>1, <2>4 DEF NoSaveBesideSubmit, WriteSound
        <3> QED BY <1>1, <2>1, <3>1, SubmitStays
    <2> QED BY <2>1, <2>2, <2>3, <2>4 DEF WriteSound, Saving, Scoring
<1> QED BY <1>2, <1>3 DEF Recorded

\* It leaves the score to be that of the records, if the grades keep apart.
LEMMA CommitCombined ==
    ASSUME TypeOK, Recorded, Combined, NoSaveBesideSubmit, NoGradeBesideScoring,
           NEW r \in Requests, Commit(r)
    PROVE  Combined'
<1> DEFINE w == request[r]
<1>1. /\ Writing(r) /\ WriteSound(w) /\ ScoreSound(w)
      /\ row' = RowAfter(w) /\ records' = RecordsAfter(w)
    BY CommitEffect DEF Recorded, Combined
<1>2. w.endpoint = "submit_multi" \/ (~Saving(w) /\ ~Scoring(w))
          => \A a \in Activities : RecordsAfter(w)[a] = records[a]
    BY <1>1 DEF WriteSound, SubmitSound, OtherSound, RecordsAfter
<1>3. w.endpoint = "submit_multi" \/ (~Saving(w) /\ ~Scoring(w))
          => CombinedScore(RecordsAfter(w)) = CombinedScore(records)
    BY <1>2, CombinedScoreOf
<1>4. Saving(w) => row'.status # "completed"
    BY <1>1, RowAfterColumns DEF WriteSound, SaveSound
<1>5. ~Saving(w) /\ w.endpoint # "submit_multi" => row'.status = row.status
    BY <1>1, RowAfterRest
<1>6. ~Saving(w) /\ ~Scoring(w) => row'.score = row.score
    BY <1>1, RowAfterColumns DEF WriteSound, OtherSound
<1>7. CombinedScore(records)' = CombinedScore(RecordsAfter(w))
    BY <1>1 DEF CombinedScore, Existing, Earned
<1>8. ScoreIsCombined'
    <2>1. CASE w.endpoint = "submit_multi"
        BY <1>1, <1>3, <1>7, <2>1 DEF ScoreIsCombined, ScoreSound
    <2>2. CASE w.endpoint = "grade"
        BY <1>1, <1>5, <1>7, <2>2 DEF ScoreIsCombined, ScoreSound, Saving
    <2>3. CASE ~Saving(w) /\ ~Scoring(w)
        BY <1>3, <1>5, <1>6, <1>7, <2>3 DEF ScoreIsCombined, Combined, Scoring
    <2> QED BY <1>4, <2>1, <2>2, <2>3 DEF ScoreIsCombined, Scoring
<1>9. ASSUME NEW q \in Requests, Writing(q)' PROVE ScoreSound(request[q])'
    <2> DEFINE v == request[q]
    <2>1. Writing(q) /\ q # r /\ request'[q] = v /\ ScoreSound(v)
        BY <1>9, CommitEffect DEF Combined
    <2>2. CASE v.endpoint = "submit_multi"
        <3>1. ~Saving(w) /\ w.endpoint # "grade"
            BY <1>1, <2>1, <2>2 DEF NoSaveBesideSubmit, NoGradeBesideScoring, Scoring
        <3>2. row'.score \in {row.score, CombinedScore(records)}
            BY <1>1, <1>6, <3>1 DEF ScoreSound, Scoring
        <3>3. "score" \in DOMAIN row /\ "score" \in DOMAIN row'
            BY <1>1 DEF TypeOK, RowColumn, RowAfter, Flush
        <3>4. RowAfter(v)'.score = IF "score" \in DOMAIN v.row THEN v.row.score ELSE row'.score
            BY <2>1, <3>3 DEF RowAfter, Flush
        <3>5. RowAfter(v).score = CombinedScore(records)
            BY <2>1, <2>2 DEF ScoreSound
        <3>6. RowAfter(v)'.score = CombinedScore(records)
            BY <3>2, <3>4, <3>5, RowAfterColumns
        <3>7. CombinedScore(records)' = CombinedScore(records)
            BY <1>3, <1>7, <3>1 DEF Scoring
        <3> QED BY <2>1, <2>2, <3>6, <3>7 DEF ScoreSound
    <2>3. CASE v.endpoint = "grade" /\ row'.status = "completed"
        <3>1. ~Saving(w) /\ ~Scoring(w)
            BY <1>1, <1>4, <2>1, <2>3 DEF NoGradeBesideScoring
        <3>2. row.status = "completed" /\ row'.score = row.score
            BY <1>5, <1>6, <2>3, <3>1 DEF Scoring
        <3>3. "score" \in DOMAIN row /\ "score" \in DOMAIN row'
            BY <1>1 DEF TypeOK, RowColumn, RowAfter, Flush
        <3>4. RowAfter(v)'.score = RowAfter(v).score
            BY <2>1, <3>2, <3>3 DEF RowAfter, Flush
        <3>5. \A a \in Activities : records'[a] = records[a]
            BY <1>1, <1>2, <3>1
        <3>6. RecordsAfter(v)' = RecordsAfter(v)
            BY <2>1, <3>5 DEF RecordsAfter
        <3>7. CombinedScore(RecordsAfter(v))' = CombinedScore(RecordsAfter(v))
            BY <3>6 DEF CombinedScore, Existing, Earned
        <3> QED BY <2>1, <2>3, <3>2, <3>4, <3>7 DEF ScoreSound
    <2> QED BY <2>1, <2>2, <2>3 DEF ScoreSound
<1> QED BY <1>8, <1>9 DEF Combined

\* The write sets of the actions.
LEMMA StartMultiBegins ==
    ASSUME TypeOK, Recorded, NEW r \in Requests, StartMulti(r)
    PROVE  BeginsSound(r)
<1> DEFINE missing == linked \ Existing(records)
           starting == row.status = "not_started"
           opening == CASE starting -> [status |-> "in_progress", started_at |-> TRUE]
                        [] ~starting /\ ~row.started_at -> [started_at |-> TRUE]
                        [] OTHER -> NoChange
<1>1. PICK w : /\ w.row = opening
               /\ w.records = [a \in missing |-> NewRecord]
               /\ w.endpoint = "start_multi"
               /\ Begin(r, "start_multi", w)
    BY DEF StartMulti, Idle
<1>2. /\ "score" \notin DOMAIN opening /\ "answers_json" \notin DOMAIN opening
      /\ "status" \in DOMAIN opening => opening.status = "in_progress"
    BY DEF NoChange
<1> HIDE DEF opening
<1>3. SaveSound(w)
    BY <1>1, <1>2 DEF SaveSound, StartMulti
<1>4. RecordsKept(w)
    BY <1>1 DEF RecordsKept, NewRecord, AbsentRecord
<1> QED BY <1>1, <1>3, <1>4 DEF BeginsSound, WriteSound, ScoreSound, Saving, Scoring

LEMMA SaveActivityProgressBegins ==
    ASSUME TypeOK, Recorded, NEW r \in Requests, NEW a \in Activities, NEW d \in Answers,
           NEW finished \in BOOLEAN, SaveActivityProgress(r, a, d, finished)
    PROVE  BeginsSound(r)
<1> DEFINE saved == SavedRecord(d, finished)
           v == IF a \in Existing(records)
                THEN Changes(records[a], saved) ELSE Flush(NewRecord, saved)
<1>1. PICK w : /\ w.row = RowAtSave
               /\ w.records = [b \in {a} |-> v]
               /\ w.endpoint = "save_activity"
               /\ Begin(r, "save_activity", w)
    BY DEF SaveActivityProgress, Idle
<1>2. /\ "score" \notin DOMAIN RowAtSave /\ "answers_json" \notin DOMAIN RowAtSave
      /\ "status" \in DOMAIN RowAtSave => RowAtSave.status = "in_progress"
    BY DEF RowAtSave, NoChange
<1>3. SaveSound(w)
    BY <1>1, <1>2 DEF SaveSound, SaveActivityProgress, SaveAccepted
<1>4. "status" \in DOMAIN saved /\ saved.status # "absent"
    BY DEF SavedRecord
<1> HIDE DEF saved
<1>5. "status" \in DOMAIN v => v["status"] # "absent"
    BY <1>4 DEF Changes, Flush
<1> HIDE DEF v
<1>6. RecordsKept(w)
    BY <1>1, <1>5 DEF RecordsKept
<1> QED BY <1>1, <1>3, <1>6 DEF BeginsSound, WriteSound, ScoreSound, Saving, Scoring

LEMMA SubmitMultiBegins ==
    ASSUME TypeOK, Recorded, NEW r \in Requests, NEW force, SubmitMulti(r, force)
    PROVE  BeginsSound(r)
<1>1. PICK w : /\ w.row = Changes(row, SubmittedRow)
               /\ DOMAIN w.records = {}
               /\ w.endpoint = "submit_multi"
               /\ Begin(r, "submit_multi", w)
    BY DEF SubmitMulti, Idle
<1>2. CombinedScore(records) \in Percent
    BY CombinedScoreType DEF Recorded, Filed
<1>3. DOMAIN row = RowColumn /\ {"status", "score", "answers_json"} \subseteq RowColumn
    BY DEF TypeOK, RowColumn
<1>4. /\ RowAfter(w).status = "completed"
      /\ RowAfter(w).score = CombinedScore(records)
      /\ RowAfter(w).answers_json = [a \in Activities |-> records[a].response_data]
    BY <1>1, <1>2, <1>3, FlushChanges DEF RowAfter, SubmittedRow, Percent, NoScore
<1>5. row.status = "in_progress"
    BY DEF SubmitMulti, SubmitAccepted
<1>6. SubmitSound(w) /\ RecordsKept(w)
    BY <1>1, <1>2, <1>4, <1>5 DEF SubmitSound, RecordsKept, AnswersOf
<1> QED BY <1>1, <1>4, <1>6 DEF BeginsSound, WriteSound, ScoreSound, Saving, Scoring

\* The teacher's grade changes the record and the combined score together.
LEMMA GradeActivityBegins ==
    ASSUME TypeOK, Recorded, NEW r \in Requests, NEW a \in Activities, NEW p \in Points,
           GradeActivity(r, a, p)
    PROVE  BeginsSound(r)
<1> DEFINE graded == Graded(a, p)
           u == Changes(row, [score |-> CombinedScore(graded)])
           v == Changes(records[a], [score |-> p])
<1>1. PICK w : /\ w.row = u
               /\ w.records = [b \in {a} |-> v]
               /\ w.endpoint = "grade"
               /\ Begin(r, "grade", w)
    BY DEF GradeActivity, Idle
<1>2. \A b \in Activities : /\ graded[b].status = records[b].status
                            /\ graded[b].score = IF b = a THEN p ELSE records[b].score
    BY DEF Graded, TypeOK, RecordColumn
<1>3. a \in Existing(records)
    BY DEF GradeActivity
<1>4. CombinedScore(graded) \in Percent
    BY <1>2, <1>3, CombinedScoreType DEF Existing
<1>5. RowAfter(w).score = CombinedScore(graded)
    <2>1. "score" \in DOMAIN row
        BY DEF TypeOK, RowColumn
    <2> QED BY <1>1, <2>1, FlushChanges DEF RowAfter
<1>6. ASSUME NEW b \in Activities
      PROVE  /\ RecordsAfter(w)[b].status = records[b].status
             /\ RecordsAfter(w)[b].score = IF b = a THEN p ELSE records[b].score
    <2>1. DOMAIN records[b] = RecordColumn
        BY DEF TypeOK
    <2>2. CASE b = a
        BY <1>1, <2>1, <2>2, FlushChanges DEF RecordsAfter, RecordColumn
    <2>3. CASE b # a
        BY <1>1, <2>3 DEF RecordsAfter
    <2> QED BY <2>2, <2>3
<1>7. CombinedScore(RecordsAfter(w)) = CombinedScore(graded)
    BY <1>2, <1>6, CombinedScoreOf
<1>8. /\ DOMAIN u \subseteq {"score"}
      /\ "score" \in DOMAIN u => u["score"] \in Percent
      /\ DOMAIN v \subseteq {"score"}
    <2> HIDE DEF graded
    <2> QED BY <1>4 DEF Changes, Timestamps
<1> HIDE DEF u, v
<1>9. GradeSound(w) /\ RecordsKept(w)
    BY <1>1, <1>8 DEF GradeSound, RecordsKept
<1> QED BY <1>1, <1>5, <1>7, <1>9 DEF BeginsSound, WriteSound, ScoreSound, Saving, Scoring

\* Every action of Next begins with a sound write set, commits, or leaves the
\* rows and the write sets in flight.
LEMMA NextIs ==
    ASSUME TypeOK, Recorded, [Next]_vars
    PROVE  \/ \E r \in Requests : BeginsSound(r)
           \/ \E r \in Requests : Commit(r)
           \/ /\ UNCHANGED <<row, records>>
              /\ \A q \in Requests : Writing(q)' => request'[q] = request[q]
<1>1. ASSUME NEW r \in Requests,
             \/ StartMulti(r)
             \/ \E a \in Activities, d \in Answers, finished \in BOOLEAN :
                   SaveActivityProgress(r, a, d, finished)
             \/ \E force \in BOOLEAN : SubmitMulti(r, force)
             \/ \E a \in Activities, p \in Points : GradeActivity(r, a, p)
      PROVE  BeginsSound(r)
    BY <1>1, StartMultiBegins, SaveActivityProgressBegins, SubmitMultiBegins,
       GradeActivityBegins
<1>2. ASSUME NEW r \in Requests,
             \/ \E S \in SUBSET Activities, s \in PublishStatus \cup {"unchanged"} :
                   UpdateAssignment(r, S, s)
             \/ PublishScheduled(r)
             \/ ListAssignments(r)
      PROVE  BeginsSound(r)
    <2>1. PICK e, w : /\ DOMAIN w.row = {} /\ DOMAIN w.records = {}
                      /\ w.endpoint \in {"update", "publish_scheduled", "list"}
                      /\ Begin(r, e, w)
        BY <1>2 DEF UpdateAssignment, PublishScheduled, ListAssignments, Idle, NoChange
    <2>2. WriteSound(w) /\ ScoreSound(w)
        BY <2>1 DEF WriteSound, ScoreSound, RecordsKept, OtherSound, Saving, Scoring
    <2> QED BY <2>1, <2>2 DEF BeginsSound
<1>3. ASSUME NEW r \in Requests, Rollback(r) \/ Invalidate(r) \/ FillListing(r)
      PROVE  /\ UNCHANGED <<row, records>>
             /\ \A q \in Requests : Writing(q)' => request'[q] = request[q]
    BY <1>3 DEF Rollback, Invalidate, FillListing, Writing, TypeOK, Idle
<1>4. CASE ExpireListing \/ UNCHANGED vars
    BY <1>4 DEF ExpireListing, vars
<1> QED BY <1>1, <1>2, <1>3, <1>4 DEF Next

LEMMA NextRecorded ==
    ASSUME TypeOK, Recorded, NoSaveBesideSubmit, [Next]_vars
    PROVE  Recorded' /\ LifecycleStep(row, row')
<1>1. UNCHANGED row => LifecycleStep(row, row')
    BY DEF LifecycleStep
<1> QED BY <1>1, NextIs, BeginKeeps, CommitRecorded, RestKeeps

LEMMA NextCombined ==
    ASSUME TypeOK, Recorded, Combined, NoSaveBesideSubmit, NoGradeBesideScoring, [Next]_vars
    PROVE  Combined'
BY NextIs, BeginKeeps, CommitCombined, RestKeeps

LEMMA InitRecorded == Init => Recorded /\ Combined
<1> SUFFICES ASSUME Init PROVE Recorded /\ Combined
    OBVIOUS
<1>1. PICK a \in Activities : a \in linked
    BY DEF Init
<1>2. Existing(records) # {}
    BY <1>1 DEF Init, Existing, NewRecord, AbsentRecord
<1>3. row.status # "completed" /\ \A r \in Requests : ~Writing(r)
    BY DEF Init, Writing, Idle
<1> QED BY <1>2, <1>3 DEF Recorded, Filed, Combined, ScoreIsCombined

LEMMA RecordedHolds == Spec /\ []NoSaveBesideSubmit => [](TypeOK /\ Recorded)
<1>1. TypeOK /\ Recorded /\ NoSaveBesideSubmit /\ [Next]_vars => TypeOK' /\ Recorded'
    BY NextType, NextRecorded
<1> QED BY <1>1, InitType, InitRecorded, PTL DEF Spec

\* As long as no save and no start races a submit, the result page shows the
\* answers the student's records hold, however many submits and grades overlap.
THEOREM AnswersStayRecorded == Spec /\ []NoSaveBesideSubmit => []AnswersAreRecorded
<1>1. Recorded => AnswersAreRecorded
    BY DEF Recorded, Filed, AnswersOf, AnswersAreRecorded
<1> QED BY <1>1, RecordedHolds, PTL

\* If grades do not race each other or a submit either, the score of a completed
\* submission is the combined score of its records, after any number of saves,
\* edits and grades.
THEOREM ScoreStaysCombined ==
    Spec /\ []NoSaveBesideSubmit /\ []NoGradeBesideScoring => []ScoreIsCombined
<1>1. TypeOK /\ Recorded /\ Combined /\ NoSaveBesideSubmit /\ NoGradeBesideScoring
        /\ [Next]_vars => Combined'
    BY NextCombined
<1>2. Combined => ScoreIsCombined
    BY DEF Combined
<1> QED BY <1>1, <1>2, InitRecorded, RecordedHolds, PTL DEF Spec

-------------------------------------------------------------------------------
(***************************************************************************)
(* The refinement.                                                         *)
(***************************************************************************)
LEMMA LifecycleInit == Init => Lifecycle!Init
<1> SUFFICES ASSUME Init PROVE Lifecycle!Init
    OBVIOUS
<1>1. [a \in Activities |-> NoAnswers] \in [Activities -> Payload]
    BY DEF Payload
<1> QED BY <1>1 DEF Init, Lifecycle!Init, NoScore

LEMMA LifecycleNext ==
    ASSUME LifecycleStep(row, row')
    PROVE  [Lifecycle!Next]_<<row.status, row.score, row.answers_json>>
<1>1. Percent = Lifecycle!Score \ {-1}
    BY DEF Percent, Lifecycle!Score
<1> QED BY <1>1 DEF LifecycleStep, Lifecycle!Next, Lifecycle!Start, Lifecycle!Submit,
            Lifecycle!Grade

\* As long as no save and no start races a submit, a submission is started once,
\* submitted once with a sheet that is final from then on, and scored by the
\* submission or by the teacher: the server's requests, records and caches
\* implement SubmissionLifecycle.
THEOREM ImplementsLifecycle == Spec /\ []NoSaveBesideSubmit => RefinesLifecycle
<1>1. TypeOK /\ Recorded /\ NoSaveBesideSubmit /\ [Next]_vars
        => [Lifecycle!Next]_<<row.status, row.score, row.answers_json>>
    BY NextRecorded, LifecycleNext
<1> QED BY <1>1, LifecycleInit, RecordedHolds, PTL DEF Spec, RefinesLifecycle, Lifecycle!Spec

-------------------------------------------------------------------------------
(***************************************************************************)
(* The cached list.  Writes may overlap here.  ListsAlone: no list is read *)
(* and cached around a write in flight.  The list may be out of date while *)
(* an invalidation is due, and every write that shows in it makes one due. *)
(***************************************************************************)
ListsAlone == \A q, r \in Requests : ~(Writing(q) /\ request[r].pc = "fill")

\* A write set that no one would see in the list.
Unlisted(w) ==
    /\ "status" \notin DOMAIN w.row
    /\ "score" \notin DOMAIN w.row
    /\ w.publish = "unchanged"

InvalidationDue == \E r \in Requests : request[r].pc = "invalidate"

ListingSound ==
    /\ \A r \in Requests :
          /\ request[r].pc = "fill" => request[r].entry = ListView(row, publish)
          /\ Writing(r) => request[r].invalidate \/ Unlisted(request[r])
    /\ listing \in {NotCached, ListView(row, publish)} \/ InvalidationDue

LEMMA BeginListing ==
    ASSUME TypeOK, ListingSound, NEW r \in Requests, NEW e, NEW w, Begin(r, e, w),
           w.pc = "fill" => w.entry = ListView(row, publish),
           w.pc = "commit" => w.invalidate \/ Unlisted(w)
    PROVE  ListingSound'
<1>1. UNCHANGED <<row, publish, listing>> /\ request[r].pc # "invalidate"
    BY DEF Begin, Idle
<1>2. \A q \in Requests : request'[q] = IF q = r THEN w ELSE request[q]
    BY DEF Begin, TypeOK
<1>3. InvalidationDue => InvalidationDue'
    BY <1>1, <1>2 DEF InvalidationDue
<1>4. ASSUME NEW q \in Requests
      PROVE  /\ request'[q].pc = "fill" => request'[q].entry = ListView(row, publish)
             /\ request'[q].pc = "commit" => request'[q].invalidate \/ Unlisted(request'[q])
    BY <1>2 DEF ListingSound, Writing
<1> QED BY <1>1, <1>3, <1>4 DEF ListingSound, Writing, Unlisted

LEMMA CommitListing ==
    ASSUME TypeOK, ListingSound, ListsAlone, NEW r \in Requests, Commit(r)
    PROVE  ListingSound'
<1>1. Writing(r) /\ UNCHANGED listing
    BY DEF Commit, Writing
<1>2. /\ request'[r].pc = IF request[r].invalidate THEN "invalidate" ELSE "idle"
      /\ \A q \in Requests \ {r} : request'[q] = request[q]
    BY DEF Commit, TypeOK, Idle
<1>3. ASSUME NEW q \in Requests
      PROVE  /\ request'[q].pc # "fill"
             /\ request'[q].pc = "commit" => request'[q].invalidate \/ Unlisted(request'[q])
    BY <1>1, <1>2 DEF ListsAlone, ListingSound, Writing
<1>4. CASE request[r].invalidate
    BY <1>2, <1>3, <1>4 DEF ListingSound, InvalidationDue, Writing, Unlisted
<1>5. CASE ~request[r].invalidate
    <2>1. Unlisted(request[r])
        BY <1>1, <1>5 DEF ListingSound
    <2>2. DOMAIN row = RowColumn /\ {"status", "score"} \subseteq RowColumn
        BY DEF TypeOK, RowColumn
    <2>3. row'.status = row.status /\ row'.score = row.score /\ publish' = publish
        BY <2>1, <2>2 DEF Commit, Unlisted, Flush
    <2>4. ListView(row', publish') = ListView(row, publish)
        BY <2>3 DEF ListView
    <2>5. InvalidationDue => InvalidationDue'
        BY <1>1, <1>2 DEF InvalidationDue, Writing
    <2> QED BY <1>1, <1>3, <2>4, <2>5 DEF ListingSound, Writing, Unlisted
<1> QED BY <1>4, <1>5

\* A request ends and leaves a list that is fresh, or the one there was.
LEMMA EndListing ==
    ASSUME TypeOK, ListingSound, NEW r \in Requests,
           request' = [request EXCEPT ![r] = Idle], UNCHANGED <<row, publish>>,
           \/ listing' \in {NotCached, ListView(row, publish)}
           \/ UNCHANGED listing /\ request[r].pc # "invalidate"
    PROVE  ListingSound'
<1>1. \A q \in Requests : request'[q] = IF q = r THEN Idle ELSE request[q]
    BY DEF TypeOK
<1>2. Idle.pc = "idle"
    BY DEF Idle
<1>3. ASSUME NEW q \in Requests
      PROVE  /\ request'[q].pc = "fill" => request'[q].entry = ListView(row, publish)
             /\ request'[q].pc = "commit" => request'[q].invalidate \/ Unlisted(request'[q])
    BY <1>1, <1>2 DEF ListingSound, Writing
<1>4. \/ listing' \in {NotCached, ListView(row, publish)}
      \/ UNCHANGED listing /\ (InvalidationDue => InvalidationDue')
    BY <1>1 DEF InvalidationDue
<1> QED BY <1>3, <1>4 DEF ListingSound, Writing, Unlisted

LEMMA NextListing ==
    ASSUME "publish_scheduled" \notin Endpoints,
           TypeOK, ListingSound, ListsAlone, [Next]_vars
    PROVE  ListingSound'
<1>1. ASSUME NEW r \in Requests, StartMulti(r) PROVE ListingSound'
    <2> DEFINE starting == row.status = "not_started"
               opening == CASE starting -> [status |-> "in_progress", started_at |-> TRUE]
                            [] ~starting /\ ~row.started_at -> [started_at |-> TRUE]
                            [] OTHER -> NoChange
    <2>1. PICK w : /\ w.pc = "commit" /\ w.row = opening /\ w.publish = "unchanged"
                   /\ w.invalidate = starting
                   /\ Begin(r, "start_multi", w)
        BY <1>1 DEF StartMulti, Idle
    <2>2. ~starting => "status" \notin DOMAIN opening /\ "score" \notin DOMAIN opening
        BY DEF NoChange
    <2> QED BY <2>1, <2>2, BeginListing DEF Unlisted
<1>2. ASSUME NEW r \in Requests, NEW a \in Activities, NEW d \in Answers,
             NEW finished \in BOOLEAN, SaveActivityProgress(r, a, d, finished)
      PROVE  ListingSound'
    <2>1. PICK w : /\ w.pc = "commit" /\ w.row = RowAtSave /\ w.publish = "unchanged"
                   /\ w.invalidate = (row.status = "not_started")
                   /\ Begin(r, "save_activity", w)
        BY <1>2 DEF SaveActivityProgress, Idle
    <2>2. row.status # "not_started" => DOMAIN RowAtSave = {}
        BY DEF RowAtSave, NoChange
    <2> QED BY <2>1, <2>2, BeginListing DEF Unlisted
<1>3. ASSUME NEW r \in Requests,
             \/ \E force \in BOOLEAN : SubmitMulti(r, force)
             \/ \E a \in Activities, p \in Points : GradeActivity(r, a, p)
             \/ \E S \in SUBSET Activities, s \in PublishStatus \cup {"unchanged"} :
                   UpdateAssignment(r, S, s)
      PROVE  ListingSound'
    <2>1. PICK e, w : w.pc = "commit" /\ w.invalidate = TRUE /\ Begin(r, e, w)
        BY <1>3 DEF SubmitMulti, GradeActivity, UpdateAssignment, Idle
    <2> QED BY <2>1, BeginListing
<1>4. ASSUME NEW r \in Requests PROVE ~PublishScheduled(r)
    BY DEF PublishScheduled, Begin
<1>5. ASSUME NEW r \in Requests, ListAssignments(r) PROVE ListingSound'
    <2>1. PICK w : /\ w.pc = "fill" /\ w.entry = ListView(row, publish)
                   /\ Begin(r, "list", w)
        BY <1>5 DEF ListAssignments, Idle
    <2> QED BY <2>1, BeginListing
<1>6. ASSUME NEW r \in Requests, Commit(r) PROVE ListingSound'
    BY <1>6, CommitListing
<1>7. ASSUME NEW r \in Requests, Rollback(r) \/ Invalidate(r) PROVE ListingSound'
    BY <1>7, EndListing DEF Rollback, Invalidate
<1>8. ASSUME NEW r \in Requests, FillListing(r) PROVE ListingSound'
    BY <1>8, EndListing DEF FillListing, ListingSound
<1>9. CASE ExpireListing \/ UNCHANGED vars
    BY <1>9 DEF ExpireListing, vars, ListingSound, Writing, Unlisted, InvalidationDue
<1> QED BY <1>1, <1>2, <1>3, <1>4, <1>5, <1>6, <1>7, <1>8, <1>9 DEF Next

\* As long as no list is read around a write and the scheduler does not publish,
\* a cached list is fresh when no request is in flight, however writes overlap.
THEOREM ListingStaysFresh ==
    "publish_scheduled" \notin Endpoints /\ Spec /\ []ListsAlone => []ListingIsFresh
<1>1. Init => ListingSound
    BY DEF Init, ListingSound, Writing, Idle
<1>2. ListingSound => ListingIsFresh
    BY DEF ListingSound, ListingIsFresh, InvalidationDue, Idle
<1>3. CASE "publish_scheduled" \notin Endpoints
    <2>1. TypeOK /\ ListingSound /\ ListsAlone /\ [Next]_vars => TypeOK' /\ ListingSound'
        BY <1>3, NextType, NextListing
    <2> QED BY <1>1, <1>2, <2>1, InitType, PTL DEF Spec
<1>4. CASE "publish_scheduled" \in Endpoints
    BY <1>4
<1> QED BY <1>3, <1>4

-------------------------------------------------------------------------------
(***************************************************************************)
(* What a combined score tells.                                            *)
(***************************************************************************)

\* More points make no lower percentage.
LEMMA PercentMonotone ==
    ASSUME NEW x \in Nat, NEW z \in Nat, x <= z, NEW y \in Nat \ {0}
    PROVE  (100 * x) \div y <= (100 * z) \div y
<1>1. 100 * x \in Nat /\ 100 * z \in Nat /\ 100 * x <= 100 * z
    OBVIOUS
<1>2. (100 * x) \div y \in Int /\ y * ((100 * x) \div y) <= 100 * x
    BY <1>1
<1>3. (100 * z) \div y \in Int /\ 100 * z < y * ((100 * z) \div y) + y
    BY <1>1
<1> DEFINE p == (100 * x) \div y
           q == (100 * z) \div y
<1> HIDE DEF p, q
<1>4. p \in Int /\ q \in Int /\ y * p < y * q + y
    BY <1>1, <1>2, <1>3 DEF p, q
<1>5. p <= q
    <2> SUFFICES ASSUME p >= q + 1 PROVE FALSE
        BY <1>4
    <2>1. y * p >= y * (q + 1)
        BY <1>4
    <2> QED BY <1>4, <2>1
<1> QED BY <1>5 DEF p, q

\* The points earned are some of those the records make possible.
LEMMA EarnedPoints ==
    ASSUME NEW recs, Existing(recs) # {}
    PROVE  /\ Cardinality(Existing(recs)) * MaxPoints \in Nat \ {0}
           /\ IsFiniteSet(Existing(recs) \X (1..MaxPoints))
           /\ Cardinality(Existing(recs) \X (1..MaxPoints)) = Cardinality(Existing(recs)) * MaxPoints
           /\ Earned(recs) \in SUBSET (Existing(recs) \X (1..MaxPoints))
           /\ IsFiniteSet(Earned(recs)) /\ Cardinality(Earned(recs)) \in Nat
<1> DEFINE n == Cardinality(Existing(recs))
<1>1. IsFiniteSet(Existing(recs)) /\ n \in Nat
    BY BookAssumption, FS_Subset, FS_CardinalityType DEF Existing
<1>2. n # 0
    BY <1>1, FS_EmptySet
<1>3. MaxPoints \in Nat \ {0}
    BY BookAssumption
<1>4. IsFiniteSet(1..MaxPoints) /\ Cardinality(1..MaxPoints) = MaxPoints
    BY <1>3, FS_Interval
<1>5. IsFiniteSet(Existing(recs) \X (1..MaxPoints))
      /\ Cardinality(Existing(recs) \X (1..MaxPoints)) = n * MaxPoints
    BY <1>1, <1>4, FS_Product
<1>6. Earned(recs) \in SUBSET (Existing(recs) \X (1..MaxPoints))
    BY DEF Earned
<1>7. n * MaxPoints \in Nat \ {0}
    <2> HIDE DEF n
    <2> QED BY <1>1, <1>2, <1>3
<1> QED BY <1>5, <1>6, <1>7, FS_Subset, FS_CardinalityType

\* A grade above the score a record had never lowers the combined score, and
\* one below it never raises it: calculate_combined_score is monotone.
THEOREM GradingIsMonotone ==
    ASSUME TypeOK, NEW a \in Existing(records), NEW p \in Points
    PROVE  /\ records[a].score <= p => CombinedScore(records) <= CombinedScore(Graded(a, p))
           /\ p <= records[a].score => CombinedScore(Graded(a, p)) <= CombinedScore(records)
<1>1. ASSUME NEW recs, NEW other, Existing(recs) # {}, Existing(recs) = Existing(other),
             \A b \in Existing(recs) : /\ recs[b].score \in Int /\ other[b].score \in Int
                                       /\ recs[b].score <= other[b].score
      PROVE  CombinedScore(recs) <= CombinedScore(other)
    <2>1. Earned(recs) \subseteq Earned(other)
        BY <1>1 DEF Earned
    <2>2. Cardinality(Earned(recs)) <= Cardinality(Earned(other))
        BY <1>1, <2>1, EarnedPoints, FS_Subset
    <2>3. /\ Cardinality(Earned(recs)) \in Nat /\ Cardinality(Earned(other)) \in Nat
          /\ Cardinality(Existing(recs)) * MaxPoints \in Nat \ {0}
        BY <1>1, EarnedPoints
    <2> QED BY <1>1, <2>2, <2>3, PercentMonotone DEF CombinedScore
<1>2. \A b \in Activities : /\ Graded(a, p)[b].status = records[b].status
                            /\ Graded(a, p)[b].score = IF b = a THEN p ELSE records[b].score
    BY DEF Graded, TypeOK, RecordColumn, Existing
<1>3. Existing(Graded(a, p)) = Existing(records)
    BY <1>2 DEF Existing
<1>4. p \in Int /\ \A b \in Activities : records[b].score \in Int
    BY BookAssumption DEF TypeOK, RecordWrite, RecordColumn, RecordValue, Points, NoScore
<1> QED BY <1>1, <1>2, <1>3, <1>4 DEF Existing

\* A combined score of 100 percent takes full marks in every record there is:
\* no rounding and no record left out makes up for a missing point.
THEOREM FullMarksOnly ==
    ASSUME TypeOK, Existing(records) # {}
    PROVE  CombinedScore(records) = 100 <=>
               \A a \in Existing(records) : records[a].score = MaxPoints
<1> DEFINE possible == Existing(records) \X (1..MaxPoints)
           e == Cardinality(Earned(records))
           m == Cardinality(Existing(records)) * MaxPoints
<1>1. /\ m \in Nat \ {0} /\ e \in Nat /\ IsFiniteSet(possible) /\ Cardinality(possible) = m
      /\ Earned(records) \in SUBSET possible /\ IsFiniteSet(Earned(records))
    BY EarnedPoints
<1>2. e <= m /\ (e = m <=> Earned(records) = possible)
    BY <1>1, FS_Subset
<1>3. MaxPoints \in Nat \ {0}
    BY BookAssumption
<1>4. \A a \in Activities : records[a].score \in 0..MaxPoints \cup {NoScore}
    BY DEF TypeOK, RecordWrite, RecordColumn, RecordValue, Points
<1>5. Earned(records) = possible <=> \A a \in Existing(records) : records[a].score = MaxPoints
    <2>1. ASSUME Earned(records) = possible, NEW a \in Existing(records)
          PROVE  records[a].score = MaxPoints
        <3>1. <<a, MaxPoints>> \in Earned(records)
            BY <1>3, <2>1
        <3>2. MaxPoints <= records[a].score
            BY <3>1 DEF Earned
        <3> QED BY <1>3, <1>4, <3>2 DEF Existing, NoScore
    <2>2. ASSUME \A a \in Existing(records) : records[a].score = MaxPoints
          PROVE  Earned(records) = possible
        BY <1>3, <2>2 DEF Earned
    <2> QED BY <2>1, <2>2
<1>6. CombinedScore(records) = (100 * e) \div m
    BY DEF CombinedScore
<1> HIDE DEF e, m, possible
<1>7. (100 * e) \div m = 100 <=> e = m
    <2>1. CASE e = m
        BY <1>1, <2>1
    <2>2. CASE e # m
        <3>1. 100 * e < m * 100
            BY <1>1, <1>2, <2>2
        <3>2. (100 * e) \div m \in Int /\ m * ((100 * e) \div m) <= 100 * e
            BY <1>1
        <3> QED BY <1>1, <2>2, <3>1, <3>2
    <2> QED BY <2>1, <2>2
<1> QED BY <1>2, <1>5, <1>6, <1>7

===============================================================================
