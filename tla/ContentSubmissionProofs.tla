------------------------ MODULE ContentSubmissionProofs ------------------------
(***************************************************************************)
(* What ContentSubmission guarantees for any answers, any marks and any    *)
(* number of requests in flight: types, start times, results and skill     *)
(* records unconditionally, the attributed score and the cached list where *)
(* two named races, AttributionsAlone and ListsAlone, are kept out.        *)
(***************************************************************************)
EXTENDS ContentSubmission, TLAPS

-------------------------------------------------------------------------------
(***************************************************************************)
(* Types.                                                                  *)
(***************************************************************************)
LEMMA RowValues ==
    /\ RowValue("status") = Status
    /\ RowValue("score") = Percent \cup {NoScore}
    /\ RowValue("answers_json") = Payload
    /\ RowValue("progress_json") = Payload
    /\ RowValue("started_at") = BOOLEAN
    /\ RowValue("completed_at") = BOOLEAN
<1>1. RowValue("status") = Status /\ RowValue("score") = Percent \cup {NoScore}
    BY DEF RowValue
<1>2. RowValue("answers_json") = Payload /\ RowValue("progress_json") = Payload
    BY DEF RowValue
<1>3. RowValue("started_at") = BOOLEAN /\ RowValue("completed_at") = BOOLEAN
    BY DEF RowValue
<1> QED BY <1>1, <1>2, <1>3

\* The row holds a value of its type in each column.
LEMMA RowTypes ==
    ASSUME TypeOK
    PROVE  /\ row.status \in Status
           /\ row.score \in Percent \cup {NoScore}
           /\ row.answers_json \in Payload
           /\ row.progress_json \in Payload
           /\ row.started_at \in BOOLEAN
           /\ row.completed_at \in BOOLEAN
BY RowValues DEF TypeOK, Typed, RowColumn

LEMMA NoChangeType == Typed(NoChange)
BY DEF NoChange, Typed

LEMMA IdleType == RequestOK(Idle)
BY NoChangeType DEF RequestOK, Idle, ListEntry, NotCached, NoScore, Status, Payload

LEMMA NotCachedType == NotCached \in ListEntry
BY DEF NotCached, ListEntry

\* Writing typed columns over a typed row leaves it typed.
LEMMA FlushType ==
    ASSUME NEW stored, NEW w, DOMAIN stored = RowColumn, Typed(stored), Typed(w)
    PROVE  DOMAIN Flush(stored, w) = RowColumn /\ Typed(Flush(stored, w))
BY DEF Flush, Typed

\* The columns an assignment changes are among those it assigns.
LEMMA ChangesType ==
    ASSUME NEW loaded, NEW w, Typed(w)
    PROVE  Typed(Changes(loaded, w))
BY DEF Changes, Typed

\* So are any of them.
LEMMA PartType ==
    ASSUME NEW w, Typed(w), NEW S \in SUBSET DOMAIN w
    PROVE  Typed([c \in S |-> w[c]])
BY DEF Typed

LEMMA OpeningType == Typed(Opening)
<1>1. Typed([status |-> "in_progress", started_at |-> TRUE])
    <2> DEFINE w == [status |-> "in_progress", started_at |-> TRUE]
    <2>1. w["status"] \in RowValue("status") /\ w["started_at"] \in RowValue("started_at")
        BY RowValues DEF Status
    <2>2. DOMAIN w = {"status", "started_at"}
        OBVIOUS
    <2> HIDE DEF w
    <2>3. Typed(w)
        BY <2>1, <2>2 DEF Typed, RowColumn
    <2> QED BY <2>3 DEF w
<1>2. Typed([started_at |-> TRUE])
    <2> DEFINE w == [started_at |-> TRUE]
    <2>1. w["started_at"] \in RowValue("started_at")
        BY RowValues
    <2>2. DOMAIN w = {"started_at"}
        OBVIOUS
    <2> HIDE DEF w
    <2>3. Typed(w)
        BY <2>1, <2>2 DEF Typed, RowColumn
    <2> QED BY <2>3 DEF w
<1> QED BY <1>1, <1>2, NoChangeType DEF Opening

LEMMA SavedRowType ==
    ASSUME TypeOK, NEW d \in Answers, NEW finished \in BOOLEAN
    PROVE  Typed(SavedRow(d, finished))
<1> DEFINE w == SavedRow(d, finished)
<1>1. Mark[d] \in Percent \cup {NoScore} /\ d \in Payload
    BY ContentAssumption DEF Payload
<1>2. DOMAIN w = {"status", "completed_at", "progress_json", "started_at", "score", "answers_json"}
    BY DEF SavedRow
<1>3. w["status"] \in RowValue("status")
    BY RowValues DEF SavedRow, Status
<1>4. w["completed_at"] \in RowValue("completed_at") /\ w["started_at"] \in RowValue("started_at")
    BY RowValues DEF SavedRow
<1>5. w["score"] \in RowValue("score")
    BY <1>1, RowValues, RowTypes DEF SavedRow
<1>6. /\ w["progress_json"] \in RowValue("progress_json")
      /\ w["answers_json"] \in RowValue("answers_json")
    BY <1>1, RowValues, RowTypes DEF SavedRow
<1> HIDE DEF w
<1>7. Typed(w)
    BY <1>2, <1>3, <1>4, <1>5, <1>6 DEF Typed, RowColumn
<1> QED BY <1>7 DEF w

\* What submit and submit-multi assign.
LEMMA SubmittedType ==
    ASSUME NEW score \in Percent, NEW d \in Payload
    PROVE  /\ Typed([status |-> "completed", score |-> score, completed_at |-> TRUE,
                     answers_json |-> d, progress_json |-> NoAnswers])
           /\ Typed([status |-> "completed", score |-> score, completed_at |-> TRUE,
                     answers_json |-> d])
<1>1. ASSUME NEW w, DOMAIN w \subseteq {"status", "score", "completed_at", "answers_json", "progress_json"},
             w["status"] = "completed", w["score"] = score, w["completed_at"] = TRUE,
             w["answers_json"] = d,
             "progress_json" \in DOMAIN w => w["progress_json"] = NoAnswers
      PROVE  Typed(w)
    <2>1. /\ w["status"] \in RowValue("status")
          /\ w["score"] \in RowValue("score")
          /\ w["completed_at"] \in RowValue("completed_at")
          /\ w["answers_json"] \in RowValue("answers_json")
        BY <1>1, RowValues DEF Status
    <2>2. "progress_json" \in DOMAIN w => w["progress_json"] \in RowValue("progress_json")
        BY <1>1, RowValues DEF Payload
    <2> QED BY <1>1, <2>1, <2>2 DEF Typed, RowColumn
<1>2. Typed([status |-> "completed", score |-> score, completed_at |-> TRUE,
             answers_json |-> d, progress_json |-> NoAnswers])
    BY <1>1
<1>3. Typed([status |-> "completed", score |-> score, completed_at |-> TRUE,
             answers_json |-> d])
    BY <1>1
<1> QED BY <1>2, <1>3

\* One column.
LEMMA OneColumnType ==
    ASSUME NEW d \in Payload, NEW p \in Percent
    PROVE  /\ Typed([progress_json |-> d])
           /\ Typed([answers_json |-> d])
           /\ Typed([score |-> p])
<1>1. Typed([progress_json |-> d])
    BY RowValues DEF Typed, RowColumn
<1>2. Typed([answers_json |-> d])
    BY RowValues DEF Typed, RowColumn
<1>3. Typed([score |-> p])
    BY RowValues DEF Typed, RowColumn
<1> QED BY <1>1, <1>2, <1>3

LEMMA OrZeroType ==
    ASSUME NEW s \in Percent \cup {NoScore}
    PROVE  OrZero(s) \in Percent /\ OrZero(s) # NoScore
BY DEF OrZero, Percent, NoScore

\* A request that begins typed keeps the types.
LEMMA BeginType ==
    ASSUME TypeOK, NEW r, NEW e, NEW w, RequestOK(w), Begin(r, e, w)
    PROVE  TypeOK'
BY DEF TypeOK, Begin, RequestOK, Typed

\* So does one that goes on typed.
LEMMA ContinueType ==
    ASSUME TypeOK, NEW r \in Requests, NEW w, RequestOK(w), Continue(r, w),
           DOMAIN row' = RowColumn, Typed(row)', skill' \in Percent \cup {NoScore},
           listing' \in ListEntry
    PROVE  TypeOK'
BY DEF TypeOK, Continue, RequestOK, Typed

LEMMA RestType ==
    ASSUME NEW w, RequestOK(w)
    PROVE  RequestOK(Rest(w))
<1>1. RequestOK([w EXCEPT !.pc = "invalidate"])
    BY DEF RequestOK
<1> QED BY <1>1, IdleType DEF Rest

\* The actions that begin a request.
LEMMA StartType ==
    ASSUME TypeOK, NEW r \in Requests, Start(r)
    PROVE  TypeOK'
<1> DEFINE w == [Idle EXCEPT !.pc = "commit", !.endpoint = "start", !.row = Opening]
<1>1. RequestOK(w)
    BY OpeningType, IdleType DEF RequestOK, Idle
<1>2. Begin(r, "start", w)
    BY DEF Start
<1> QED BY <1>1, <1>2, BeginType

LEMMA StartMultiType ==
    ASSUME TypeOK, NEW r \in Requests, StartMulti(r)
    PROVE  TypeOK'
<1> DEFINE w == [Idle EXCEPT
                   !.pc = "commit", !.endpoint = "start_multi", !.row = Opening,
                   !.next = IF row.status = "not_started" THEN "invalidate" ELSE "idle"]
<1>1. RequestOK(w)
    BY OpeningType, IdleType DEF RequestOK, Idle
<1>2. Begin(r, "start_multi", w)
    BY DEF StartMulti
<1> QED BY <1>1, <1>2, BeginType

LEMMA SaveProgressType ==
    ASSUME TypeOK, NEW r \in Requests, NEW d \in Answers, SaveProgress(r, d)
    PROVE  TypeOK'
<1> DEFINE u == Changes(row, [progress_json |-> d])
           w == [Idle EXCEPT !.pc = "commit", !.endpoint = "save_progress", !.row = u]
<1>1. Typed(u)
    <2>1. d \in Payload /\ 0 \in Percent
        BY DEF Payload, Percent
    <2> QED BY <2>1, OneColumnType, ChangesType
<1>2. RequestOK(w)
    BY <1>1, IdleType DEF RequestOK, Idle
<1>3. Begin(r, "save_progress", w)
    BY DEF SaveProgress
<1> QED BY <1>2, <1>3, BeginType

LEMMA SaveActivityProgressType ==
    ASSUME TypeOK, NEW r \in Requests, NEW d \in Answers, NEW finished \in BOOLEAN,
           SaveActivityProgress(r, d, finished)
    PROVE  TypeOK'
<1> DEFINE saved == SavedRow(d, finished)
           u == Changes(row, [c \in DOMAIN saved \ Untouched(finished) |-> saved[c]])
           w == [Idle EXCEPT
                   !.pc = "commit", !.endpoint = "save_activity", !.row = u,
                   !.next = "refresh", !.attribute = finished, !.old = row.status]
<1>1. Typed(u)
    BY SavedRowType, PartType, ChangesType
<1>2. RequestOK(w)
    BY <1>1, IdleType, RowTypes DEF RequestOK, Idle
<1>3. Begin(r, "save_activity", w)
    BY DEF SaveActivityProgress
<1> QED BY <1>2, <1>3, BeginType

LEMMA SubmitType ==
    ASSUME TypeOK, NEW r \in Requests, NEW d \in Answers, Submit(r, d)
    PROVE  TypeOK'
<1> DEFINE u == Changes(row, [status |-> "completed", score |-> OrZero(Mark[d]),
                              completed_at |-> TRUE, answers_json |-> d,
                              progress_json |-> NoAnswers])
           w == [Idle EXCEPT
                   !.pc = "commit", !.endpoint = "submit", !.row = u,
                   !.next = "refresh", !.attribute = TRUE]
<1>1. OrZero(Mark[d]) \in Percent /\ d \in Payload
    BY OrZeroType, ContentAssumption DEF Payload
<1>2. Typed(u)
    BY <1>1, SubmittedType, ChangesType
<1>3. RequestOK(w)
    BY <1>2, IdleType DEF RequestOK, Idle
<1>4. Begin(r, "submit", w)
    BY DEF Submit
<1> QED BY <1>3, <1>4, BeginType

LEMMA SubmitMultiType ==
    ASSUME TypeOK, NEW r \in Requests, NEW d \in Sent, NEW force \in BOOLEAN,
           SubmitMulti(r, d, force)
    PROVE  TypeOK'
<1> DEFINE sent  == d # NoAnswers
           score == IF sent THEN Mark[d] ELSE OrZero(row.score)
           found == IF sent THEN d ELSE row.progress_json
           u == Changes(row, [status |-> "completed", score |-> score,
                              completed_at |-> TRUE, answers_json |-> found])
           w == [Idle EXCEPT
                   !.pc = "commit", !.endpoint = "submit_multi", !.row = u,
                   !.next = "refresh", !.attribute = TRUE]
<1>1. d \in Payload /\ found \in Payload /\ score \in Percent
    BY ContentAssumption, RowTypes DEF SubmitMulti
<1>2. Typed(u)
    <2> HIDE DEF score, found
    <2> QED BY <1>1, SubmittedType, ChangesType
<1>3. RequestOK(w)
    <2> HIDE DEF u
    <2> QED BY <1>1, <1>2, IdleType DEF RequestOK, Idle
<1>4. Begin(r, "submit_multi", w)
    BY DEF SubmitMulti
<1> QED BY <1>3, <1>4, BeginType

LEMMA ResubmitMultiType ==
    ASSUME TypeOK, NEW r \in Requests, NEW d \in Sent, ResubmitMulti(r, d)
    PROVE  TypeOK'
<1> DEFINE found == IF d # NoAnswers THEN d ELSE row.progress_json
           u == IF row.answers_json = NoAnswers
                THEN Changes(row, [answers_json |-> found]) ELSE NoChange
           w == [Idle EXCEPT
                   !.pc = "commit", !.endpoint = "submit_multi", !.row = u]
<1>1. d \in Payload /\ found \in Payload /\ 0 \in Percent
    BY ContentAssumption, RowTypes DEF Percent
<1>2. Typed(u)
    <2> HIDE DEF found
    <2> QED BY <1>1, OneColumnType, ChangesType, NoChangeType
<1>3. RequestOK(w)
    <2> HIDE DEF u
    <2> QED BY <1>1, <1>2, IdleType DEF RequestOK, Idle
<1>4. Begin(r, "submit_multi", w)
    BY DEF ResubmitMulti
<1> QED BY <1>3, <1>4, BeginType

LEMMA GradeType ==
    ASSUME TypeOK, NEW r \in Requests, NEW p \in Grades, Grade(r, p)
    PROVE  TypeOK'
<1> DEFINE u == Changes(row, [score |-> p])
           w == [Idle EXCEPT
                   !.pc = "commit", !.endpoint = "grade", !.row = u, !.next = "invalidate"]
<1>1. p \in Percent /\ NoAnswers \in Payload
    BY ContentAssumption DEF Payload
<1>2. Typed(u)
    BY <1>1, OneColumnType, ChangesType
<1>3. RequestOK(w)
    BY <1>2, IdleType DEF RequestOK, Idle
<1>4. Begin(r, "grade", w)
    BY DEF Grade
<1> QED BY <1>3, <1>4, BeginType

LEMMA ListAssignmentsType ==
    ASSUME TypeOK, NEW r \in Requests, ListAssignments(r)
    PROVE  TypeOK'
<1> DEFINE w == [Idle EXCEPT !.pc = "fill", !.endpoint = "list",
                             !.entry = ListView(row, "published")]
<1>1. ListView(row, "published") \in ListEntry
    BY RowTypes DEF ListView, ListEntry, NoScore
<1>2. RequestOK(w)
    BY <1>1, IdleType DEF RequestOK, Idle
<1>3. Begin(r, "list", w)
    BY DEF ListAssignments
<1> QED BY <1>2, <1>3, BeginType

\* The later steps of a request.
LEMMA CommitType ==
    ASSUME TypeOK, NEW r \in Requests, Commit(r)
    PROVE  TypeOK'
<1> DEFINE w == request[r]
           next == IF w.next = "idle" THEN Idle ELSE [w EXCEPT !.pc = w.next, !.row = NoChange]
<1>1. RequestOK(w)
    BY DEF TypeOK
<1>2. DOMAIN row' = RowColumn /\ Typed(row')
    BY <1>1, FlushType DEF TypeOK, Commit, RequestOK
<1>3. RequestOK(next)
    BY <1>1, IdleType, NoChangeType DEF RequestOK
<1>4. Continue(r, next)
    BY DEF Commit
<1>5. Typed(row)'
    BY <1>2 DEF Typed
<1>6. skill' \in Percent \cup {NoScore} /\ listing' \in ListEntry
    BY DEF Commit, TypeOK
<1> QED BY <1>2, <1>3, <1>4, <1>5, <1>6, ContinueType

LEMMA RefreshType ==
    ASSUME TypeOK, NEW r \in Requests, Refresh(r)
    PROVE  TypeOK'
<1> DEFINE changed == request[r].endpoint # "save_activity" \/ row.status # request[r].old
           w == [request[r] EXCEPT !.score = row.score, !.invalidate = changed]
           next == IF w.attribute /\ row.status = "completed"
                   THEN [w EXCEPT !.pc = "delete"] ELSE Rest(w)
<1>1. RequestOK(w)
    BY RowTypes DEF TypeOK, RequestOK
<1>2. RequestOK(next)
    <2>1. RequestOK([w EXCEPT !.pc = "delete"])
        BY <1>1 DEF RequestOK
    <2> HIDE DEF w
    <2> QED BY <1>1, <2>1, RestType
<1>3. Continue(r, next)
    BY DEF Refresh
<1>4. Typed(row)' /\ DOMAIN row' = RowColumn /\ skill' \in Percent \cup {NoScore} /\ listing' \in ListEntry
    BY DEF Refresh, TypeOK, Typed
<1> HIDE DEF next
<1> QED BY <1>2, <1>3, <1>4, ContinueType

LEMMA AttributeInsertType ==
    ASSUME TypeOK, NEW r \in Requests, AttributeInsert(r)
    PROVE  TypeOK'
<1>1. skill' \in Percent \cup {NoScore}
    BY OrZeroType DEF AttributeInsert, TypeOK, RequestOK
<1>2. RequestOK(Rest(request[r]))
    BY RestType DEF TypeOK
<1>3. \A q \in Requests : RequestOK([request[q] EXCEPT !.pc = "conflict"])
    BY DEF TypeOK, RequestOK
<1>4. DOMAIN request' = Requests /\ \A q \in Requests : RequestOK(request'[q])
    BY <1>2, <1>3 DEF AttributeInsert, TypeOK
<1>5. \A q \in Requests : RequestOK(request'[q]) <=> RequestOK(request[q])'
    BY DEF RequestOK, Typed
<1> QED BY <1>1, <1>4, <1>5 DEF AttributeInsert, TypeOK, Typed

LEMMA InitType == Init => TypeOK
<1> SUFFICES ASSUME Init PROVE TypeOK
    OBVIOUS
<1>1. DOMAIN row = RowColumn
    BY DEF Init, RowColumn
<1>2. row["status"] \in RowValue("status") /\ row["score"] \in RowValue("score")
    BY RowValues DEF Init, Status
<1>3. /\ row["answers_json"] \in RowValue("answers_json")
      /\ row["progress_json"] \in RowValue("progress_json")
    BY RowValues DEF Init, Payload
<1>4. row["started_at"] \in RowValue("started_at") /\ row["completed_at"] \in RowValue("completed_at")
    BY RowValues DEF Init
<1>5. Typed(row)
    BY <1>1, <1>2, <1>3, <1>4 DEF Typed, RowColumn
<1> QED BY <1>1, <1>5, IdleType, NotCachedType DEF Init, TypeOK

LEMMA NextType == TypeOK /\ [Next]_vars => TypeOK'
<1> SUFFICES ASSUME TypeOK, [Next]_vars PROVE TypeOK'
    OBVIOUS
<1>1. ASSUME NEW r \in Requests, Start(r) \/ StartMulti(r) PROVE TypeOK'
    BY <1>1, StartType, StartMultiType
<1>2. ASSUME NEW r \in Requests, NEW d \in Answers, SaveProgress(r, d) \/ Submit(r, d)
      PROVE  TypeOK'
    BY <1>2, SaveProgressType, SubmitType
<1>3. ASSUME NEW r \in Requests, NEW d \in Answers, NEW finished \in BOOLEAN,
             SaveActivityProgress(r, d, finished)
      PROVE  TypeOK'
    BY <1>3, SaveActivityProgressType
<1>4. ASSUME NEW r \in Requests, NEW d \in Sent, NEW force \in BOOLEAN, SubmitMulti(r, d, force)
      PROVE  TypeOK'
    BY <1>4, SubmitMultiType
<1>5. ASSUME NEW r \in Requests, NEW d \in Sent, ResubmitMulti(r, d) PROVE TypeOK'
    BY <1>5, ResubmitMultiType
<1>6. ASSUME NEW r \in Requests, NEW p \in Grades, Grade(r, p) PROVE TypeOK'
    BY <1>6, GradeType
<1>7. ASSUME NEW r \in Requests, ListAssignments(r) PROVE TypeOK'
    BY <1>7, ListAssignmentsType
<1>8. ASSUME NEW r \in Requests, Commit(r) PROVE TypeOK'
    BY <1>8, CommitType
<1>9. ASSUME NEW r \in Requests, Refresh(r) PROVE TypeOK'
    BY <1>9, RefreshType
<1>10. ASSUME NEW r \in Requests, AttributeDelete(r) PROVE TypeOK'
    <2>1. RequestOK([request[r] EXCEPT !.pc = "insert"])
        BY DEF TypeOK, RequestOK
    <2> QED BY <1>10, <2>1, ContinueType DEF AttributeDelete, TypeOK, Typed
<1>11. ASSUME NEW r \in Requests, AttributeInsert(r) PROVE TypeOK'
    BY <1>11, AttributeInsertType
<1>12. ASSUME NEW r \in Requests, AttributionFails(r) PROVE TypeOK'
    <2>1. RequestOK(Rest(request[r])) /\ RequestOK(Idle)
        BY RestType, IdleType DEF TypeOK
    <2> QED BY <1>12, <2>1, ContinueType DEF AttributionFails, TypeOK, Typed
<1>13. ASSUME NEW r \in Requests, Invalidate(r) PROVE TypeOK'
    BY <1>13, IdleType, NotCachedType, ContinueType DEF Invalidate, TypeOK, Typed
<1>14. ASSUME NEW r \in Requests, FillListing(r) PROVE TypeOK'
    <2>1. request[r].entry \in ListEntry
        BY DEF TypeOK, RequestOK
    <2> QED BY <1>14, <2>1, IdleType, ContinueType DEF FillListing, TypeOK, Typed
<1>15. CASE ExpireListing
    BY <1>15, NotCachedType DEF ExpireListing, TypeOK, RequestOK, Typed
<1>16. CASE UNCHANGED vars
    BY <1>16 DEF vars, TypeOK, RequestOK, Typed
<1> QED BY <1>1, <1>2, <1>3, <1>4, <1>5, <1>6, <1>7, <1>8, <1>9, <1>10, <1>11, <1>12, <1>13,
           <1>14, <1>15, <1>16 DEF Next

\* Row, skill record, cached entry and requests keep the types models.py
\* declares, and every score stays a percentage, however many requests overlap.
THEOREM TypeCorrect == Spec => []TypeOK
BY InitType, NextType, PTL DEF Spec

-------------------------------------------------------------------------------
(***************************************************************************)
(* A submission keeps its start time, and a completed one its result.  A   *)
(* commit applies a write set computed from an older row, and Save & Exit  *)
(* even clears the completion time.  What holds of every write set in      *)
(* flight: it clears no start time; one that writes a status finds or      *)
(* brings a start time; one that completes brings the completion time; one *)
(* that clears the completion time takes the status back as well.          *)
(***************************************************************************)
StampSound(u) ==
    /\ "started_at" \in DOMAIN u => u.started_at = TRUE
    /\ "status" \in DOMAIN u => "started_at" \in DOMAIN u \/ row.started_at = TRUE
    /\ "status" \in DOMAIN u /\ u.status = "completed" =>
          "completed_at" \in DOMAIN u /\ u.completed_at = TRUE
    /\ "completed_at" \in DOMAIN u /\ u.completed_at # TRUE =>
          "status" \in DOMAIN u /\ u.status # "completed"

Stamped ==
    /\ row.status # "not_started" => row.started_at = TRUE
    /\ row.status = "completed" => row.completed_at = TRUE
    /\ \A r \in Requests : StampSound(request[r].row)

LEMMA NoChangeStampSound == StampSound(NoChange)
BY DEF NoChange, StampSound

\* Beginning a request with a sound write set keeps Stamped.
LEMMA BeginStamped ==
    ASSUME TypeOK, Stamped, NEW r \in Requests, NEW e, NEW w,
           StampSound(w.row), Begin(r, e, w)
    PROVE  Stamped'
BY DEF TypeOK, Stamped, StampSound, Begin

\* So does a step of a request that leaves row and write sets alone.
LEMMA ContinueStamped ==
    ASSUME TypeOK, Stamped, UNCHANGED row, DOMAIN request' = Requests,
           \A q \in Requests : request'[q].row \in {request[q].row, NoChange}
    PROVE  Stamped'
<1>1. ASSUME NEW q \in Requests PROVE StampSound(request[q].row)'
    BY NoChangeStampSound DEF Stamped, StampSound
<1> QED BY <1>1 DEF Stamped

LEMMA OpeningStampSound ==
    ASSUME TypeOK, Stamped
    PROVE  StampSound(Opening)
<1>1. StampSound([status |-> "in_progress", started_at |-> TRUE])
    BY DEF StampSound
<1>2. StampSound([started_at |-> TRUE])
    BY DEF StampSound
<1> QED BY <1>1, <1>2, NoChangeStampSound DEF Opening

\* What a save writes.
LEMMA SavedStampSound ==
    ASSUME TypeOK, Stamped, NEW d \in Answers, NEW finished \in BOOLEAN,
           row.status = "completed" => ~finished
    PROVE  StampSound(Changes(row, [c \in DOMAIN SavedRow(d, finished) \ Untouched(finished)
                                      |-> SavedRow(d, finished)[c]]))
<1> DEFINE saved == SavedRow(d, finished)
           part == [c \in DOMAIN saved \ Untouched(finished) |-> saved[c]]
           u == Changes(row, part)
<1>1. DOMAIN saved = {"status", "completed_at", "progress_json", "started_at", "score", "answers_json"}
    BY DEF SavedRow
<1>2. /\ saved.started_at = TRUE
      /\ saved.completed_at = finished
      /\ saved.status = IF finished THEN "completed" ELSE "in_progress"
    BY DEF SavedRow
<1>3. /\ "status" \in DOMAIN part /\ part.status = saved.status
      /\ "started_at" \in DOMAIN part <=> ~row.started_at
      /\ "started_at" \in DOMAIN part => part.started_at = TRUE
      /\ "completed_at" \in DOMAIN part <=> finished \/ row.status = "completed"
      /\ "completed_at" \in DOMAIN part => part.completed_at = finished
    BY <1>1, <1>2, RowTypes DEF Untouched
<1> HIDE DEF saved, part
<1>4. /\ DOMAIN u \subseteq DOMAIN part
      /\ \A c \in DOMAIN u : u[c] = part[c]
      /\ \A c \in DOMAIN part : part[c] # row[c] \/ (c \in Timestamps /\ part[c]) => c \in DOMAIN u
    BY DEF Changes
<1>5. "started_at" \in DOMAIN u => u["started_at"] = TRUE
    BY <1>3, <1>4
<1>6. "started_at" \in DOMAIN u \/ row.started_at = TRUE
    BY <1>3, <1>4, RowTypes DEF Timestamps
<1>7. finished => "completed_at" \in DOMAIN u /\ u["completed_at"] = TRUE
    BY <1>3, <1>4 DEF Timestamps
<1>8. ~finished /\ row.status = "completed" => "status" \in DOMAIN u /\ u["status"] # "completed"
    BY <1>2, <1>3, <1>4
<1>9. "status" \in DOMAIN u /\ u["status"] = "completed" => finished
    BY <1>2, <1>3, <1>4
<1>10. "completed_at" \in DOMAIN u /\ u["completed_at"] # TRUE => ~finished /\ row.status = "completed"
    BY <1>3, <1>4
<1> HIDE DEF u
<1>11. StampSound(u)
    BY <1>5, <1>6, <1>7, <1>8, <1>9, <1>10 DEF StampSound
<1> QED BY <1>11 DEF u, part, saved

\* What completes an opened submission.
LEMMA CompletingStampSound ==
    ASSUME TypeOK, Stamped, row.status = "in_progress", NEW w,
           w["status"] = "completed", w["completed_at"] = TRUE,
           {"status", "completed_at"} \subseteq DOMAIN w, "started_at" \notin DOMAIN w
    PROVE  StampSound(Changes(row, w))
<1>1. row.started_at = TRUE
    BY DEF Stamped
<1> DEFINE u == Changes(row, w)
<1>2. "completed_at" \in DOMAIN u /\ u["completed_at"] = TRUE /\ "started_at" \notin DOMAIN u
    BY DEF Changes, Timestamps
<1> HIDE DEF u
<1>3. StampSound(u)
    BY <1>1, <1>2 DEF StampSound
<1> QED BY <1>3 DEF u

\* A write set of other columns.
LEMMA OtherStampSound ==
    ASSUME NEW w, DOMAIN w \cap {"status", "started_at", "completed_at"} = {}
    PROVE  StampSound(Changes(row, w))
BY DEF StampSound, Changes

LEMMA CommitStamped ==
    ASSUME TypeOK, Stamped, NEW r \in Requests, Commit(r)
    PROVE  Stamped'
<1> DEFINE u == request[r].row
<1>1. StampSound(u) /\ row' = Flush(row, u)
    BY DEF Stamped, Commit
<1>2. DOMAIN row = RowColumn /\ DOMAIN row' = RowColumn
    BY <1>1 DEF TypeOK, Flush
<1>3. row.started_at = TRUE => row'.started_at = TRUE
    BY <1>1, <1>2 DEF StampSound, Flush, RowColumn
<1>4. row'.status # "not_started" => row'.started_at = TRUE
    <2>1. CASE "status" \in DOMAIN u
        BY <1>1, <1>2, <1>3, <2>1 DEF StampSound, Flush, RowColumn
    <2>2. CASE "status" \notin DOMAIN u
        BY <1>1, <1>2, <1>3, <2>2 DEF Stamped, Flush, RowColumn
    <2> QED BY <2>1, <2>2
<1>5. row'.status = "completed" => row'.completed_at = TRUE
    <2>1. CASE "status" \in DOMAIN u
        BY <1>1, <1>2, <2>1 DEF StampSound, Flush, RowColumn
    <2>2. CASE "status" \notin DOMAIN u
        BY <1>1, <1>2, <2>2 DEF Stamped, StampSound, Flush, RowColumn
    <2> QED BY <2>1, <2>2
<1>6. ASSUME NEW q \in Requests PROVE StampSound(request[q].row)'
    <2>1. request'[q].row \in {request[q].row, NoChange}
        BY DEF Commit, Continue, TypeOK, RequestOK, Idle
    <2>2. CASE request'[q].row = NoChange
        BY <2>2 DEF StampSound, NoChange
    <2>3. CASE request'[q].row = request[q].row
        BY <2>3, <1>3 DEF Stamped, StampSound
    <2> QED BY <2>1, <2>2, <2>3
<1> QED BY <1>4, <1>5, <1>6 DEF Stamped

\* Every later step but the commit leaves row and write sets alone.
LaterStep(r) ==
    \/ Refresh(r)
    \/ AttributeDelete(r)
    \/ AttributeInsert(r)
    \/ AttributionFails(r)
    \/ Invalidate(r)
    \/ FillListing(r)

LEMMA LaterStepKeepsRows ==
    ASSUME TypeOK, NEW r \in Requests, LaterStep(r)
    PROVE  /\ UNCHANGED row
           /\ DOMAIN request' = Requests
           /\ \A q \in Requests : request'[q].row \in {request[q].row, NoChange}
<1>1. \A w : Rest(w).row \in {w.row, NoChange}
    BY DEF Rest, Idle
<1>2. CASE Refresh(r)
    <2> DEFINE changed == request[r].endpoint # "save_activity" \/ row.status # request[r].old
               w == [request[r] EXCEPT !.score = row.score, !.invalidate = changed]
               next == IF w.attribute /\ row.status = "completed"
                       THEN [w EXCEPT !.pc = "delete"] ELSE Rest(w)
    <2>1. w.row = request[r].row
        BY DEF TypeOK, RequestOK
    <2>2. next.row \in {request[r].row, NoChange}
        <3> HIDE DEF w
        <3> QED BY <2>1, <1>1
    <2>3. UNCHANGED row /\ request' = [request EXCEPT ![r] = next]
        BY <1>2 DEF Refresh, Continue
    <2> HIDE DEF next
    <2> QED BY <2>2, <2>3 DEF TypeOK
<1>3. CASE AttributeDelete(r)
    <2> DEFINE next == [request[r] EXCEPT !.pc = "insert"]
    <2>1. next.row = request[r].row
        BY DEF TypeOK, RequestOK
    <2>2. UNCHANGED row /\ request' = [request EXCEPT ![r] = next]
        BY <1>3 DEF AttributeDelete, Continue
    <2> HIDE DEF next
    <2> QED BY <2>1, <2>2 DEF TypeOK
<1>4. CASE AttributeInsert(r)
    <2>1. ASSUME NEW q \in Requests PROVE request'[q].row \in {request[q].row, NoChange}
        BY <1>1, <1>4 DEF AttributeInsert
    <2> QED BY <1>4, <2>1 DEF AttributeInsert
<1>5. CASE AttributionFails(r)
    BY <1>1, <1>5 DEF AttributionFails, Continue, TypeOK, Idle
<1>6. CASE Invalidate(r) \/ FillListing(r)
    <2>1. UNCHANGED row /\ request' = [request EXCEPT ![r] = Idle] /\ Idle.row = NoChange
        BY <1>6 DEF Invalidate, FillListing, Continue, Idle
    <2> QED BY <2>1 DEF TypeOK
<1> QED BY <1>2, <1>3, <1>4, <1>5, <1>6 DEF LaterStep

LEMMA NextStamped == TypeOK /\ Stamped /\ [Next]_vars => Stamped'
<1> SUFFICES ASSUME TypeOK, Stamped, [Next]_vars PROVE Stamped'
    OBVIOUS
<1>1. ASSUME NEW r \in Requests, Start(r) \/ StartMulti(r) PROVE Stamped'
    <2>1. PICK w, e : w.row = Opening /\ Begin(r, e, w)
        BY <1>1 DEF Start, StartMulti, Idle
    <2> QED BY <2>1, OpeningStampSound, BeginStamped
<1>2. ASSUME NEW r \in Requests, NEW d \in Answers, SaveProgress(r, d) PROVE Stamped'
    <2>1. PICK w : w.row = Changes(row, [progress_json |-> d]) /\ Begin(r, "save_progress", w)
        BY <1>2 DEF SaveProgress, Idle
    <2> QED BY <2>1, OtherStampSound, BeginStamped
<1>3. ASSUME NEW r \in Requests, NEW d \in Answers, NEW finished \in BOOLEAN,
             SaveActivityProgress(r, d, finished)
      PROVE  Stamped'
    <2> DEFINE u == Changes(row, [c \in DOMAIN SavedRow(d, finished) \ Untouched(finished)
                                    |-> SavedRow(d, finished)[c]])
    <2>1. StampSound(u)
        BY <1>3, SavedStampSound DEF SaveActivityProgress
    <2>2. PICK w : w.row = u /\ Begin(r, "save_activity", w)
        BY <1>3 DEF SaveActivityProgress, Idle
    <2> QED BY <2>1, <2>2, BeginStamped
<1>4. ASSUME NEW r \in Requests, NEW d \in Answers, Submit(r, d) PROVE Stamped'
    <2> DEFINE s == [status |-> "completed", score |-> OrZero(Mark[d]), completed_at |-> TRUE,
                     answers_json |-> d, progress_json |-> NoAnswers]
    <2>1. StampSound(Changes(row, s))
        BY <1>4, CompletingStampSound DEF Submit
    <2>2. PICK w : w.row = Changes(row, s) /\ Begin(r, "submit", w)
        BY <1>4 DEF Submit, Idle
    <2> QED BY <2>1, <2>2, BeginStamped
<1>5. ASSUME NEW r \in Requests, NEW d \in Sent, NEW force \in BOOLEAN, SubmitMulti(r, d, force)
      PROVE  Stamped'
    <2> DEFINE s == [status |-> "completed",
                     score |-> IF d # NoAnswers THEN Mark[d] ELSE OrZero(row.score),
                     completed_at |-> TRUE,
                     answers_json |-> IF d # NoAnswers THEN d ELSE row.progress_json]
    <2>1. StampSound(Changes(row, s))
        BY <1>5, CompletingStampSound DEF SubmitMulti
    <2>2. PICK w : w.row = Changes(row, s) /\ Begin(r, "submit_multi", w)
        BY <1>5 DEF SubmitMulti, Idle
    <2> QED BY <2>1, <2>2, BeginStamped
<1>6. ASSUME NEW r \in Requests, NEW d \in Sent, ResubmitMulti(r, d) PROVE Stamped'
    <2> DEFINE found == IF d # NoAnswers THEN d ELSE row.progress_json
               u == IF row.answers_json = NoAnswers
                    THEN Changes(row, [answers_json |-> found]) ELSE NoChange
    <2>1. StampSound(u)
        BY OtherStampSound, NoChangeStampSound
    <2>2. PICK w : w.row = u /\ Begin(r, "submit_multi", w)
        BY <1>6 DEF ResubmitMulti, Idle
    <2> QED BY <2>1, <2>2, BeginStamped
<1>7. ASSUME NEW r \in Requests, NEW p \in Grades, Grade(r, p) PROVE Stamped'
    <2>1. PICK w : w.row = Changes(row, [score |-> p]) /\ Begin(r, "grade", w)
        BY <1>7 DEF Grade, Idle
    <2> QED BY <2>1, OtherStampSound, BeginStamped
<1>8. ASSUME NEW r \in Requests, ListAssignments(r) PROVE Stamped'
    <2>1. PICK w : w.row = NoChange /\ Begin(r, "list", w)
        BY <1>8 DEF ListAssignments, Idle
    <2> QED BY <2>1, NoChangeStampSound, BeginStamped
<1>9. ASSUME NEW r \in Requests, Commit(r) PROVE Stamped'
    BY <1>9, CommitStamped
<1>10. ASSUME NEW r \in Requests, LaterStep(r) PROVE Stamped'
    BY <1>10, LaterStepKeepsRows, ContinueStamped
<1>11. CASE ExpireListing
    BY <1>11 DEF ExpireListing, Stamped, StampSound
<1>12. CASE UNCHANGED vars
    BY <1>12 DEF vars, Stamped, StampSound
<1> QED BY <1>1, <1>2, <1>3, <1>4, <1>5, <1>6, <1>7, <1>8, <1>9, <1>10, <1>11, <1>12
        DEF Next, LaterStep

LEMMA InitStamped == Init => Stamped
BY NoChangeStampSound DEF Init, Stamped, Idle

\* However many requests overlap, a submission that left "not_started" has its
\* start time, also when a late Save & Exit reopens it.
THEOREM OpenedStaysStamped == Spec => []OpenedIsStamped
<1>1. TypeOK /\ Stamped => OpenedIsStamped
    BY DEF Stamped, OpenedIsStamped
<1> QED BY <1>1, InitType, InitStamped, NextType, NextStamped, PTL DEF Spec

-------------------------------------------------------------------------------
(***************************************************************************)
(* A completed submission has answers to show, provided that submit-multi  *)
(* carries some, as its schema asks of Content Library assignments.  No    *)
(* write set takes answers away, and one that completes the submission     *)
(* finds or brings them.                                                   *)
(***************************************************************************)
AnswersSound(u) ==
    /\ "answers_json" \in DOMAIN u => u.answers_json # NoAnswers
    /\ "status" \in DOMAIN u /\ u.status = "completed" =>
          "answers_json" \in DOMAIN u \/ row.answers_json # NoAnswers

Served ==
    /\ row.status = "completed" => row.answers_json # NoAnswers
    /\ \A r \in Requests : AnswersSound(request[r].row)

LEMMA BeginServed ==
    ASSUME TypeOK, Served, NEW r \in Requests, NEW e, NEW w,
           AnswersSound(w.row), Begin(r, e, w)
    PROVE  Served'
BY DEF TypeOK, Served, AnswersSound, Begin

LEMMA NoChangeAnswersSound == AnswersSound(NoChange)
BY DEF NoChange, AnswersSound

LEMMA OpeningAnswersSound == AnswersSound(Opening)
<1>1. AnswersSound([status |-> "in_progress", started_at |-> TRUE])
    BY DEF AnswersSound
<1>2. AnswersSound([started_at |-> TRUE])
    BY DEF AnswersSound
<1> QED BY <1>1, <1>2, NoChangeAnswersSound DEF Opening

LEMMA SavedAnswersSound ==
    ASSUME NEW d \in Answers, NEW finished \in BOOLEAN
    PROVE  AnswersSound(Changes(row, [c \in DOMAIN SavedRow(d, finished) \ Untouched(finished)
                                        |-> SavedRow(d, finished)[c]]))
<1> DEFINE saved == SavedRow(d, finished)
           part == [c \in DOMAIN saved \ Untouched(finished) |-> saved[c]]
           u == Changes(row, part)
<1>1. DOMAIN saved = {"status", "completed_at", "progress_json", "started_at", "score", "answers_json"}
    BY DEF SavedRow
<1>2. /\ saved.status = IF finished THEN "completed" ELSE "in_progress"
      /\ saved.answers_json = IF finished /\ row.answers_json = NoAnswers
                              THEN d ELSE row.answers_json
    BY DEF SavedRow
<1>3. /\ "status" \in DOMAIN part => part.status = saved.status
      /\ "answers_json" \in DOMAIN part /\ part.answers_json = saved.answers_json
    BY <1>1 DEF Untouched
<1> HIDE DEF saved, part
<1>4. /\ DOMAIN u \subseteq DOMAIN part
      /\ \A c \in DOMAIN u : u[c] = part[c] /\ (c \notin Timestamps => u[c] # row[c])
      /\ \A c \in DOMAIN part : part[c] # row[c] => c \in DOMAIN u
    BY DEF Changes
<1>5. d # NoAnswers
    BY AnswersAssumption
<1>6. "answers_json" \in DOMAIN u => u["answers_json"] # NoAnswers
    BY <1>2, <1>3, <1>4, <1>5 DEF Timestamps
<1>7. "status" \in DOMAIN u /\ u["status"] = "completed" =>
         "answers_json" \in DOMAIN u \/ row.answers_json # NoAnswers
    BY <1>2, <1>3, <1>4, <1>5
<1> HIDE DEF u
<1>8. AnswersSound(u)
    BY <1>6, <1>7 DEF AnswersSound
<1> QED BY <1>8 DEF u, part, saved

\* Writing answers, with whatever else.
LEMMA AnsweringSound ==
    ASSUME NEW w, "answers_json" \in DOMAIN w, w["answers_json"] # NoAnswers
    PROVE  AnswersSound(Changes(row, w))
<1> DEFINE u == Changes(row, w)
<1>1. /\ "answers_json" \in DOMAIN u => u["answers_json"] # NoAnswers
      /\ "answers_json" \in DOMAIN u \/ row.answers_json # NoAnswers
    BY DEF Changes
<1> HIDE DEF u
<1>2. AnswersSound(u)
    BY <1>1 DEF AnswersSound
<1> QED BY <1>2 DEF u

LEMMA OtherAnswersSound ==
    ASSUME NEW w, DOMAIN w \cap {"status", "answers_json"} = {}
    PROVE  AnswersSound(Changes(row, w))
BY DEF AnswersSound, Changes

LEMMA CommitServed ==
    ASSUME TypeOK, Served, NEW r \in Requests, Commit(r)
    PROVE  Served'
<1> DEFINE u == request[r].row
<1>1. AnswersSound(u) /\ row' = Flush(row, u)
    BY DEF Served, Commit
<1>2. DOMAIN row = RowColumn /\ DOMAIN row' = RowColumn
    BY <1>1 DEF TypeOK, Flush
<1>3. row.answers_json # NoAnswers => row'.answers_json # NoAnswers
    BY <1>1, <1>2 DEF AnswersSound, Flush, RowColumn
<1>4. row'.status = "completed" => row'.answers_json # NoAnswers
    <2>1. CASE "status" \in DOMAIN u
        BY <1>1, <1>2, <1>3, <2>1 DEF AnswersSound, Flush, RowColumn
    <2>2. CASE "status" \notin DOMAIN u
        BY <1>1, <1>2, <1>3, <2>2 DEF Served, Flush, RowColumn
    <2> QED BY <2>1, <2>2
<1>5. ASSUME NEW q \in Requests PROVE AnswersSound(request[q].row)'
    <2>1. request'[q].row \in {request[q].row, NoChange}
        BY DEF Commit, Continue, TypeOK, RequestOK, Idle
    <2>2. CASE request'[q].row = NoChange
        BY <2>2 DEF AnswersSound, NoChange
    <2>3. CASE request'[q].row = request[q].row
        BY <2>3, <1>3 DEF Served, AnswersSound
    <2> QED BY <2>1, <2>2, <2>3
<1> QED BY <1>4, <1>5 DEF Served

LEMMA ContinueServed ==
    ASSUME TypeOK, Served, UNCHANGED row, DOMAIN request' = Requests,
           \A q \in Requests : request'[q].row \in {request[q].row, NoChange}
    PROVE  Served'
<1>1. ASSUME NEW q \in Requests PROVE AnswersSound(request[q].row)'
    BY NoChangeAnswersSound DEF Served, AnswersSound
<1> QED BY <1>1 DEF Served

LEMMA NextServed ==
    ASSUME NoAnswers \notin Sent
    PROVE  TypeOK /\ Served /\ [Next]_vars => Served'
<1> SUFFICES ASSUME TypeOK, Served, [Next]_vars PROVE Served'
    OBVIOUS
<1>1. ASSUME NEW r \in Requests, Start(r) \/ StartMulti(r) PROVE Served'
    <2>1. PICK w, e : w.row = Opening /\ Begin(r, e, w)
        BY <1>1 DEF Start, StartMulti, Idle
    <2> QED BY <2>1, OpeningAnswersSound, BeginServed
<1>2. ASSUME NEW r \in Requests, NEW d \in Answers, SaveProgress(r, d) PROVE Served'
    <2>1. PICK w : w.row = Changes(row, [progress_json |-> d]) /\ Begin(r, "save_progress", w)
        BY <1>2 DEF SaveProgress, Idle
    <2> QED BY <2>1, OtherAnswersSound, BeginServed
<1>3. ASSUME NEW r \in Requests, NEW d \in Answers, NEW finished \in BOOLEAN,
             SaveActivityProgress(r, d, finished)
      PROVE  Served'
    <2> DEFINE u == Changes(row, [c \in DOMAIN SavedRow(d, finished) \ Untouched(finished)
                                    |-> SavedRow(d, finished)[c]])
    <2>1. PICK w : w.row = u /\ Begin(r, "save_activity", w)
        BY <1>3 DEF SaveActivityProgress, Idle
    <2> QED BY <2>1, SavedAnswersSound, BeginServed
<1>4. ASSUME NEW r \in Requests, NEW d \in Answers, Submit(r, d) PROVE Served'
    <2> DEFINE s == [status |-> "completed", score |-> OrZero(Mark[d]), completed_at |-> TRUE,
                     answers_json |-> d, progress_json |-> NoAnswers]
    <2>1. AnswersSound(Changes(row, s))
        BY AnsweringSound, AnswersAssumption
    <2>2. PICK w : w.row = Changes(row, s) /\ Begin(r, "submit", w)
        BY <1>4 DEF Submit, Idle
    <2> QED BY <2>1, <2>2, BeginServed
<1>5. ASSUME NEW r \in Requests, NEW d \in Sent, NEW force \in BOOLEAN, SubmitMulti(r, d, force)
      PROVE  Served'
    <2> DEFINE s == [status |-> "completed",
                     score |-> IF d # NoAnswers THEN Mark[d] ELSE OrZero(row.score),
                     completed_at |-> TRUE,
                     answers_json |-> IF d # NoAnswers THEN d ELSE row.progress_json]
    <2>1. AnswersSound(Changes(row, s))
        BY AnsweringSound
    <2>2. PICK w : w.row = Changes(row, s) /\ Begin(r, "submit_multi", w)
        BY <1>5 DEF SubmitMulti, Idle
    <2> QED BY <2>1, <2>2, BeginServed
<1>6. ASSUME NEW r \in Requests, NEW d \in Sent, ResubmitMulti(r, d) PROVE Served'
    <2> DEFINE found == IF d # NoAnswers THEN d ELSE row.progress_json
               u == IF row.answers_json = NoAnswers
                    THEN Changes(row, [answers_json |-> found]) ELSE NoChange
    <2>1. AnswersSound(u)
        BY AnsweringSound, NoChangeAnswersSound
    <2>2. PICK w : w.row = u /\ Begin(r, "submit_multi", w)
        BY <1>6 DEF ResubmitMulti, Idle
    <2> QED BY <2>1, <2>2, BeginServed
<1>7. ASSUME NEW r \in Requests, NEW p \in Grades, Grade(r, p) PROVE Served'
    <2>1. PICK w : w.row = Changes(row, [score |-> p]) /\ Begin(r, "grade", w)
        BY <1>7 DEF Grade, Idle
    <2> QED BY <2>1, OtherAnswersSound, BeginServed
<1>8. ASSUME NEW r \in Requests, ListAssignments(r) PROVE Served'
    <2>1. PICK w : w.row = NoChange /\ Begin(r, "list", w)
        BY <1>8 DEF ListAssignments, Idle
    <2> QED BY <2>1, NoChangeAnswersSound, BeginServed
<1>9. ASSUME NEW r \in Requests, Commit(r) PROVE Served'
    BY <1>9, CommitServed
<1>10. ASSUME NEW r \in Requests, LaterStep(r) PROVE Served'
    BY <1>10, LaterStepKeepsRows, ContinueServed
<1>11. CASE ExpireListing
    BY <1>11 DEF ExpireListing, Served, AnswersSound
<1>12. CASE UNCHANGED vars
    BY <1>12 DEF vars, Served, AnswersSound
<1> QED BY <1>1, <1>2, <1>3, <1>4, <1>5, <1>6, <1>7, <1>8, <1>9, <1>10, <1>11, <1>12
        DEF Next, LaterStep

LEMMA InitServed == Init => Served
BY NoChangeAnswersSound DEF Init, Served, Idle

\* However many saves, Save & Exits, starts and submits overlap, a completed
\* submission has its completion time and answers to show, provided that
\* submit-multi carries answers.
THEOREM ResultStaysServed ==
    ASSUME NoAnswers \notin Sent
    PROVE  Spec => []ResultIsServed
<1>1. TypeOK /\ Stamped /\ Served => ResultIsServed
    BY DEF Stamped, Served, ResultIsServed
<1>2. TypeOK /\ Served /\ [Next]_vars => Served'
    BY NextServed
<1> QED BY <1>1, <1>2, InitType, InitStamped, InitServed, NextType, NextStamped, PTL DEF Spec

-------------------------------------------------------------------------------
(***************************************************************************)
(* A completed submission counts for its skill.  Until a skill record      *)
(* exists, some request in flight is still going to insert one: whichever  *)
(* request completed the row attributes after its commit, and an insert    *)
(* fails on a conflict only when another one has succeeded.                *)
(***************************************************************************)
Attributing(w) == w.attribute = TRUE /\ w.pc \in {"refresh", "delete", "insert"}

Completing(u) == "status" \in DOMAIN u /\ u.status = "completed"

\* A request that has yet to complete the row attributes after its commit; one
\* that lost a conflict has seen a skill record.
RequestSound(w) ==
    /\ Completing(w.row) => w.pc = "commit" /\ w.next = "refresh" /\ w.attribute = TRUE
    /\ w.pc = "conflict" => skill # NoScore

Attributed ==
    /\ row.status = "completed" /\ skill = NoScore => \E r \in Requests : Attributing(request[r])
    /\ \A r \in Requests : RequestSound(request[r])

LEMMA IdleSound == RequestSound(Idle) /\ ~Attributing(Idle)
BY DEF RequestSound, Completing, Attributing, Idle, NoChange

\* A request that begins is sound, and the one that attributes goes on.
LEMMA BeginAttributed ==
    ASSUME TypeOK, Attributed, NEW r \in Requests, NEW e, NEW w,
           RequestSound(w), Begin(r, e, w)
    PROVE  Attributed'
<1>1. UNCHANGED <<row, skill>> /\ request[r] = Idle /\ request' = [request EXCEPT ![r] = w]
    BY DEF Begin
<1>2. ASSUME NEW q \in Requests PROVE RequestSound(request[q])'
    BY <1>1 DEF TypeOK, Attributed, RequestSound, Completing
<1>3. row'.status = "completed" /\ skill' = NoScore => \E q \in Requests : Attributing(request[q])'
    <2> SUFFICES ASSUME row.status = "completed", skill = NoScore
                 PROVE  \E q \in Requests : Attributing(request[q])'
        BY <1>1
    <2>1. PICK q \in Requests : Attributing(request[q])
        BY DEF Attributed
    <2>2. request'[q] = request[q]
        BY <1>1, <2>1, IdleSound DEF TypeOK
    <2> QED BY <2>1, <2>2 DEF Attributing
<1> QED BY <1>2, <1>3 DEF Attributed

\* So is one that goes on without leaving row and skill record unattributed.
LEMMA ContinueAttributed ==
    ASSUME TypeOK, Attributed, NEW r \in Requests, NEW w, UNCHANGED <<row, skill>>,
           request' = [request EXCEPT ![r] = w],
           ~Completing(w.row), w.pc # "conflict",
           row.status = "completed" /\ skill = NoScore /\ Attributing(request[r]) => Attributing(w)
    PROVE  Attributed'
<1>1. ASSUME NEW q \in Requests PROVE RequestSound(request[q])'
    BY DEF TypeOK, Attributed, RequestSound, Completing
<1>2. row'.status = "completed" /\ skill' = NoScore => \E q \in Requests : Attributing(request[q])'
    <2> SUFFICES ASSUME row.status = "completed", skill = NoScore
                 PROVE  \E q \in Requests : Attributing(request[q])'
        OBVIOUS
    <2>1. PICK q \in Requests : Attributing(request[q])
        BY DEF Attributed
    <2>2. Attributing(request'[q])
        BY <2>1 DEF TypeOK
    <2> QED BY <2>2 DEF Attributing
<1> QED BY <1>1, <1>2 DEF Attributed

\* A write set of a request that attributes, or one that completes nothing.
LEMMA OpeningCompletesNothing == ~Completing(Opening)
<1>1. ~Completing([status |-> "in_progress", started_at |-> TRUE])
    BY DEF Completing
<1>2. ~Completing([started_at |-> TRUE]) /\ ~Completing(NoChange)
    BY DEF Completing, NoChange
<1> QED BY <1>1, <1>2 DEF Opening

LEMMA OtherCompletesNothing ==
    ASSUME NEW w, "status" \notin DOMAIN w
    PROVE  ~Completing(Changes(row, w))
BY DEF Completing, Changes

LEMMA UnfinishedCompletesNothing ==
    ASSUME NEW d
    PROVE  ~Completing(Changes(row, [c \in DOMAIN SavedRow(d, FALSE) \ Untouched(FALSE)
                                       |-> SavedRow(d, FALSE)[c]]))
<1> DEFINE saved == SavedRow(d, FALSE)
           part == [c \in DOMAIN saved \ Untouched(FALSE) |-> saved[c]]
<1>1. saved.status = "in_progress"
    BY DEF SavedRow
<1> HIDE DEF saved
<1>2. "status" \in DOMAIN part => part["status"] = "in_progress"
    BY <1>1
<1> HIDE DEF part
<1>3. ~Completing(Changes(row, part))
    BY <1>2 DEF Completing, Changes
<1> QED BY <1>3 DEF part, saved

LEMMA CommitAttributed ==
    ASSUME TypeOK, Attributed, NEW r \in Requests, Commit(r)
    PROVE  Attributed'
<1> DEFINE w == request[r]
           next == IF w.next = "idle" THEN Idle ELSE [w EXCEPT !.pc = w.next, !.row = NoChange]
<1>1. /\ w.pc = "commit" /\ row' = Flush(row, w.row) /\ skill' = skill
      /\ request' = [request EXCEPT ![r] = next]
      /\ w.next \in {"idle", "refresh", "invalidate"}
    BY DEF Commit, Continue, TypeOK, RequestOK
<1>2. /\ ~Completing(next.row) /\ next.pc # "conflict"
      /\ Completing(w.row) => Attributing(next)
    <2>1. CASE w.next = "idle"
        BY <2>1, IdleSound DEF Attributed, RequestSound, Completing, Idle, NoChange
    <2>2. CASE w.next # "idle"
        BY <1>1, <2>2 DEF Attributed, RequestSound, Completing, NoChange, Attributing
    <2> QED BY <2>1, <2>2
<1> HIDE DEF next
<1>3. ASSUME NEW q \in Requests PROVE RequestSound(request[q])'
    BY <1>1, <1>2 DEF TypeOK, Attributed, RequestSound, Completing
<1>4. row'.status = "completed" /\ skill' = NoScore => \E q \in Requests : Attributing(request[q])'
    <2> SUFFICES ASSUME row'.status = "completed", skill = NoScore
                 PROVE  \E q \in Requests : Attributing(request[q])'
        BY <1>1
    <2>1. CASE Completing(w.row)
        <3>1. request'[r] = next /\ Attributing(next)
            BY <1>1, <1>2, <2>1 DEF TypeOK
        <3> QED BY <3>1 DEF Attributing
    <2>2. CASE ~Completing(w.row)
        <3>1. row.status = "completed"
            BY <1>1, <2>2 DEF Flush, Completing, TypeOK, RowColumn
        <3>2. PICK q \in Requests : Attributing(request[q])
            BY <3>1 DEF Attributed
        <3>3. q # r
            BY <1>1, <3>2 DEF Attributing
        <3>4. request'[q] = request[q]
            BY <1>1, <3>3 DEF TypeOK
        <3> QED BY <3>2, <3>4 DEF Attributing
    <2> QED BY <2>1, <2>2
<1> QED BY <1>3, <1>4 DEF Attributed

LEMMA DeleteFollowsRefresh ==
    ASSUME NEW w, w.pc = "refresh"
    PROVE  /\ [w EXCEPT !.pc = "delete"].row = w.row
           /\ [w EXCEPT !.pc = "delete"].pc # "conflict"
           /\ Attributing(w) => Attributing([w EXCEPT !.pc = "delete"])
BY DEF Attributing

LEMMA RefreshAttributed ==
    ASSUME TypeOK, Attributed, NEW r \in Requests, Refresh(r)
    PROVE  Attributed'
<1> DEFINE changed == request[r].endpoint # "save_activity" \/ row.status # request[r].old
           w == [request[r] EXCEPT !.score = row.score, !.invalidate = changed]
           next == IF w.attribute /\ row.status = "completed"
                   THEN [w EXCEPT !.pc = "delete"] ELSE Rest(w)
<1>1. request[r].pc = "refresh" /\ w.row = request[r].row /\ w.attribute = request[r].attribute
    BY DEF Refresh, TypeOK, RequestOK
<1>2. ~Completing(request[r].row)
    BY <1>1 DEF Attributed, RequestSound
<1>3. /\ ~Completing(next.row) /\ next.pc # "conflict"
      /\ row.status = "completed" /\ Attributing(request[r]) => Attributing(next)
    <2>1. Completing(Idle.row) = FALSE /\ Idle.pc = "idle"
        BY DEF Idle, NoChange, Completing
    <2>2. CASE w.attribute /\ row.status = "completed"
        <3>1. next = [w EXCEPT !.pc = "delete"]
            BY <2>2
        <3>2. w.pc = "refresh"
            BY <1>1 DEF TypeOK, RequestOK
        <3>3. w.attribute = TRUE
            BY <1>1, <2>2 DEF TypeOK, RequestOK
        <3> HIDE DEF w, next
        <3>4. Attributing(w)
            BY <3>2, <3>3 DEF Attributing
        <3>5. next.row = w.row /\ next.pc # "conflict" /\ Attributing(next)
            BY <3>1, <3>2, <3>4, DeleteFollowsRefresh
        <3> QED BY <1>1, <1>2, <3>5
    <2>3. CASE ~(w.attribute /\ row.status = "completed")
        <3>1. next = Rest(w)
            BY <2>3
        <3>2. ~Completing(Rest(w).row) /\ Rest(w).pc # "conflict"
            <4> HIDE DEF w
            <4> QED BY <1>1, <1>2, <2>1 DEF Rest
        <3> QED BY <1>1, <2>3, <3>1, <3>2 DEF Attributing
    <2> QED BY <2>2, <2>3
<1>4. UNCHANGED <<row, skill>> /\ request' = [request EXCEPT ![r] = next]
    BY DEF Refresh, Continue
<1> HIDE DEF next
<1> QED BY <1>3, <1>4, ContinueAttributed

LEMMA AttributeDeleteAttributed ==
    ASSUME TypeOK, Attributed, NEW r \in Requests, AttributeDelete(r)
    PROVE  Attributed'
<1> DEFINE w == request[r]
           next == [w EXCEPT !.pc = "insert"]
<1>1. w.pc = "delete" /\ UNCHANGED <<row, skill>> /\ request' = [request EXCEPT ![r] = next]
    BY DEF AttributeDelete, Continue
<1>2. ~Completing(w.row)
    BY <1>1 DEF Attributed, RequestSound
<1>3. /\ next.row = w.row /\ next.pc \in {"delete", "insert"} /\ next.attribute = w.attribute
    BY <1>1
<1>4. /\ ~Completing(next.row) /\ next.pc # "conflict"
      /\ Attributing(w) => Attributing(next)
    <2> HIDE DEF next
    <2> QED BY <1>2, <1>3 DEF Attributing
<1> HIDE DEF next
<1> QED BY <1>1, <1>4, ContinueAttributed

LEMMA AttributeInsertAttributed ==
    ASSUME TypeOK, Attributed, NEW r \in Requests, AttributeInsert(r)
    PROVE  Attributed'
<1>1. skill' = OrZero(request[r].score) /\ UNCHANGED row
    BY DEF AttributeInsert
<1>2. skill' # NoScore
    BY <1>1, OrZeroType DEF TypeOK, RequestOK, Percent, NoScore
<1>3. ASSUME NEW q \in Requests PROVE ~Completing(request'[q].row) \/ request'[q] = request[q]
    <2>1. CASE q = r
        <3>1. request'[q] = Rest(request[r])
            BY <2>1 DEF AttributeInsert
        <3>2. ~Completing(request[r].row)
            BY DEF AttributeInsert, Attributed, RequestSound
        <3>3. ~Completing(Idle.row)
            BY DEF Idle, NoChange, Completing
        <3> QED BY <3>1, <3>2, <3>3 DEF Rest
    <2>2. CASE q # r /\ request[q].pc = "insert"
        <3>1. request'[q] = [request[q] EXCEPT !.pc = "conflict"]
            BY <2>2 DEF AttributeInsert
        <3>2. ~Completing(request[q].row)
            BY <2>2 DEF Attributed, RequestSound
        <3> QED BY <3>1, <3>2
    <2>3. CASE q # r /\ request[q].pc # "insert"
        BY <2>3 DEF AttributeInsert
    <2> QED BY <2>1, <2>2, <2>3
<1>4. ASSUME NEW q \in Requests PROVE RequestSound(request[q])'
    <2>1. CASE ~Completing(request'[q].row)
        BY <1>2, <2>1 DEF RequestSound, Completing
    <2>2. CASE request'[q] = request[q]
        BY <1>2, <2>2 DEF Attributed, RequestSound, Completing
    <2> QED BY <1>3, <2>1, <2>2
<1> QED BY <1>2, <1>4 DEF Attributed

\* A request that ends, once there is a skill record or it attributes nothing.
LEMMA AttributionFailsAttributed ==
    ASSUME TypeOK, Attributed, NEW r \in Requests, AttributionFails(r)
    PROVE  Attributed'
<1>1. skill # NoScore /\ ~Completing(request[r].row)
    BY DEF AttributionFails, Attributed, RequestSound
<1>2. ~Completing(Rest(request[r]).row)
    BY <1>1 DEF Rest, Idle, NoChange, Completing
<1>3. ~Completing(Idle.row)
    BY DEF Idle, NoChange, Completing
<1>4. UNCHANGED <<row, skill>> /\ \E w \in {Idle, Rest(request[r])} :
          request' = [request EXCEPT ![r] = w]
    BY DEF AttributionFails, Continue
<1>5. PICK w : ~Completing(w.row) /\ request' = [request EXCEPT ![r] = w]
    BY <1>2, <1>3, <1>4
<1>6. ASSUME NEW q \in Requests PROVE RequestSound(request[q])'
    BY <1>1, <1>4, <1>5 DEF TypeOK, Attributed, RequestSound, Completing
<1> QED BY <1>1, <1>4, <1>6 DEF Attributed

LEMMA EndAttributed ==
    ASSUME TypeOK, Attributed, NEW r \in Requests, Invalidate(r) \/ FillListing(r)
    PROVE  Attributed'
<1>1. UNCHANGED <<row, skill>> /\ request' = [request EXCEPT ![r] = Idle]
    BY DEF Invalidate, FillListing, Continue
<1>2. ~Attributing(request[r])
    BY DEF Invalidate, FillListing, Attributing
<1>3. ~Completing(Idle.row) /\ Idle.pc # "conflict"
    BY DEF Idle, NoChange, Completing
<1> QED BY <1>1, <1>2, <1>3, ContinueAttributed

\* A request whose write set completes nothing, or that is about to attribute.
LEMMA NotCompletingSound ==
    ASSUME NEW w, ~Completing(w.row), w.pc # "conflict"
    PROVE  RequestSound(w)
BY DEF RequestSound

LEMMA AttributingSound ==
    ASSUME NEW w, w.pc = "commit", w.next = "refresh", w.attribute = TRUE
    PROVE  RequestSound(w)
BY DEF RequestSound

LEMMA NextAttributed == TypeOK /\ Attributed /\ [Next]_vars => Attributed'
<1> SUFFICES ASSUME TypeOK, Attributed, [Next]_vars PROVE Attributed'
    OBVIOUS
<1>1. ASSUME NEW r \in Requests, Start(r) \/ StartMulti(r) PROVE Attributed'
    <2>1. PICK w, e : w.row = Opening /\ w.pc = "commit" /\ Begin(r, e, w)
        BY <1>1 DEF Start, StartMulti, Idle
    <2> QED BY <2>1, OpeningCompletesNothing, NotCompletingSound, BeginAttributed
<1>2. ASSUME NEW r \in Requests, NEW d \in Answers, SaveProgress(r, d) PROVE Attributed'
    <2>1. PICK w : /\ w.row = Changes(row, [progress_json |-> d]) /\ w.pc = "commit"
                   /\ Begin(r, "save_progress", w)
        BY <1>2 DEF SaveProgress, Idle
    <2> QED BY <2>1, OtherCompletesNothing, NotCompletingSound, BeginAttributed
<1>3. ASSUME NEW r \in Requests, NEW d \in Answers, NEW finished \in BOOLEAN,
             SaveActivityProgress(r, d, finished)
      PROVE  Attributed'
    <2> DEFINE u == Changes(row, [c \in DOMAIN SavedRow(d, finished) \ Untouched(finished)
                                    |-> SavedRow(d, finished)[c]])
    <2>1. PICK w : /\ w.row = u /\ w.pc = "commit" /\ w.next = "refresh" /\ w.attribute = finished
                   /\ Begin(r, "save_activity", w)
        BY <1>3 DEF SaveActivityProgress, Idle
    <2>2. finished = FALSE => ~Completing(u)
        BY UnfinishedCompletesNothing
    <2> HIDE DEF u
    <2>3. RequestSound(w)
        BY <2>1, <2>2, NotCompletingSound, AttributingSound
    <2> QED BY <2>1, <2>3, BeginAttributed
<1>4. ASSUME NEW r \in Requests, NEW d \in Answers, Submit(r, d) PROVE Attributed'
    <2>1. PICK w : /\ w.pc = "commit" /\ w.next = "refresh" /\ w.attribute = TRUE
                   /\ Begin(r, "submit", w)
        BY <1>4 DEF Submit, Idle
    <2> QED BY <2>1, AttributingSound, BeginAttributed
<1>5. ASSUME NEW r \in Requests, NEW d \in Sent, NEW force \in BOOLEAN, SubmitMulti(r, d, force)
      PROVE  Attributed'
    <2>1. PICK w : /\ w.pc = "commit" /\ w.next = "refresh" /\ w.attribute = TRUE
                   /\ Begin(r, "submit_multi", w)
        BY <1>5 DEF SubmitMulti, Idle
    <2> QED BY <2>1, AttributingSound, BeginAttributed
<1>6. ASSUME NEW r \in Requests, NEW d \in Sent, ResubmitMulti(r, d) PROVE Attributed'
    <2> DEFINE found == IF d # NoAnswers THEN d ELSE row.progress_json
               u == IF row.answers_json = NoAnswers
                    THEN Changes(row, [answers_json |-> found]) ELSE NoChange
    <2>1. ~Completing(u)
        BY OtherCompletesNothing, OpeningCompletesNothing DEF NoChange, Completing
    <2>2. PICK w : w.row = u /\ w.pc = "commit" /\ Begin(r, "submit_multi", w)
        BY <1>6 DEF ResubmitMulti, Idle
    <2> HIDE DEF u
    <2> QED BY <2>1, <2>2, NotCompletingSound, BeginAttributed
<1>7. ASSUME NEW r \in Requests, NEW p \in Grades, Grade(r, p) PROVE Attributed'
    <2>1. PICK w : /\ w.row = Changes(row, [score |-> p]) /\ w.pc = "commit"
                   /\ Begin(r, "grade", w)
        BY <1>7 DEF Grade, Idle
    <2> QED BY <2>1, OtherCompletesNothing, NotCompletingSound, BeginAttributed
<1>8. ASSUME NEW r \in Requests, ListAssignments(r) PROVE Attributed'
    <2>1. PICK w : w.row = NoChange /\ w.pc = "fill" /\ Begin(r, "list", w)
        BY <1>8 DEF ListAssignments, Idle
    <2>2. ~Completing(NoChange)
        BY DEF NoChange, Completing
    <2> QED BY <2>1, <2>2, NotCompletingSound, BeginAttributed
<1>9. ASSUME NEW r \in Requests, Commit(r) PROVE Attributed'
    BY <1>9, CommitAttributed
<1>10. ASSUME NEW r \in Requests, LaterStep(r) PROVE Attributed'
    BY <1>10, RefreshAttributed, AttributeDeleteAttributed, AttributeInsertAttributed,
       AttributionFailsAttributed, EndAttributed DEF LaterStep
<1>11. CASE UNCHANGED <<row, skill, request>>
    BY <1>11 DEF Attributed, RequestSound, Attributing, Completing
<1> QED BY <1>1, <1>2, <1>3, <1>4, <1>5, <1>6, <1>7, <1>8, <1>9, <1>10, <1>11
        DEF Next, LaterStep, ExpireListing, vars

LEMMA InitAttributed == Init => Attributed
BY IdleSound DEF Init, Attributed

\* Once no request is in flight a completed submission has a skill record:
\* when attributions collide and one is lost, another one was recorded.
THEOREM CompletedStaysAttributed == Spec => []CompletedIsAttributed
<1>1. TypeOK /\ Attributed => CompletedIsAttributed
    BY IdleSound DEF Attributed, CompletedIsAttributed, Quiet
<1> QED BY <1>1, InitType, InitAttributed, NextType, NextAttributed, PTL DEF Spec

-------------------------------------------------------------------------------
(***************************************************************************)
(* The skill record holds the score of the completed submission, whatever  *)
(* else overlaps, under two conditions.  AttributionsAlone: no request     *)
(* commits a completion while another one is between reading the score it  *)
(* attributes and inserting the skill record.  And no teacher grades the   *)
(* submission: grading changes the score and attributes nothing.           *)
(***************************************************************************)
AttributionsAlone ==
    \A q, r \in Requests :
        request[q].pc \in {"delete", "insert"}
            => ~(request[r].pc = "commit" /\ request[r].attribute = TRUE)

SkillAgrees == row.status = "completed" => skill = OrZero(row.score)

AttributionDue == \E r \in Requests : Attributing(request[r])

\* A write set whose request attributes goes on to do so; any other neither
\* scores nor completes the submission.  What is attributed is the row's score.
ScoreSound(w) ==
    /\ w.pc = "commit" /\ w.attribute = TRUE => w.next = "refresh"
    /\ w.pc = "commit" /\ w.attribute = FALSE
          => "score" \notin DOMAIN w.row /\ ~Completing(w.row)
    /\ w.pc \in {"delete", "insert"} => w.score = row.score /\ w.attribute = TRUE

SkillSound ==
    /\ SkillAgrees \/ AttributionDue
    /\ \A r \in Requests : ScoreSound(request[r])

\* A request that is not about to write, delete or insert.
LEMMA ScoreSoundElsewhere ==
    ASSUME NEW w, w.pc \notin {"commit", "delete", "insert"}
    PROVE  ScoreSound(w)
BY DEF ScoreSound

LEMMA BeginSkill ==
    ASSUME TypeOK, SkillSound, NEW r \in Requests, NEW e, NEW w,
           ScoreSound(w), Begin(r, e, w)
    PROVE  SkillSound'
<1>1. UNCHANGED <<row, skill>> /\ ~Attributing(request[r])
    BY IdleSound DEF Begin
<1>2. \A q \in Requests : request'[q] = IF q = r THEN w ELSE request[q]
    BY DEF Begin, TypeOK
<1>3. \A q \in Requests : ScoreSound(request[q])'
    BY <1>1, <1>2 DEF SkillSound, ScoreSound, Completing
<1>4. AttributionDue => AttributionDue'
    BY <1>1, <1>2 DEF AttributionDue, Attributing
<1> QED BY <1>1, <1>3, <1>4 DEF SkillSound, SkillAgrees

\* A later step of r, which is sound and leaves an attribution due if it was,
\* unless the record agrees.
LEMMA ContinueSkill ==
    ASSUME TypeOK, SkillSound, NEW r \in Requests, NEW w, UNCHANGED row,
           request' = [request EXCEPT ![r] = w], ScoreSound(w),
           \/ SkillAgrees'
           \/ UNCHANGED skill /\ (Attributing(request[r]) => Attributing(w))
    PROVE  SkillSound'
<1>1. \A q \in Requests : request'[q] = IF q = r THEN w ELSE request[q]
    BY DEF TypeOK
<1>2. \A q \in Requests : ScoreSound(request[q])'
    BY <1>1 DEF SkillSound, ScoreSound, Completing
<1>3. CASE SkillAgrees'
    BY <1>2, <1>3 DEF SkillSound
<1>4. CASE UNCHANGED skill /\ (Attributing(request[r]) => Attributing(w))
    <2>1. AttributionDue => AttributionDue'
        BY <1>1, <1>4 DEF AttributionDue, Attributing
    <2> QED BY <1>2, <1>4, <2>1 DEF SkillSound, SkillAgrees
<1> QED BY <1>3, <1>4

LEMMA CommitSkill ==
    ASSUME TypeOK, SkillSound, AttributionsAlone, NEW r \in Requests, Commit(r)
    PROVE  SkillSound'
<1> DEFINE w == request[r]
           next == IF w.next = "idle" THEN Idle ELSE [w EXCEPT !.pc = w.next, !.row = NoChange]
<1>1. w.pc = "commit" /\ UNCHANGED skill /\ ScoreSound(w) /\ row' = Flush(row, w.row)
    BY DEF Commit, SkillSound
<1>2. \A q \in Requests : request'[q] = IF q = r THEN next ELSE request[q]
    BY DEF Commit, Continue, TypeOK
<1>3. /\ next.pc = w.next
      /\ w.next # "idle" => next.attribute = w.attribute
      /\ w.next \in {"idle", "refresh", "invalidate"}
    <2>1. w.next \in {"idle", "refresh", "invalidate"}
        BY DEF TypeOK, RequestOK
    <2>2. CASE w.next = "idle"
        BY <2>2 DEF Idle
    <2>3. CASE w.next # "idle"
        <3>1. next = [w EXCEPT !.pc = w.next, !.row = NoChange]
            BY <2>3
        <3>2. /\ [w EXCEPT !.pc = w.next, !.row = NoChange].pc = w.next
              /\ [w EXCEPT !.pc = w.next, !.row = NoChange].attribute = w.attribute
            OBVIOUS
        <3> HIDE DEF next
        <3> QED BY <2>1, <3>1, <3>2
    <2> QED BY <2>1, <2>2, <2>3
<1>4. DOMAIN row = RowColumn /\ {"status", "score"} \subseteq RowColumn /\ w.attribute \in BOOLEAN
    BY DEF TypeOK, RequestOK, RowColumn
<1> HIDE DEF next
<1>5. CASE w.attribute = TRUE
    <2>1. Attributing(request'[r])
        BY <1>1, <1>2, <1>3, <1>5 DEF ScoreSound, Attributing
    <2>2. \A q \in Requests : request[q].pc \notin {"delete", "insert"}
        BY <1>1, <1>5 DEF AttributionsAlone
    <2>3. \A q \in Requests : ScoreSound(request[q])'
        BY <1>2, <1>3, <2>2 DEF SkillSound, ScoreSound, Completing
    <2> QED BY <2>1, <2>3 DEF SkillSound, AttributionDue, Attributing
<1>6. CASE w.attribute = FALSE
    <2>1. row'.score = row.score /\ (row'.status = "completed" => row.status = "completed")
        BY <1>1, <1>4, <1>6 DEF ScoreSound, Completing, Flush
    <2>2. \A q \in Requests : ScoreSound(request[q])'
        BY <1>2, <1>3, <2>1 DEF SkillSound, ScoreSound, Completing
    <2>3. AttributionDue => AttributionDue'
        BY <1>1, <1>2 DEF AttributionDue, Attributing
    <2> QED BY <1>1, <2>1, <2>2, <2>3 DEF SkillSound, SkillAgrees
<1> QED BY <1>4, <1>5, <1>6

LEMMA RefreshSkill ==
    ASSUME TypeOK, SkillSound, NEW r \in Requests, Refresh(r)
    PROVE  SkillSound'
<1> DEFINE changed == request[r].endpoint # "save_activity" \/ row.status # request[r].old
           w == [request[r] EXCEPT !.score = row.score, !.invalidate = changed]
           attributes == request[r].attribute /\ row.status = "completed"
           next == IF attributes THEN [w EXCEPT !.pc = "delete"] ELSE Rest(w)
<1>1. /\ request[r].pc = "refresh" /\ request[r].attribute \in BOOLEAN
      /\ w.attribute = request[r].attribute /\ w.pc = "refresh"
      /\ w.score = row.score
    BY DEF Refresh, TypeOK, RequestOK
<1>2. UNCHANGED <<row, skill>> /\ request' = [request EXCEPT ![r] = next]
    BY <1>1 DEF Refresh, Continue
<1>3. CASE attributes
    <2>1. next = [w EXCEPT !.pc = "delete"]
        BY <1>3
    <2>2. next.pc = "delete" /\ next.attribute = TRUE /\ next.score = row.score
        BY <1>1, <1>3, <2>1 DEF TypeOK, RequestOK
    <2> HIDE DEF next
    <2>3. ScoreSound(next) /\ Attributing(next)
        BY <2>2 DEF ScoreSound, Attributing
    <2> QED BY <1>2, <2>3, ContinueSkill
<1>4. CASE ~attributes
    <2>1. next = Rest(w)
        BY <1>4
    <2>2. Rest(w).pc \in {"idle", "invalidate"}
        BY DEF Rest, Idle, TypeOK, RequestOK
    <2>3. ScoreSound(next)
        BY <2>1, <2>2, ScoreSoundElsewhere
    <2> HIDE DEF next
    <2>4. SkillAgrees' \/ ~Attributing(request[r])
        BY <1>1, <1>2, <1>4 DEF SkillAgrees, Attributing
    <2> QED BY <1>2, <2>3, <2>4, ContinueSkill
<1> QED BY <1>3, <1>4

LEMMA AttributeDeleteSkill ==
    ASSUME TypeOK, SkillSound, NEW r \in Requests, AttributeDelete(r)
    PROVE  SkillSound'
<1> DEFINE next == [request[r] EXCEPT !.pc = "insert"]
<1>1. /\ next.pc = "insert" /\ next.score = request[r].score
      /\ next.attribute = request[r].attribute
    BY DEF TypeOK, RequestOK
<1>2. request[r].pc = "delete" /\ UNCHANGED <<row, skill>>
      /\ request' = [request EXCEPT ![r] = next]
    BY DEF AttributeDelete, Continue
<1>3. request[r].score = row.score /\ request[r].attribute = TRUE
    BY <1>2 DEF SkillSound, ScoreSound
<1> HIDE DEF next
<1>4. ScoreSound(next) /\ Attributing(next)
    BY <1>1, <1>3 DEF ScoreSound, Attributing
<1> QED BY <1>2, <1>4, ContinueSkill

\* The insert makes the record agree: the other one in the open, if any, fails.
LEMMA AttributeInsertSkill ==
    ASSUME TypeOK, SkillSound, NEW r \in Requests, AttributeInsert(r)
    PROVE  SkillSound'
<1>1. request[r].score = row.score /\ UNCHANGED row /\ skill' = OrZero(request[r].score)
    BY DEF AttributeInsert, SkillSound, ScoreSound
<1>2. SkillAgrees'
    BY <1>1 DEF SkillAgrees
<1>3. ASSUME NEW q \in Requests PROVE ScoreSound(request'[q])
    <2>1. Rest(request[r]).pc \in {"idle", "invalidate"}
        BY DEF Rest, Idle, TypeOK, RequestOK
    <2>2. CASE q = r
        BY <2>1, <2>2, ScoreSoundElsewhere DEF AttributeInsert
    <2>3. CASE q # r /\ request[q].pc = "insert"
        <3>1. request'[q] = [request[q] EXCEPT !.pc = "conflict"]
            BY <2>3 DEF AttributeInsert
        <3>2. request'[q].pc = "conflict"
            BY <3>1 DEF TypeOK, RequestOK
        <3> QED BY <3>2, ScoreSoundElsewhere
    <2>4. CASE q # r /\ request[q].pc # "insert"
        BY <2>4 DEF AttributeInsert, SkillSound
    <2> QED BY <2>2, <2>3, <2>4
<1>4. \A q \in Requests : ScoreSound(request[q])'
    BY <1>1, <1>3 DEF ScoreSound, Completing
<1> QED BY <1>2, <1>4 DEF SkillSound

\* A request that ends, or has its invalidation left.
LEMMA EndSkill ==
    ASSUME TypeOK, SkillSound, NEW r \in Requests,
           AttributionFails(r) \/ Invalidate(r) \/ FillListing(r)
    PROVE  SkillSound'
<1>1. Idle.pc = "idle" /\ Rest(request[r]).pc \in {"idle", "invalidate"}
    BY DEF Rest, Idle, TypeOK, RequestOK
<1>2. PICK w : w.pc \in {"idle", "invalidate"} /\ request' = [request EXCEPT ![r] = w]
    BY <1>1 DEF AttributionFails, Invalidate, FillListing, Continue
<1>3. UNCHANGED <<row, skill>> /\ ~Attributing(request[r])
    BY DEF AttributionFails, Invalidate, FillListing, Attributing
<1> QED BY <1>2, <1>3, ScoreSoundElsewhere, ContinueSkill

\* The write sets: an unfinished save keeps the score it loaded.
LEMMA UnfinishedKeepsScore ==
    ASSUME NEW d
    PROVE  "score" \notin DOMAIN Changes(row, [c \in DOMAIN SavedRow(d, FALSE) \ Untouched(FALSE)
                                                 |-> SavedRow(d, FALSE)[c]])
<1> DEFINE saved == SavedRow(d, FALSE)
           part == [c \in DOMAIN saved \ Untouched(FALSE) |-> saved[c]]
<1>1. saved.score = row.score
    BY DEF SavedRow
<1> HIDE DEF saved
<1>2. "score" \in DOMAIN part => part["score"] = row.score
    BY <1>1
<1> HIDE DEF part
<1>3. "score" \notin DOMAIN Changes(row, part)
    BY <1>2 DEF Changes, Timestamps
<1> QED BY <1>3 DEF part, saved

LEMMA OpeningKeepsScore == "score" \notin DOMAIN Opening
BY DEF Opening, NoChange

LEMMA OtherKeepsScore ==
    ASSUME NEW w, "score" \notin DOMAIN w
    PROVE  "score" \notin DOMAIN Changes(row, w)
BY DEF Changes

\* A write set that neither scores nor completes, and one that attributes.
LEMMA KeepingScoreSound ==
    ASSUME NEW w, w.pc = "commit", w.attribute = FALSE,
           "score" \notin DOMAIN w.row, ~Completing(w.row)
    PROVE  ScoreSound(w)
BY DEF ScoreSound

LEMMA AttributingScoreSound ==
    ASSUME NEW w, w.pc = "commit", w.next = "refresh", w.attribute = TRUE
    PROVE  ScoreSound(w)
BY DEF ScoreSound

LEMMA NextSkill ==
    ASSUME "grade" \notin Endpoints, TypeOK, SkillSound, AttributionsAlone, [Next]_vars
    PROVE  SkillSound'
<1>1. ASSUME NEW r \in Requests, Start(r) \/ StartMulti(r) PROVE SkillSound'
    <2>1. PICK w, e : /\ w.row = Opening /\ w.pc = "commit" /\ w.attribute = FALSE
                      /\ Begin(r, e, w)
        BY <1>1 DEF Start, StartMulti, Idle
    <2> QED BY <2>1, OpeningCompletesNothing, OpeningKeepsScore, KeepingScoreSound, BeginSkill
<1>2. ASSUME NEW r \in Requests, NEW d \in Answers, SaveProgress(r, d) PROVE SkillSound'
    <2>1. PICK w : /\ w.row = Changes(row, [progress_json |-> d]) /\ w.pc = "commit"
                   /\ w.attribute = FALSE /\ Begin(r, "save_progress", w)
        BY <1>2 DEF SaveProgress, Idle
    <2>2. "score" \notin DOMAIN w.row /\ ~Completing(w.row)
        BY <2>1, OtherCompletesNothing, OtherKeepsScore
    <2> QED BY <2>1, <2>2, KeepingScoreSound, BeginSkill
<1>3. ASSUME NEW r \in Requests, NEW d \in Answers, NEW finished \in BOOLEAN,
             SaveActivityProgress(r, d, finished)
      PROVE  SkillSound'
    <2> DEFINE u == Changes(row, [c \in DOMAIN SavedRow(d, finished) \ Untouched(finished)
                                    |-> SavedRow(d, finished)[c]])
    <2>1. PICK w : /\ w.row = u /\ w.pc = "commit" /\ w.next = "refresh" /\ w.attribute = finished
                   /\ Begin(r, "save_activity", w)
        BY <1>3 DEF SaveActivityProgress, Idle
    <2>2. finished = FALSE => ~Completing(u) /\ "score" \notin DOMAIN u
        BY UnfinishedCompletesNothing, UnfinishedKeepsScore
    <2> HIDE DEF u
    <2>3. ScoreSound(w)
        BY <2>1, <2>2, KeepingScoreSound, AttributingScoreSound
    <2> QED BY <2>1, <2>3, BeginSkill
<1>4. ASSUME NEW r \in Requests,
             \/ \E d \in Answers : Submit(r, d)
             \/ \E d \in Sent, force \in BOOLEAN : SubmitMulti(r, d, force)
      PROVE  SkillSound'
    <2>1. PICK e, w : /\ w.pc = "commit" /\ w.next = "refresh" /\ w.attribute = TRUE
                      /\ Begin(r, e, w)
        BY <1>4 DEF Submit, SubmitMulti, Idle
    <2> QED BY <2>1, AttributingScoreSound, BeginSkill
<1>5. ASSUME NEW r \in Requests, NEW d \in Sent, ResubmitMulti(r, d) PROVE SkillSound'
    <2> DEFINE found == IF d # NoAnswers THEN d ELSE row.progress_json
               u == IF row.answers_json = NoAnswers
                    THEN Changes(row, [answers_json |-> found]) ELSE NoChange
    <2>1. ~Completing(u) /\ "score" \notin DOMAIN u
        BY OtherCompletesNothing, OtherKeepsScore DEF NoChange, Completing
    <2>2. PICK w : /\ w.row = u /\ w.pc = "commit" /\ w.attribute = FALSE
                   /\ Begin(r, "submit_multi", w)
        BY <1>5 DEF ResubmitMulti, Idle
    <2> HIDE DEF u
    <2> QED BY <2>1, <2>2, KeepingScoreSound, BeginSkill
<1>6. ASSUME NEW r \in Requests, NEW p \in Grades PROVE ~Grade(r, p)
    BY DEF Grade, Begin
<1>7. ASSUME NEW r \in Requests, ListAssignments(r) PROVE SkillSound'
    <2>1. PICK w : w.pc = "fill" /\ Begin(r, "list", w)
        BY <1>7 DEF ListAssignments, Idle
    <2> QED BY <2>1, ScoreSoundElsewhere, BeginSkill
<1>8. ASSUME NEW r \in Requests, Commit(r) PROVE SkillSound'
    BY <1>8, CommitSkill
<1>9. ASSUME NEW r \in Requests, LaterStep(r) PROVE SkillSound'
    BY <1>9, RefreshSkill, AttributeDeleteSkill, AttributeInsertSkill, EndSkill DEF LaterStep
<1>10. CASE UNCHANGED <<row, skill, request>>
    BY <1>10 DEF SkillSound, SkillAgrees, AttributionDue, Attributing, ScoreSound, Completing
<1> QED BY <1>1, <1>2, <1>3, <1>4, <1>5, <1>6, <1>7, <1>8, <1>9, <1>10
        DEF Next, LaterStep, ExpireListing, vars

LEMMA InitSkill == Init => SkillSound
BY DEF Init, SkillSound, SkillAgrees, ScoreSound, Idle

\* As long as no completion commits between another one's refresh and its
\* insert, and no teacher grades, a completed submission counts for its skill
\* with its own score once no request is in flight, whatever else overlaps.
THEOREM SkillStaysMatched ==
    "grade" \notin Endpoints /\ Spec /\ []AttributionsAlone => []SkillMatchesScore
<1>1. SkillSound => SkillMatchesScore
    BY IdleSound DEF SkillSound, SkillAgrees, AttributionDue, SkillMatchesScore, Quiet
<1>2. CASE "grade" \notin Endpoints
    <2>1. TypeOK /\ SkillSound /\ AttributionsAlone /\ [Next]_vars => TypeOK' /\ SkillSound'
        BY <1>2, NextType, NextSkill
    <2> QED BY <1>1, <2>1, InitType, InitSkill, PTL DEF Spec
<1>3. CASE "grade" \in Endpoints
    BY <1>3
<1> QED BY <1>2, <1>3

-------------------------------------------------------------------------------
(***************************************************************************)
(* The cached list, under ListsAlone: no list is read and cached around a  *)
(* commit.  Commits, attributions and invalidations may overlap.  The list *)
(* may be out of date while an invalidation is due, and every write that   *)
(* shows in it makes one due: save_activity_progress as well, although it  *)
(* compares with the status it loaded, and although a failed attribution   *)
(* ends it early.                                                          *)
(***************************************************************************)
ListsAlone == \A q, r \in Requests : ~(request[q].pc = "commit" /\ request[r].pc = "fill")

\* w is going to invalidate the list.
Invalidating(w) ==
    \/ w.pc \in {"delete", "insert", "invalidate"}
    \/ w.pc = "refresh" /\ (w.endpoint # "save_activity" \/ row.status # w.old)

InvalidationDue == \E r \in Requests : Invalidating(request[r])

\* What the write set of w changes in the list, w invalidates.
Announced(w) ==
    \/ "status" \notin DOMAIN w.row /\ "score" \notin DOMAIN w.row
    \/ w.next = "invalidate"
    \/ /\ w.next = "refresh"
       /\ \/ w.endpoint # "save_activity"
          \/ "status" \in DOMAIN w.row /\ w.row.status # w.old

RequestListed(w) ==
    /\ w.pc = "commit" => Announced(w)
    /\ w.pc \in {"commit", "refresh"} /\ w.attribute = TRUE
          => w.endpoint # "save_activity" \/ w.old # "completed"
    /\ w.pc \in {"delete", "insert"} => w.invalidate = TRUE
    /\ w.pc = "fill" => w.entry = ListView(row, "published")

ListingSound ==
    /\ listing \in {NotCached, ListView(row, "published")} \/ InvalidationDue
    /\ \A r \in Requests : RequestListed(request[r])

LEMMA ListedElsewhere ==
    ASSUME NEW w, w.pc \notin {"commit", "refresh", "delete", "insert", "fill"}
    PROVE  RequestListed(w)
BY DEF RequestListed

LEMMA BeginListing ==
    ASSUME TypeOK, ListingSound, NEW r \in Requests, NEW e, NEW w,
           RequestListed(w), Begin(r, e, w)
    PROVE  ListingSound'
<1>1. UNCHANGED <<row, listing>> /\ ~Invalidating(request[r])
    BY DEF Begin, Invalidating, Idle
<1>2. \A q \in Requests : request'[q] = IF q = r THEN w ELSE request[q]
    BY DEF Begin, TypeOK
<1>3. \A q \in Requests : RequestListed(request[q])'
    BY <1>1, <1>2 DEF ListingSound, RequestListed, Announced
<1>4. InvalidationDue => InvalidationDue'
    BY <1>1, <1>2 DEF InvalidationDue, Invalidating
<1> QED BY <1>1, <1>3, <1>4 DEF ListingSound

\* A later step of r leaves a list that is fresh, or the one there was and an
\* invalidation due if it was.
LEMMA ContinueListing ==
    ASSUME TypeOK, ListingSound, NEW r \in Requests, NEW w, UNCHANGED row,
           request' = [request EXCEPT ![r] = w], RequestListed(w),
           \/ listing' \in {NotCached, ListView(row, "published")}
           \/ UNCHANGED listing /\ (Invalidating(request[r]) => Invalidating(w))
    PROVE  ListingSound'
<1>1. \A q \in Requests : request'[q] = IF q = r THEN w ELSE request[q]
    BY DEF TypeOK
<1>2. \A q \in Requests : RequestListed(request[q])'
    BY <1>1 DEF ListingSound, RequestListed, Announced
<1>3. CASE listing' \in {NotCached, ListView(row, "published")}
    BY <1>2, <1>3 DEF ListingSound
<1>4. CASE UNCHANGED listing /\ (Invalidating(request[r]) => Invalidating(w))
    <2>1. InvalidationDue => InvalidationDue'
        BY <1>1, <1>4 DEF InvalidationDue, Invalidating
    <2> QED BY <1>2, <1>4, <2>1 DEF ListingSound
<1> QED BY <1>3, <1>4

LEMMA CommitListing ==
    ASSUME TypeOK, ListingSound, ListsAlone, NEW r \in Requests, Commit(r)
    PROVE  ListingSound'
<1> DEFINE w == request[r]
           next == IF w.next = "idle" THEN Idle ELSE [w EXCEPT !.pc = w.next, !.row = NoChange]
<1>1. w.pc = "commit" /\ UNCHANGED listing /\ RequestListed(w) /\ row' = Flush(row, w.row)
    BY DEF Commit, ListingSound
<1>2. \A q \in Requests : request'[q] = IF q = r THEN next ELSE request[q]
    BY DEF Commit, Continue, TypeOK
<1>3. w.next \in {"idle", "refresh", "invalidate"}
    BY DEF TypeOK, RequestOK
<1>4. /\ next.pc = w.next
      /\ w.next # "idle" => /\ next.attribute = w.attribute
                            /\ next.endpoint = w.endpoint
                            /\ next.old = w.old
    <2>1. CASE w.next = "idle"
        BY <2>1 DEF Idle
    <2>2. CASE w.next # "idle"
        <3>1. next = [w EXCEPT !.pc = w.next, !.row = NoChange]
            BY <2>2
        <3>2. /\ [w EXCEPT !.pc = w.next, !.row = NoChange].pc = w.next
              /\ [w EXCEPT !.pc = w.next, !.row = NoChange].attribute = w.attribute
              /\ [w EXCEPT !.pc = w.next, !.row = NoChange].endpoint = w.endpoint
              /\ [w EXCEPT !.pc = w.next, !.row = NoChange].old = w.old
            OBVIOUS
        <3> HIDE DEF next
        <3> QED BY <3>1, <3>2
    <2> QED BY <2>1, <2>2
<1> HIDE DEF next
<1>5. DOMAIN row = RowColumn /\ {"status", "score"} \subseteq RowColumn
    BY DEF TypeOK, RowColumn
<1>6. \A q \in Requests : request[q].pc # "fill"
    BY <1>1 DEF ListsAlone
<1>7. ASSUME NEW q \in Requests PROVE RequestListed(request[q])'
    <2>1. CASE q = r
        <3>1. next.pc \in {"refresh", "idle", "invalidate"}
            BY <1>3, <1>4
        <3>2. RequestListed(next)
            BY <1>1, <1>4, <3>1 DEF RequestListed
        <3> QED BY <1>2, <2>1, <3>1, <3>2 DEF RequestListed
    <2>2. CASE q # r
        BY <1>2, <1>6, <2>2 DEF ListingSound, RequestListed, Announced
    <2> QED BY <2>1, <2>2
<1>8. CASE "status" \notin DOMAIN w.row /\ "score" \notin DOMAIN w.row
    <2>1. row'.status = row.status /\ row'.score = row.score
        BY <1>1, <1>5, <1>8 DEF Flush
    <2>2. ListView(row', "published") = ListView(row, "published")
        BY <2>1 DEF ListView
    <2>3. ~Invalidating(request[r])
        BY <1>1 DEF Invalidating
    <2>4. InvalidationDue => InvalidationDue'
        BY <1>2, <2>1, <2>3 DEF InvalidationDue, Invalidating
    <2> QED BY <1>1, <1>7, <2>2, <2>4 DEF ListingSound
<1>9. CASE ~("status" \notin DOMAIN w.row /\ "score" \notin DOMAIN w.row)
    <2>1. \/ w.next = "invalidate"
          \/ w.next = "refresh" /\ (w.endpoint # "save_activity" \/ row'.status # w.old)
        BY <1>1, <1>5, <1>9 DEF RequestListed, Announced, Flush
    <2>2. \/ request'[r].pc = "invalidate"
          \/ /\ request'[r].pc = "refresh"
             /\ request'[r].endpoint # "save_activity" \/ row'.status # request'[r].old
        BY <1>2, <1>4, <2>1
    <2>3. InvalidationDue'
        BY <2>2 DEF InvalidationDue, Invalidating
    <2> QED BY <1>7, <2>3 DEF ListingSound
<1> QED BY <1>8, <1>9

\* A request that saw a change, or is going to attribute, invalidates.
LEMMA RefreshListing ==
    ASSUME TypeOK, ListingSound, NEW r \in Requests, Refresh(r)
    PROVE  ListingSound'
<1> DEFINE changed == request[r].endpoint # "save_activity" \/ row.status # request[r].old
           w == [request[r] EXCEPT !.score = row.score, !.invalidate = changed]
           attributes == request[r].attribute /\ row.status = "completed"
           next == IF attributes THEN [w EXCEPT !.pc = "delete"] ELSE Rest(w)
<1>1. /\ request[r].pc = "refresh" /\ request[r].attribute \in BOOLEAN
      /\ w.attribute = request[r].attribute /\ w.invalidate = changed
    BY DEF Refresh, TypeOK, RequestOK
<1>2. UNCHANGED <<row, listing>> /\ request' = [request EXCEPT ![r] = next]
    BY <1>1 DEF Refresh, Continue
<1>3. CASE attributes
    <2>1. changed = TRUE
        BY <1>1, <1>3 DEF ListingSound, RequestListed
    <2>2. next = [w EXCEPT !.pc = "delete"]
        BY <1>3
    <2>3. \A v : [v EXCEPT !.pc = "delete"].pc = "delete"
               /\ [v EXCEPT !.pc = "delete"].invalidate = v.invalidate
        OBVIOUS
    <2> HIDE DEF w, next
    <2>4. next.pc = "delete" /\ next.invalidate = TRUE
        BY <1>1, <2>1, <2>2, <2>3
    <2>5. RequestListed(next) /\ Invalidating(next)
        BY <2>4 DEF RequestListed, Invalidating
    <2> QED BY <1>2, <2>5, ContinueListing
<1>4. CASE ~attributes
    <2>1. next = Rest(w)
        BY <1>4
    <2>2. Rest(w).pc = IF changed THEN "invalidate" ELSE "idle"
        <3>1. \A v : Rest(v).pc = IF v.invalidate THEN "invalidate" ELSE "idle"
            BY DEF Rest, Idle
        <3> HIDE DEF w
        <3> QED BY <1>1, <3>1
    <2>3. RequestListed(next)
        BY <2>1, <2>2, ListedElsewhere
    <2>4. Invalidating(request[r]) => changed
        BY <1>1 DEF Invalidating
    <2>5. Invalidating(request[r]) => Invalidating(next)
        BY <2>1, <2>2, <2>4 DEF Invalidating
    <2> HIDE DEF next
    <2> QED BY <1>2, <2>3, <2>5, ContinueListing
<1> QED BY <1>3, <1>4

LEMMA AttributeDeleteListing ==
    ASSUME TypeOK, ListingSound, NEW r \in Requests, AttributeDelete(r)
    PROVE  ListingSound'
<1> DEFINE next == [request[r] EXCEPT !.pc = "insert"]
<1>1. next.pc = "insert" /\ next.invalidate = request[r].invalidate
    OBVIOUS
<1>2. request[r].pc = "delete" /\ UNCHANGED <<row, listing>>
      /\ request' = [request EXCEPT ![r] = next]
    BY DEF AttributeDelete, Continue
<1>3. request[r].invalidate = TRUE
    BY <1>2 DEF ListingSound, RequestListed
<1> HIDE DEF next
<1>4. RequestListed(next) /\ Invalidating(next)
    BY <1>1, <1>3 DEF RequestListed, Invalidating
<1> QED BY <1>2, <1>4, ContinueListing

\* The request whose insert succeeds invalidates, also for those that fail.
LEMMA AttributeInsertListing ==
    ASSUME TypeOK, ListingSound, NEW r \in Requests, AttributeInsert(r)
    PROVE  ListingSound'
<1>1. request[r].invalidate = TRUE /\ UNCHANGED <<row, listing>>
    BY DEF AttributeInsert, ListingSound, RequestListed
<1>2. Rest(request[r]).pc = "invalidate"
    BY <1>1 DEF Rest
<1>3. request'[r].pc = "invalidate"
    BY <1>2 DEF AttributeInsert
<1>4. ASSUME NEW q \in Requests PROVE RequestListed(request'[q])
    <2>1. CASE q = r
        BY <1>3, <2>1, ListedElsewhere
    <2>2. CASE q # r /\ request[q].pc = "insert"
        <3>1. request'[q] = [request[q] EXCEPT !.pc = "conflict"]
            BY <2>2 DEF AttributeInsert
        <3>2. request'[q].pc = "conflict"
            BY <3>1
        <3> QED BY <3>2, ListedElsewhere
    <2>3. CASE q # r /\ request[q].pc # "insert"
        BY <2>3 DEF AttributeInsert, ListingSound
    <2> QED BY <2>1, <2>2, <2>3
<1>5. \A q \in Requests : RequestListed(request[q])'
    BY <1>1, <1>4 DEF RequestListed, Announced
<1> QED BY <1>3, <1>5 DEF ListingSound, InvalidationDue, Invalidating

LEMMA EndListing ==
    ASSUME TypeOK, ListingSound, NEW r \in Requests,
           AttributionFails(r) \/ Invalidate(r) \/ FillListing(r)
    PROVE  ListingSound'
<1>1. Idle.pc = "idle" /\ Rest(request[r]).pc \in {"idle", "invalidate"}
    BY DEF Rest, Idle
<1>2. PICK w : w.pc \in {"idle", "invalidate"} /\ request' = [request EXCEPT ![r] = w]
    BY <1>1 DEF AttributionFails, Invalidate, FillListing, Continue
<1>3. UNCHANGED row
    BY DEF AttributionFails, Invalidate, FillListing
<1>4. \/ listing' \in {NotCached, ListView(row, "published")}
      \/ UNCHANGED listing /\ ~Invalidating(request[r])
    BY DEF AttributionFails, Invalidate, FillListing, ListingSound, RequestListed, Invalidating
<1> QED BY <1>2, <1>3, <1>4, ListedElsewhere, ContinueListing

\* The write sets.
LEMMA UnlistedWrite ==
    ASSUME NEW w, w.pc = "commit", w.attribute = FALSE,
           "status" \notin DOMAIN w.row, "score" \notin DOMAIN w.row
    PROVE  RequestListed(w)
BY DEF RequestListed, Announced

LEMMA InvalidatedWrite ==
    ASSUME NEW w, w.pc = "commit", w.attribute = FALSE, w.next = "invalidate"
    PROVE  RequestListed(w)
BY DEF RequestListed, Announced

LEMMA RefreshedWrite ==
    ASSUME NEW w, w.pc = "commit", w.next = "refresh", w.endpoint # "save_activity"
    PROVE  RequestListed(w)
BY DEF RequestListed, Announced

\* A save that finishes changes the status; one that does not changes the
\* status or nothing of the list.
LEMMA SavedWrite ==
    ASSUME NEW d, NEW finished \in BOOLEAN, row.status = "completed" => ~finished,
           NEW w, w.pc = "commit", w.next = "refresh", w.attribute = finished, w.old = row.status,
           w.row = Changes(row, [c \in DOMAIN SavedRow(d, finished) \ Untouched(finished)
                                   |-> SavedRow(d, finished)[c]])
    PROVE  RequestListed(w)
<1> DEFINE saved == SavedRow(d, finished)
           part == [c \in DOMAIN saved \ Untouched(finished) |-> saved[c]]
<1>1. /\ "status" \in DOMAIN saved
      /\ saved.status = IF finished THEN "completed" ELSE "in_progress"
      /\ ~finished => saved.score = row.score
    BY DEF SavedRow
<1>2. "status" \notin Untouched(finished)
    BY DEF Untouched
<1> HIDE DEF saved
<1>3. /\ "status" \in DOMAIN part /\ part["status"] = saved.status
      /\ "score" \in DOMAIN part => part["score"] = saved.score
    BY <1>1, <1>2
<1>4. w.row = Changes(row, part)
    BY DEF saved
<1> HIDE DEF part
<1>5. /\ "status" \in DOMAIN w.row <=> saved.status # row.status
      /\ "status" \in DOMAIN w.row => w.row["status"] = saved.status
      /\ ~finished => "score" \notin DOMAIN w.row
    BY <1>1, <1>3, <1>4 DEF Changes, Timestamps
<1>6. Announced(w)
    BY <1>1, <1>5 DEF Announced
<1> QED BY <1>6 DEF RequestListed

LEMMA NextListing ==
    ASSUME "start" \notin Endpoints, TypeOK, ListingSound, ListsAlone, [Next]_vars
    PROVE  ListingSound'
<1>1. ASSUME NEW r \in Requests PROVE ~Start(r)
    BY DEF Start, Begin
<1>2. ASSUME NEW r \in Requests, StartMulti(r) PROVE ListingSound'
    <2>1. PICK w : /\ w.row = Opening /\ w.pc = "commit" /\ w.attribute = FALSE
                   /\ w.next = IF row.status = "not_started" THEN "invalidate" ELSE "idle"
                   /\ Begin(r, "start_multi", w)
        BY <1>2 DEF StartMulti, Idle
    <2>2. row.status # "not_started" => "status" \notin DOMAIN Opening
        BY DEF Opening, NoChange
    <2> QED BY <2>1, <2>2, OpeningKeepsScore, UnlistedWrite, InvalidatedWrite, BeginListing
<1>3. ASSUME NEW r \in Requests, NEW d \in Answers, SaveProgress(r, d) PROVE ListingSound'
    <2>1. PICK w : /\ w.row = Changes(row, [progress_json |-> d]) /\ w.pc = "commit"
                   /\ w.attribute = FALSE /\ Begin(r, "save_progress", w)
        BY <1>3 DEF SaveProgress, Idle
    <2>2. "status" \notin DOMAIN w.row /\ "score" \notin DOMAIN w.row
        BY <2>1 DEF Changes
    <2> QED BY <2>1, <2>2, UnlistedWrite, BeginListing
<1>4. ASSUME NEW r \in Requests, NEW d \in Answers, NEW finished \in BOOLEAN,
             SaveActivityProgress(r, d, finished)
      PROVE  ListingSound'
    <2>1. PICK w : /\ w.pc = "commit" /\ w.next = "refresh" /\ w.attribute = finished
                   /\ w.old = row.status
                   /\ w.row = Changes(row, [c \in DOMAIN SavedRow(d, finished) \ Untouched(finished)
                                              |-> SavedRow(d, finished)[c]])
                   /\ Begin(r, "save_activity", w)
        BY <1>4 DEF SaveActivityProgress, Idle
    <2>2. row.status = "completed" => ~finished
        BY <1>4 DEF SaveActivityProgress
    <2> QED BY <2>1, <2>2, SavedWrite, BeginListing
<1>5. ASSUME NEW r \in Requests,
             \/ \E d \in Answers : Submit(r, d)
             \/ \E d \in Sent, force \in BOOLEAN : SubmitMulti(r, d, force)
      PROVE  ListingSound'
    <2>1. PICK e, w : /\ w.pc = "commit" /\ w.next = "refresh" /\ w.endpoint # "save_activity"
                      /\ Begin(r, e, w)
        BY <1>5 DEF Submit, SubmitMulti, Idle
    <2> QED BY <2>1, RefreshedWrite, BeginListing
<1>6. ASSUME NEW r \in Requests, NEW d \in Sent, ResubmitMulti(r, d) PROVE ListingSound'
    <2> DEFINE found == IF d # NoAnswers THEN d ELSE row.progress_json
               u == IF row.answers_json = NoAnswers
                    THEN Changes(row, [answers_json |-> found]) ELSE NoChange
    <2>1. "status" \notin DOMAIN u /\ "score" \notin DOMAIN u
        BY DEF NoChange, Changes
    <2>2. PICK w : /\ w.row = u /\ w.pc = "commit" /\ w.attribute = FALSE
                   /\ Begin(r, "submit_multi", w)
        BY <1>6 DEF ResubmitMulti, Idle
    <2> HIDE DEF u
    <2> QED BY <2>1, <2>2, UnlistedWrite, BeginListing
<1>7. ASSUME NEW r \in Requests, NEW p \in Grades, Grade(r, p) PROVE ListingSound'
    <2>1. PICK w : /\ w.pc = "commit" /\ w.attribute = FALSE /\ w.next = "invalidate"
                   /\ Begin(r, "grade", w)
        BY <1>7 DEF Grade, Idle
    <2> QED BY <2>1, InvalidatedWrite, BeginListing
<1>8. ASSUME NEW r \in Requests, ListAssignments(r) PROVE ListingSound'
    <2>1. PICK w : /\ w.pc = "fill" /\ w.entry = ListView(row, "published")
                   /\ Begin(r, "list", w)
        BY <1>8 DEF ListAssignments, Idle
    <2>2. RequestListed(w)
        BY <2>1 DEF RequestListed
    <2> QED BY <2>1, <2>2, BeginListing
<1>9. ASSUME NEW r \in Requests, Commit(r) PROVE ListingSound'
    BY <1>9, CommitListing
<1>10. ASSUME NEW r \in Requests, LaterStep(r) PROVE ListingSound'
    BY <1>10, RefreshListing, AttributeDeleteListing, AttributeInsertListing, EndListing
       DEF LaterStep
<1>11. CASE ExpireListing \/ UNCHANGED vars
    BY <1>11 DEF ExpireListing, vars, ListingSound, InvalidationDue, Invalidating, RequestListed,
       Announced
<1> QED BY <1>1, <1>2, <1>3, <1>4, <1>5, <1>6, <1>7, <1>8, <1>9, <1>10, <1>11
        DEF Next, LaterStep

\* As long as no list is read and cached around a commit and the assignment is
\* not opened through the single-activity start, a cached list is fresh when no
\* request is in flight: however saves, submits, grades and attributions
\* overlap, and also when attributions fail on each other.
THEOREM ListingStaysFresh ==
    "start" \notin Endpoints /\ Spec /\ []ListsAlone => []ListingIsFresh
<1>1. Init => ListingSound
    BY DEF Init, ListingSound, RequestListed, Idle
<1>2. ListingSound => ListingIsFresh
    BY DEF ListingSound, ListingIsFresh, InvalidationDue, Invalidating, Quiet, Idle
<1>3. CASE "start" \notin Endpoints
    <2>1. TypeOK /\ ListingSound /\ ListsAlone /\ [Next]_vars => TypeOK' /\ ListingSound'
        BY <1>3, NextType, NextListing
    <2> QED BY <1>1, <1>2, <2>1, InitType, PTL DEF Spec
<1>4. CASE "start" \in Endpoints
    BY <1>4
<1> QED BY <1>3, <1>4
================================================================================
