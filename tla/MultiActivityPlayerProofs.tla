----------------------- MODULE MultiActivityPlayerProofs -----------------------
(***************************************************************************)
(* The safety properties of MultiActivityPlayer, for any number of         *)
(* activities, answers and calls in flight, and of a student who does not  *)
(* change answers the server holds as completed or while a call is in      *)
(* flight.  Calls may take longer than the interval and be lost.           *)
(*                                                                         *)
(* The argument: while a call is in flight the answers on the page do not  *)
(* change, so a save carries the answers the page still shows, and one     *)
(* that was answered "ok" has made the server's the same, also when the    *)
(* server dropped it.  A second navigation cannot break this: the page is  *)
(* then on an activity it came to while its answers were stored.           *)
(***************************************************************************)
EXTENDS MultiActivityPlayer, WellFoundedInduction, TLAPS

-------------------------------------------------------------------------------
(***************************************************************************)
(* The invariant.                                                          *)
(***************************************************************************)
CarefulStudent == "revise" \notin Habits /\ "type_ahead" \notin Habits

Same(i) == stored[i].data = local[i].data

CompletedHasAnswers ==
    \A i \in Index : /\ local[i].status = "completed" => local[i].data # NoAnswers
                     /\ stored[i].status = "completed" => stored[i].data # NoAnswers
                     /\ stored[i].status = "not_started" => stored[i].data = NoAnswers

OffScreenIsSame == \A i \in Index \ {index} : Same(i)

CompletedIsSame == \A i \in Index : stored[i].status = "completed" => Same(i)

\* What a save in flight says of the page and of the server.
SaveIsCurrent(c) ==
    /\ c.data = local[c.act].data
    /\ c.status \in {"in_progress", "completed"}
    /\ c.status = "completed" => c.data # NoAnswers
    /\ c.reply = "ok" => Same(c.act)
    /\ index # c.act => Same(index)
    /\ c.then = "submit" /\ ~c.force => AllCompleted(local)

\* What a submission in flight says: only the countdown's follows no save.
SubmitIsCurrent(c) ==
    /\ ~(expired /\ c.force) => Same(index)
    /\ ~c.force => AllCompleted(local)

CallsAreCurrent ==
    \A c \in calls : IF c.kind = "save" THEN SaveIsCurrent(c) ELSE SubmitIsCurrent(c)

Current == CompletedHasAnswers /\ OffScreenIsSame /\ CompletedIsSame /\ CallsAreCurrent

IInv == TypeOK /\ Current

-------------------------------------------------------------------------------
(***************************************************************************)
(* Types.                                                                  *)
(***************************************************************************)
LEMMA FirstIncompleteType ==
    ASSUME NEW recs
    PROVE  FirstIncomplete(recs) \in Index
<1> DEFINE T == {i \in Index : recs[i].status # "completed"}
<1>1. CASE T = {}
    BY <1>1, PlayerAssumption DEF FirstIncomplete, Index
<1>2. CASE T # {}
    <2>1. T \subseteq Nat
        BY PlayerAssumption DEF Index
    <2>2. PICK m \in T : \A k \in T : ~(<<k, m>> \in OpToRel(<, Nat))
        BY <1>2, <2>1, WFMin, NatLessThanWellFounded
    <2>3. \A k \in T : ~(k < m)
        BY <2>1, <2>2 DEF OpToRel
    <2>4. /\ m \in Index
          /\ recs[m].status # "completed"
          /\ \A k \in 1..(m - 1) : recs[k].status = "completed"
        BY <2>3, PlayerAssumption DEF Index
    <2> QED BY <2>4 DEF FirstIncomplete
<1> QED BY <1>1, <1>2

LEMMA SaveCallType ==
    ASSUME TypeOK, NEW to \in Index, NEW force \in BOOLEAN,
           NEW then \in {"interval", "navigate", "exit", "submit"}
    PROVE  SaveCall(then, to, force) \in Call
    BY DEF SaveCall, Call, TypeOK, Copy, Status

LEMMA SubmitCallType ==
    ASSUME TypeOK, NEW force \in BOOLEAN
    PROVE  SubmitCall(force) \in Call
    BY DEF SubmitCall, Call, TypeOK, Status, Payload

LEMMA MountedType ==
    ASSUME NEW copies \in [Index -> Copy], NEW i \in Index
    PROVE  /\ Mounted(copies, i) \in [Index -> Copy]
           /\ \A k \in Index : /\ Mounted(copies, i)[k].data = copies[k].data
                               /\ Mounted(copies, i)[k].status
                                    \in {copies[k].status, "completed"}
                               /\ Mounted(copies, i)[k].status # copies[k].status
                                    => copies[k].data # NoAnswers
    BY DEF Mounted, Copy, Status

LEMMA ReportedType ==
    ASSUME NEW copies \in [Index -> Copy], NEW i \in Index, NEW d \in Payload
    PROVE  Reported(copies, i, d) \in [Index -> Copy]
    BY DEF Reported, Copy, Status

LEMMA MarkedType ==
    ASSUME TypeOK, NEW c \in calls
    PROVE  /\ Marked(c) \in [Index -> Copy]
           /\ \A k \in Index : /\ Marked(c)[k].data = local[k].data
                               /\ Marked(c)[k].status = local[k].status
    BY DEF Marked, TypeOK, Call, Copy

LEMMA RestoredType ==
    ASSUME NEW recs \in [Index -> Record]
    PROVE  /\ Restored(recs) \in [Index -> Copy]
           /\ \A k \in Index : /\ Restored(recs)[k].data = recs[k].data
                               /\ Restored(recs)[k].status = recs[k].status
    BY DEF Restored, Record, Copy

LEMMA AnsweredType ==
    ASSUME TypeOK, NEW c \in calls, NEW reply \in {"ok", "refused", "closed", "lost"},
           Answered(c, reply)
    PROVE  calls' \in SUBSET Call
    BY DEF Answered, TypeOK, Call

LEMMA TypeInit == Init => TypeOK
<1> SUFFICES ASSUME Init PROVE TypeOK
    OBVIOUS
<1>1. stored \in [Index -> Record]
    BY DEF Init, Record, Status, Payload
<1>2. local \in [Index -> Copy]
    BY <1>1, RestoredType DEF Init
<1>3. index \in Index
    BY PlayerAssumption DEF Init, Index
<1>4. graded \in [Index -> Payload]
    BY DEF Init, Payload
<1> QED BY <1>1, <1>2, <1>3, <1>4 DEF Init, TypeOK

LEMMA TypeNext == TypeOK /\ [Next]_vars => TypeOK'
<1> SUFFICES ASSUME TypeOK, [Next]_vars PROVE TypeOK'
    OBVIOUS
<1>1. CASE Open
    <2>1. FirstIncomplete(stored) \in Index
        BY FirstIncompleteType
    <2>2. local' \in [Index -> Copy]
        BY <1>1, <2>1, RestoredType, MountedType DEF Open, TypeOK
    <2> QED BY <1>1, <2>1, <2>2 DEF Open, TypeOK
<1>2. ASSUME NEW d \in Answers, Answer(d) PROVE TypeOK'
    <2>1. local' \in [Index -> Copy]
        BY <1>2, ReportedType DEF Answer, TypeOK, Payload
    <2> QED BY <1>2, <2>1 DEF Answer, TypeOK, server
<1>3. ASSUME NEW to \in Index, Navigate(to) PROVE TypeOK'
    BY <1>3, SaveCallType DEF Navigate, TypeOK, server
<1>4. CASE SaveAndExit
    BY <1>4, SaveCallType DEF SaveAndExit, TypeOK, server
<1>5. CASE OpenDialog \/ CancelDialog
    BY <1>5 DEF OpenDialog, CancelDialog, TypeOK, server
<1>6. CASE ConfirmReset
    <2>1. local' \in [Index -> Copy]
        BY <1>6 DEF ConfirmReset, TypeOK, Copy, Status, Payload
    <2> QED BY <1>6, <2>1 DEF ConfirmReset, TypeOK, server
<1>7. CASE ConfirmSubmit
    <2>1. SaveCall("submit", index, ~AllCompleted(local)) \in Call
        BY SaveCallType DEF TypeOK, AllCompleted
    <2> QED BY <1>7, <2>1 DEF ConfirmSubmit, TypeOK, server
<1>8. CASE CloseTab
    <2>1. calls' \in SUBSET Call
        BY <1>8 DEF CloseTab, TypeOK, Call
    <2> QED BY <1>8, <2>1 DEF CloseTab, TypeOK, server
<1>9. CASE WalkAway
    BY <1>9 DEF WalkAway, TypeOK, server
<1>10. CASE AutoSave
    BY <1>10, SaveCallType DEF AutoSave, TypeOK, server
<1>11. CASE TimeExpired
    BY <1>11, SubmitCallType DEF TimeExpired, TypeOK, server
<1>12. ASSUME NEW c \in calls, ServeSave(c) PROVE TypeOK'
    <2>1. calls' \in SUBSET Call
        BY <1>12, AnsweredType DEF ServeSave
    <2>2. stored' \in [Index -> Record]
        BY <1>12 DEF ServeSave, TypeOK, Call, Record
    <2> QED BY <1>12, <2>1, <2>2 DEF ServeSave, TypeOK, session
<1>13. ASSUME NEW c \in calls, ServeSubmit(c) PROVE TypeOK'
    <2>1. calls' \in SUBSET Call
        BY <1>13, AnsweredType DEF ServeSubmit
    <2>2. graded' \in [Index -> Payload]
        BY <1>13 DEF ServeSubmit, TypeOK, Record
    <2> QED BY <1>13, <2>1, <2>2 DEF ServeSubmit, TypeOK, session
<1>14. ASSUME NEW c \in calls, Lose(c) PROVE TypeOK'
    <2>1. calls' \in SUBSET Call
        BY <1>14, AnsweredType DEF Lose
    <2> QED BY <1>14, <2>1 DEF Lose, TypeOK, session, server
<1>15. ASSUME NEW c \in calls, FinishSave(c) PROVE TypeOK'
    <2>1. c.to \in Index /\ c.force \in BOOLEAN
        BY DEF TypeOK, Call
    <2>2. local' \in [Index -> Copy]
        BY <1>15, <2>1, MarkedType, MountedType DEF FinishSave
    <2>3. calls' \in SUBSET Call
        BY <1>15, <2>1, SubmitCallType DEF FinishSave, TypeOK
    <2> QED BY <1>15, <2>1, <2>2, <2>3 DEF FinishSave, TypeOK, server
<1>16. ASSUME NEW c \in calls, FinishSubmit(c) PROVE TypeOK'
    BY <1>16 DEF FinishSubmit, TypeOK, server
<1>17. CASE UNCHANGED vars
    BY <1>17 DEF vars, TypeOK
<1> QED BY <1>1, <1>2, <1>3, <1>4, <1>5, <1>6, <1>7, <1>8, <1>9, <1>10, <1>11, <1>12,
           <1>13, <1>14, <1>15, <1>16, <1>17 DEF Next, Student, Network

\* What the page and the server hold, and the calls between them, keep their
\* types for any number of activities; in particular the page shows one of them.
THEOREM TypeCorrect == Spec => []TypeOK
<1> QED BY TypeInit, TypeNext, PTL DEF Spec

-------------------------------------------------------------------------------
(***************************************************************************)
(* Calls.                                                                  *)
(***************************************************************************)
LEMMA CallFields ==
    ASSUME TypeOK, NEW c \in calls
    PROVE  /\ c.kind \in {"save", "submit"}
           /\ c.act \in Index /\ c.to \in Index
           /\ c.force \in BOOLEAN
           /\ c.data \in Payload /\ c.status \in Status
           /\ c.kind = "save" /\ CallsAreCurrent => SaveIsCurrent(c)
           /\ c.kind = "submit" /\ CallsAreCurrent => SubmitIsCurrent(c)
    BY DEF TypeOK, Call, CallsAreCurrent

LEMMA NewSaveIsCurrent ==
    ASSUME IInv, NEW to, NEW force \in BOOLEAN,
           NEW then, then = "submit" /\ ~force => AllCompleted(local)
    PROVE  LET c == SaveCall(then, to, force) IN c.kind = "save" /\ SaveIsCurrent(c)
<1> DEFINE c == SaveCall(then, to, force)
<1>1. index \in Index
    BY DEF IInv, TypeOK
<1>2. /\ c.kind = "save" /\ c.act = index /\ c.data = local[index].data
      /\ c.reply = "none" /\ c.then = then /\ c.force = force
      /\ c.status \in {"in_progress", "completed"}
      /\ c.status = "completed" => local[index].status = "completed"
    BY DEF SaveCall
<1>3. local[index].status = "completed" => local[index].data # NoAnswers
    BY <1>1 DEF IInv, Current, CompletedHasAnswers
<1> HIDE DEF c
<1>4. SaveIsCurrent(c)
    BY <1>2, <1>3 DEF SaveIsCurrent
<1> QED BY <1>2, <1>4 DEF c

\* A step that sends a call and leaves activities and records alone.
LEMMA SendingKeepsCurrent ==
    ASSUME IInv, NEW c, calls' = calls \cup {c},
           UNCHANGED <<index, local, stored>>, expired => expired',
           c.kind = "save" => SaveIsCurrent(c),
           c.kind # "save" => SubmitIsCurrent(c)'
    PROVE  Current'
<1>1. CompletedHasAnswers' /\ OffScreenIsSame' /\ CompletedIsSame'
    BY DEF IInv, Current, CompletedHasAnswers, OffScreenIsSame, CompletedIsSame, Same
<1>2. ASSUME NEW b \in calls'
      PROVE  IF b.kind = "save" THEN SaveIsCurrent(b)' ELSE SubmitIsCurrent(b)'
    <2>1. CASE b \in calls
        BY <2>1 DEF IInv, Current, CallsAreCurrent, SaveIsCurrent, SubmitIsCurrent, Same,
            AllCompleted
    <2>2. CASE b = c
        BY <2>2 DEF SaveIsCurrent, Same, AllCompleted
    <2> QED BY <2>1, <2>2
<1> QED BY <1>1, <1>2 DEF Current, CallsAreCurrent

\* The server answers a call.
LEMMA AnsweringKeepsCalls ==
    ASSUME TypeOK, CallsAreCurrent, NEW c \in calls, NEW reply, Answered(c, reply),
           UNCHANGED <<index, local, expired>>,
           \A i \in Index : Same(i) => Same(i)',
           c.kind = "save" /\ reply = "ok" => Same(c.act)'
    PROVE  CallsAreCurrent'
<1>1. index \in Index
    BY DEF TypeOK
<1>2. ASSUME NEW b \in calls
      PROVE  IF b.kind = "save" THEN SaveIsCurrent(b)' ELSE SubmitIsCurrent(b)'
    BY <1>1, CallFields DEF CallsAreCurrent, SaveIsCurrent, SubmitIsCurrent, AllCompleted
<1>3. LET d == [c EXCEPT !.reply = reply]
      IN  IF d.kind = "save" THEN SaveIsCurrent(d)' ELSE SubmitIsCurrent(d)'
    <2> DEFINE d == [c EXCEPT !.reply = reply]
    <2>1. /\ d.kind = c.kind /\ d.act = c.act /\ d.data = c.data /\ d.status = c.status
          /\ d.then = c.then /\ d.force = c.force /\ d.reply = reply
        BY DEF TypeOK, Call
    <2> HIDE DEF d
    <2>2. IF d.kind = "save" THEN SaveIsCurrent(d)' ELSE SubmitIsCurrent(d)'
        BY <1>2, <2>1 DEF SaveIsCurrent, SubmitIsCurrent
    <2> QED BY <2>2 DEF d
<1> QED BY <1>2, <1>3 DEF Answered, CallsAreCurrent

-------------------------------------------------------------------------------
(***************************************************************************)
(* The invariant holds and is kept.                                        *)
(***************************************************************************)
LEMMA CurrentInit == Init => Current
<1> SUFFICES ASSUME Init PROVE Current
    OBVIOUS
<1>1. \A i \in Index : /\ stored[i].status = "not_started"
                       /\ stored[i].data = NoAnswers
                       /\ local[i].status = "not_started"
                       /\ local[i].data = NoAnswers
    BY DEF Init, Restored
<1>2. CompletedHasAnswers /\ OffScreenIsSame /\ CompletedIsSame
    BY <1>1 DEF CompletedHasAnswers, OffScreenIsSame, CompletedIsSame, Same
<1>3. CallsAreCurrent
    BY DEF Init, CallsAreCurrent
<1> QED BY <1>2, <1>3 DEF Current

\* Nothing is in flight: what the page shows may change.
LEMMA QuietKeepsCurrent ==
    ASSUME calls' = {}, CompletedHasAnswers', OffScreenIsSame', CompletedIsSame'
    PROVE  Current'
    BY DEF Current, CallsAreCurrent

\* The student changes the answers on screen.
LEMMA ChangingKeepsCurrent ==
    ASSUME IInv, calls = {}, UNCHANGED <<index, calls, stored>>,
           stored[index].status # "completed",
           NEW s \in Status, NEW d \in Payload, s = "completed" => d # NoAnswers,
           local' = [local EXCEPT ![index] = [status |-> s, data |-> d, dirty |-> TRUE]]
    PROVE  Current'
<1>1. \A i \in Index : i # index => local'[i] = local[i]
    BY DEF IInv, TypeOK
<1>2. local'[index].data = d /\ local'[index].status = s
    BY DEF IInv, TypeOK
<1>3. CompletedHasAnswers' /\ OffScreenIsSame' /\ CompletedIsSame'
    BY <1>1, <1>2
    DEF IInv, Current, CompletedHasAnswers, OffScreenIsSame, CompletedIsSame, Same
<1> QED BY <1>3, QuietKeepsCurrent

LEMMA OpenKeepsCurrent == IInv /\ Open => Current'
<1> SUFFICES ASSUME IInv, Open PROVE Current'
    OBVIOUS
<1> DEFINE first == FirstIncomplete(stored)
<1>1. /\ calls' = {}
      /\ UNCHANGED stored
      /\ local' = Mounted(Restored(stored), first)
      /\ first \in Index
    BY FirstIncompleteType DEF Open
<1>2. \A i \in Index : /\ local'[i].data = stored[i].data
                       /\ local'[i].status = "completed" =>
                            stored[i].status = "completed" \/ stored[i].data # NoAnswers
    <2>1. stored \in [Index -> Record]
        BY DEF IInv, TypeOK
    <2>2. PICK copies \in [Index -> Copy] :
              /\ copies = Restored(stored)
              /\ \A i \in Index : /\ copies[i].data = stored[i].data
                                 /\ copies[i].status = stored[i].status
        BY <2>1, RestoredType
    <2> QED BY <1>1, <2>2, MountedType
<1>3. CompletedHasAnswers' /\ OffScreenIsSame' /\ CompletedIsSame'
    BY <1>1, <1>2
    DEF IInv, Current, CompletedHasAnswers, OffScreenIsSame, CompletedIsSame, Same
<1> QED BY <1>1, <1>3, QuietKeepsCurrent

\* A save stores the answers the page shows, or the server holds them already.
LEMMA ServeSaveKeepsCurrent ==
    ASSUME IInv, NEW c \in calls, ServeSave(c)
    PROVE  Current'
<1>1. /\ c.kind = "save" /\ c.act \in Index /\ SaveIsCurrent(c)
      /\ UNCHANGED <<index, local, expired>>
    BY CallFields DEF ServeSave, session, IInv, Current
<1>2. \A i \in Index : \/ stored'[i] = stored[i]
                       \/ i = c.act /\ stored'[i] = [status |-> c.status, data |-> c.data]
    BY DEF ServeSave, IInv, TypeOK
<1>3. \A i \in Index : Same(i) => Same(i)'
    BY <1>1, <1>2 DEF Same, SaveIsCurrent
<1>4. CompletedHasAnswers'
    BY <1>1, <1>2 DEF CompletedHasAnswers, SaveIsCurrent, IInv, Current
<1>5. OffScreenIsSame'
    BY <1>1, <1>3 DEF OffScreenIsSame, IInv, Current
<1>6. CompletedIsSame'
    BY <1>1, <1>2, <1>3 DEF CompletedIsSame, Same, SaveIsCurrent, IInv, Current
<1>7. PICK reply \in {"ok", "closed"} :
          /\ Answered(c, reply)
          /\ reply = "ok" => row # "completed"
    BY DEF ServeSave
<1>8. reply = "ok" => Same(c.act)'
    <2>1. CASE stored[c.act].status = "completed"
        BY <1>1, <1>3, <2>1 DEF IInv, Current, CompletedIsSame
    <2>2. CASE stored[c.act].status # "completed" /\ reply = "ok"
        BY <1>1, <1>7, <2>2 DEF ServeSave, Same, SaveIsCurrent, IInv, TypeOK
    <2> QED BY <2>1, <2>2
<1>9. CallsAreCurrent'
    BY <1>1, <1>3, <1>7, <1>8, AnsweringKeepsCalls DEF IInv, Current
<1> QED BY <1>4, <1>5, <1>6, <1>9 DEF Current

\* The step that needs the invariant: the page moves.
LEMMA FinishSaveKeepsCurrent ==
    ASSUME IInv, NEW c \in calls, FinishSave(c)
    PROVE  Current'
<1>1. /\ c.kind = "save" /\ c.act \in Index /\ c.to \in Index /\ c.force \in BOOLEAN
      /\ SaveIsCurrent(c)
      /\ UNCHANGED <<stored, expired>>
      /\ index \in Index
    BY CallFields DEF FinishSave, server, IInv, Current, TypeOK
<1>2. \A i \in Index : /\ local'[i].data = local[i].data
                       /\ local'[i].status \in {local[i].status, "completed"}
                       /\ local'[i].status # local[i].status => local[i].data # NoAnswers
    BY <1>1, MarkedType, MountedType DEF FinishSave, IInv
<1>3. \A i \in Index : Same(i)' <=> Same(i)
    BY <1>1, <1>2 DEF Same
<1>4. AllCompleted(local) => AllCompleted(local)'
    BY <1>2 DEF AllCompleted
<1>5. CompletedHasAnswers'
    BY <1>1, <1>2 DEF CompletedHasAnswers, IInv, Current
<1>6. CompletedIsSame'
    BY <1>1, <1>3 DEF CompletedIsSame, IInv, Current
<1>7. c.reply = "ok" => \A i \in Index : Same(i)
    BY <1>1 DEF SaveIsCurrent, IInv, Current, OffScreenIsSame
<1>8. index' = index \/ (c.reply = "ok" /\ index' = c.to)
    BY DEF FinishSave, Moves
<1>9. OffScreenIsSame'
    BY <1>1, <1>3, <1>7, <1>8 DEF OffScreenIsSame, IInv, Current
<1>10. \A i \in Index : index' # index => Same(i)'
    BY <1>3, <1>7, <1>8
<1>11. ASSUME NEW b \in calls
       PROVE  IF b.kind = "save" THEN SaveIsCurrent(b)' ELSE SubmitIsCurrent(b)'
    <2>1. b.act \in Index /\ index' \in Index
        BY <1>1, <1>8, CallFields DEF IInv
    <2>2. CASE b.kind = "save"
        <3>1. SaveIsCurrent(b)
            BY <2>2 DEF IInv, Current, CallsAreCurrent
        <3>2. Same(b.act) => Same(b.act)'
            BY <1>3, <2>1
        <3>3. index' # b.act => Same(index)'
            <4>1. CASE index' = index
                BY <1>1, <1>3, <3>1, <4>1 DEF SaveIsCurrent, Same
            <4>2. CASE index' # index
                BY <1>10, <2>1, <4>2 DEF Same
            <4> QED BY <4>1, <4>2
        <3>4. b.data = local'[b.act].data
            BY <1>2, <2>1, <3>1 DEF SaveIsCurrent
        <3> QED BY <1>4, <2>2, <3>1, <3>2, <3>3, <3>4 DEF SaveIsCurrent
    <2>3. CASE b.kind # "save"
        <3>1. SubmitIsCurrent(b)
            BY <2>3 DEF IInv, Current, CallsAreCurrent
        <3> QED BY <1>1, <1>3, <1>4, <1>10, <2>1, <2>3, <3>1 DEF SubmitIsCurrent, Same
    <2> QED BY <2>2, <2>3
<1>12. CASE c.then = "submit" /\ c.reply = "ok"
    <2>1. PICK d : d = SubmitCall(c.force)
        OBVIOUS
    <2>2. d.kind = "submit" /\ d.force = c.force
        BY <2>1 DEF SubmitCall
    <2>3. Same(index)'
        BY <1>1, <1>3, <1>7, <1>8, <1>12 DEF Same
    <2>4. ~c.force => AllCompleted(local)'
        BY <1>1, <1>4, <1>12 DEF SaveIsCurrent
    <2>5. SubmitIsCurrent(d)'
        BY <2>2, <2>3, <2>4 DEF SubmitIsCurrent
    <2>6. calls' = (calls \ {c}) \cup {d}
        BY <1>12, <2>1 DEF FinishSave
    <2> QED BY <1>5, <1>6, <1>9, <1>11, <2>2, <2>5, <2>6 DEF Current, CallsAreCurrent
<1>13. CASE ~(c.then = "submit" /\ c.reply = "ok")
    BY <1>5, <1>6, <1>9, <1>11, <1>13 DEF FinishSave, Current, CallsAreCurrent
<1> QED BY <1>12, <1>13

LEMMA CurrentNext == CarefulStudent /\ IInv /\ [Next]_vars => Current'
<1> SUFFICES ASSUME CarefulStudent, IInv, [Next]_vars PROVE Current'
    OBVIOUS
<1>0. index \in Index
    BY DEF IInv, TypeOK
<1>1. CASE Open
    BY <1>1, OpenKeepsCurrent
<1>2. ASSUME NEW d \in Answers, Answer(d) PROVE Current'
    <2>1. /\ calls = {} /\ stored[index].status # "completed"
          /\ UNCHANGED <<index, calls, stored>> /\ d # NoAnswers
        BY <1>2, AnswersAssumption DEF Answer, MayChange, CarefulStudent, server
    <2>2. local' = [local EXCEPT ![index] =
                        [status |-> "completed", data |-> d, dirty |-> TRUE]]
        BY <1>2 DEF Answer, Reported, IInv, TypeOK
    <2> QED BY <2>1, <2>2, ChangingKeepsCurrent DEF Status, Payload
<1>3. ASSUME NEW to \in Index, Navigate(to) PROVE Current'
    BY <1>3, NewSaveIsCurrent, SendingKeepsCurrent DEF Navigate, server
<1>4. CASE SaveAndExit
    BY <1>4, NewSaveIsCurrent, SendingKeepsCurrent DEF SaveAndExit, server
<1>5. CASE ConfirmReset
    <2>1. /\ calls = {} /\ stored[index].status # "completed"
          /\ UNCHANGED <<index, calls, stored>>
        BY <1>5 DEF ConfirmReset, MayChange, CarefulStudent, server
    <2>2. local' = [local EXCEPT ![index] =
                        [status |-> "in_progress", data |-> NoAnswers, dirty |-> TRUE]]
        BY <1>5 DEF ConfirmReset
    <2> QED BY <2>1, <2>2, ChangingKeepsCurrent DEF Status, Payload
<1>6. CASE ConfirmSubmit
    <2>1. (~AllCompleted(local)) \in BOOLEAN
        BY DEF AllCompleted
    <2> QED BY <1>6, <2>1, NewSaveIsCurrent, SendingKeepsCurrent DEF ConfirmSubmit, server
<1>7. CASE CloseTab
    <2>1. calls' = {} /\ UNCHANGED <<index, local, stored>>
        BY <1>7 DEF CloseTab, CarefulStudent, server
    <2>2. CompletedHasAnswers' /\ OffScreenIsSame' /\ CompletedIsSame'
        BY <2>1 DEF IInv, Current, CompletedHasAnswers, OffScreenIsSame, CompletedIsSame, Same
    <2> QED BY <2>1, <2>2, QuietKeepsCurrent
<1>8. CASE AutoSave
    BY <1>8, NewSaveIsCurrent, SendingKeepsCurrent DEF AutoSave, server
<1>9. CASE TimeExpired
    <2>1. PICK d : d = SubmitCall(TRUE)
        OBVIOUS
    <2>2. d.kind = "submit" /\ d.force
        BY <2>1 DEF SubmitCall
    <2>3. SubmitIsCurrent(d)'
        BY <1>9, <2>2 DEF TimeExpired, SubmitIsCurrent
    <2> QED BY <1>9, <2>1, <2>2, <2>3, SendingKeepsCurrent DEF TimeExpired, server
<1>10. ASSUME NEW c \in calls, ServeSave(c) PROVE Current'
    BY <1>10, ServeSaveKeepsCurrent
<1>11. ASSUME NEW c \in calls, ServeSubmit(c) \/ Lose(c) PROVE Current'
    <2>1. /\ UNCHANGED <<index, local, stored, expired>>
          /\ \E reply \in {"ok", "refused", "lost"} :
                Answered(c, reply) /\ (c.kind = "save" => reply = "lost")
        BY <1>11 DEF ServeSubmit, Lose, session, server
    <2>2. \A i \in Index : Same(i) => Same(i)'
        BY <2>1 DEF Same
    <2>3. CallsAreCurrent'
        BY <2>1, <2>2, AnsweringKeepsCalls DEF IInv, Current
    <2>4. CompletedHasAnswers' /\ OffScreenIsSame' /\ CompletedIsSame'
        BY <2>1 DEF IInv, Current, CompletedHasAnswers, OffScreenIsSame, CompletedIsSame, Same
    <2> QED BY <2>3, <2>4 DEF Current
<1>12. ASSUME NEW c \in calls, FinishSave(c) PROVE Current'
    BY <1>12, FinishSaveKeepsCurrent
<1>13. CASE \/ OpenDialog \/ CancelDialog \/ WalkAway \/ UNCHANGED vars
            \/ \E c \in calls : FinishSubmit(c)
    <2>1. UNCHANGED <<index, local, stored, expired>> /\ calls' \subseteq calls
        BY <1>13 DEF OpenDialog, CancelDialog, WalkAway, FinishSubmit, vars, server
    <2> QED BY <2>1 DEF IInv, Current, CompletedHasAnswers, OffScreenIsSame, CompletedIsSame,
            CallsAreCurrent, SaveIsCurrent, SubmitIsCurrent, Same, AllCompleted
<1> QED BY <1>1, <1>2, <1>3, <1>4, <1>5, <1>6, <1>7, <1>8, <1>9, <1>10, <1>11, <1>12, <1>13
        DEF Next, Student, Network

LEMMA InvariantHolds == CarefulStudent /\ Spec => []IInv
<1>1. Init => IInv
    BY TypeInit, CurrentInit DEF IInv
<1>2. CarefulStudent /\ IInv /\ [Next]_vars => IInv'
    BY TypeNext, CurrentNext DEF IInv
<1>3. CASE CarefulStudent
    <2>1. IInv /\ [Next]_vars => IInv'
        BY <1>2, <1>3
    <2> QED BY <1>1, <2>1, PTL DEF Spec
<1>4. CASE ~CarefulStudent
    BY <1>4
<1> QED BY <1>3, <1>4

-------------------------------------------------------------------------------
(***************************************************************************)
(* The properties.                                                         *)
(***************************************************************************)
\* Of a careful student, the answers of an activity off screen are those the
\* server holds, however many activities there are and calls overlap or are lost.
THEOREM LeftBehindStaysSaved == CarefulStudent /\ Spec => []LeftBehindIsSaved
<1>1. IInv => LeftBehindIsSaved
    BY DEF IInv, Current, OffScreenIsSame, Same, LeftBehindIsSaved
<1> QED BY <1>1, InvariantHolds, PTL

\* Of a careful student, a submission grades the answers the page showed, but for
\* the activity on screen when the time ran out.
THEOREM SubmittedStaysShown == CarefulStudent /\ Spec => SubmittedIsShown
<1> DEFINE Shown == row' # row => \A i \in Index : \/ graded'[i] = local[i].data
                                                   \/ expired /\ i = index
<1>1. IInv /\ [Next]_vars => [Shown]_vars
    <2> SUFFICES ASSUME IInv, Next, row' # row,
                        NEW i \in Index, ~(expired /\ i = index)
                 PROVE  graded'[i] = local[i].data
        OBVIOUS
    <2>1. PICK c \in calls : ServeSubmit(c)
        BY DEF Next, Student, Network, Open, Answer, Navigate, SaveAndExit, OpenDialog,
            CancelDialog, ConfirmReset, ConfirmSubmit, CloseTab, WalkAway, AutoSave,
            TimeExpired, ServeSave, Lose, FinishSave, FinishSubmit, server
    <2>2. graded'[i] = stored[i].data
        BY <2>1 DEF ServeSubmit
    <2>3. SubmitIsCurrent(c)
        BY <2>1, CallFields DEF ServeSubmit, IInv, Current
    <2>4. Same(i)
        BY <2>3 DEF SubmitIsCurrent, IInv, Current, OffScreenIsSame
    <2> QED BY <2>2, <2>4 DEF Same
<1> QED BY <1>1, InvariantHolds, PTL DEF Spec, SubmittedIsShown

\* Of a careful student, a submission of a complete assignment is refused only
\* for an activity whose answers the server holds as in progress.
THEOREM CompleteStaysAccepted == CarefulStudent /\ Spec => CompleteIsAccepted
<1> DEFINE Accepted ==
        \A c \in calls' \ calls : c.reply = "refused" =>
            \E i \in Index : stored[i].status = "in_progress" /\ stored[i].data # NoAnswers
<1>1. IInv /\ [Next]_vars => [Accepted]_vars
    <2> SUFFICES ASSUME IInv, Next, NEW d \in calls' \ calls, d.reply = "refused"
                 PROVE  \E i \in Index : /\ stored[i].status = "in_progress"
                                         /\ stored[i].data # NoAnswers
        OBVIOUS
    <2>1. PICK c \in calls : ServeSubmit(c)
        <3>1. CASE Student \/ AutoSave \/ TimeExpired
            <4>1. d.reply = "none"
                BY <3>1 DEF Student, Open, Answer, Navigate, SaveAndExit, OpenDialog,
                    CancelDialog, ConfirmReset, ConfirmSubmit, CloseTab, WalkAway,
                    AutoSave, TimeExpired, SaveCall, SubmitCall, IInv, TypeOK, Call
            <4> QED BY <4>1
        <3>2. ASSUME NEW b \in calls, ServeSave(b) \/ Lose(b) PROVE FALSE
            <4>1. /\ b \in Call
                  /\ d \in {[b EXCEPT !.reply = r] : r \in {"ok", "closed", "lost"}}
                BY <3>2 DEF ServeSave, Lose, Answered, IInv, TypeOK
            <4> QED BY <4>1 DEF Call
        <3>3. ASSUME NEW b \in calls, FinishSave(b) \/ FinishSubmit(b) PROVE FALSE
            <4>1. d = SubmitCall(b.force)
                BY <3>3 DEF FinishSave, FinishSubmit
            <4> QED BY <4>1 DEF SubmitCall
        <3> QED BY <3>1, <3>2, <3>3 DEF Next, Network
    <2>2. ~c.force /\ \E i \in Index : stored[i].status # "completed"
        BY <2>1 DEF ServeSubmit, Answered, IInv, TypeOK, Call
    <2>3. PICK i \in Index : stored[i].status # "completed"
        BY <2>2
    <2>4. SubmitIsCurrent(c)
        BY <2>1, CallFields DEF ServeSubmit, IInv, Current
    <2>5. Same(i) /\ local[i].status = "completed"
        BY <2>2, <2>4 DEF SubmitIsCurrent, AllCompleted, IInv, Current, OffScreenIsSame
    <2>6. stored[i].data # NoAnswers /\ stored[i].status # "not_started"
        BY <2>3, <2>5 DEF IInv, Current, CompletedHasAnswers, Same
    <2>7. stored[i].status \in Status
        BY <2>3 DEF IInv, TypeOK, Record
    <2>8. stored[i].status = "in_progress"
        BY <2>3, <2>6, <2>7 DEF Status
    <2> QED BY <2>3, <2>6, <2>8
<1> QED BY <1>1, InvariantHolds, PTL DEF Spec, CompleteIsAccepted
================================================================================
