--------------------------- MODULE ReportJobsProofs ---------------------------
(***************************************************************************)
(* The safety properties of ReportJobs, for every set of milestones and    *)
(* every number of reports.                                                *)
(*                                                                         *)
(* The invariant orders what is known of a report: the page's data, then   *)
(* the answer on its way to the page, then the row.  A row only goes       *)
(* forward, as its task is the only one to write it and stops when the     *)
(* row is finished; with one request in flight per report, so does the     *)
(* page.                                                                   *)
(***************************************************************************)
EXTENDS ReportJobs, TLAPS

-------------------------------------------------------------------------------
(***************************************************************************)
(* Types.                                                                  *)
(***************************************************************************)
Poller == [job : Report, reply : PollReply]

LEMMA NoRowType == NoRow \in Row /\ NoData \in PollReply
    BY DEF NoRow, NoData, Row, PollReply, Progress

LEMMA RepliedType ==
    ASSUME polls \subseteq Poller, NEW p \in polls, NEW reply \in PollReply,
           Replied(p, reply)
    PROVE  polls' \subseteq Poller
<1>1. [p EXCEPT !.reply = reply] \in Poller
    BY DEF Poller
<1> QED BY <1>1 DEF Replied

LEMMA CommitsType ==
    ASSUME job \in [Report -> Row], task \in [Report -> TaskState],
           NEW j \in Report, NEW state \in TaskState, NEW status \in JobStatus,
           NEW progress \in Progress, Commits(j, state, status, progress)
    PROVE  job' \in [Report -> Row] /\ task' \in [Report -> TaskState]
<1>1. [status |-> status, progress |-> progress] \in Row
    BY DEF Row
<1>2. "ended" \in TaskState
    BY DEF TaskState
<1> QED BY <1>1, <1>2 DEF Commits

LEMMA TypeInit == Init => TypeOK
    BY NoRowType, ReportAssumption DEF Init, TypeOK, Report, TaskState

LEMMA TypeNext == TypeOK /\ [Next]_vars => TypeOK'
<1> SUFFICES ASSUME TypeOK, [Next]_vars PROVE TypeOK'
    OBVIOUS
<1> USE ReportAssumption
<1>0. /\ job \in [Report -> Row] /\ task \in [Report -> TaskState]
      /\ polls \subseteq Poller
      /\ \A j \in Report : job[j].progress \in Progress
      /\ {"none", "queued", "working", "written", "ended"} \subseteq TaskState
      /\ {"pending", "processing", "completed", "failed"} \subseteq JobStatus
    BY DEF TypeOK, Poller, Row, TaskState, JobStatus, Finished
<1>1. ASSUME NEW j \in Report, StartReport(j) PROVE TypeOK'
    BY <1>1 DEF StartReport, Asks, server, TypeOK, Report
<1>2. CASE Cancel \/ Leave
    BY <1>2 DEF Cancel, Leave, server, TypeOK
<1>3. ASSUME NEW j \in Report, Answered(j) \/ CallFails(j) PROVE TypeOK'
    BY <1>3 DEF Answered, CallFails, server, TypeOK
<1>4. ASSUME NEW j \in Report, Poll(j) PROVE TypeOK'
    BY <1>4, NoRowType DEF Poll, server, TypeOK
<1>5. ASSUME NEW p \in polls, ServePoll(p) \/ PollFails(p) PROVE TypeOK'
    <2>1. PICK reply \in PollReply : Replied(p, reply)
        <3>1. CASE ServePoll(p)
            <4>1. p.job \in Report
                BY <1>0 DEF Poller
            <4>2. job[p.job] \in PollReply
                BY <1>0, <3>1, <4>1 DEF ServePoll, Exists, Row, PollReply
            <4> QED BY <3>1, <4>2 DEF ServePoll
        <3>2. CASE PollFails(p)
            BY <3>2 DEF PollFails, PollReply, Progress
        <3> QED BY <1>5, <3>1, <3>2
    <2>2. polls' \subseteq Poller
        BY <1>0, <2>1, RepliedType
    <2> QED BY <1>5, <2>2 DEF ServePoll, PollFails, server, TypeOK, Poller
<1>6. ASSUME NEW p \in polls, PollEnds(p) PROVE TypeOK'
    <2>1. p.job \in Report /\ p.reply \in PollReply
        BY <1>0 DEF Poller
    <2> QED BY <1>6, <2>1 DEF PollEnds, server, TypeOK
<1>7. ASSUME NEW j \in Report, Create(j) PROVE TypeOK'
    <2>1. [status |-> "pending", progress |-> 0] \in Row
        BY DEF Row, JobStatus, Progress
    <2> QED BY <1>0, <1>7, <2>1 DEF Create, TypeOK
<1>8. ASSUME NEW j \in Report, Delete(j) PROVE TypeOK'
    <2>1. [job[j] EXCEPT !.status = "deleted"] \in Row
        BY <1>0 DEF Row
    <2> QED BY <1>8, <2>1 DEF Delete, TypeOK
<1>9. ASSUME NEW j \in Report, Work(j) \/ LoseTask(j) PROVE TypeOK'
    <2>1. CASE UpdateJobProgress(j)
        <3>1. PICK m \in Milestones : Commits(j, "working", "processing", m)
            BY <2>1 DEF UpdateJobProgress
        <3>2. m \in Progress
            BY DEF Progress
        <3> QED BY <1>0, <2>1, <3>1, <3>2, CommitsType DEF UpdateJobProgress, TypeOK
    <2>2. CASE WriteFile(j)
        BY <1>0, <2>2 DEF WriteFile, TypeOK
    <2>3. CASE CompleteJob(j)
        <3>1. 100 \in Progress /\ Commits(j, "ended", "completed", 100)
            BY <2>3 DEF CompleteJob, Progress
        <3> QED BY <1>0, <2>3, <3>1, CommitsType DEF CompleteJob, TypeOK
    <2>4. CASE FailJob(j)
        <3>1. Commits(j, "ended", "failed", job[j].progress)
            BY <2>4 DEF FailJob
        <3> QED BY <1>0, <2>4, <3>1, CommitsType DEF FailJob, TypeOK
    <2>5. CASE LoseTask(j)
        BY <1>0, <2>5 DEF LoseTask, TypeOK
    <2> QED BY <1>9, <2>1, <2>2, <2>3, <2>4, <2>5 DEF Work
<1>10. CASE UNCHANGED vars
    BY <1>10 DEF vars, TypeOK
<1> QED BY <1>1, <1>2, <1>3, <1>4, <1>5, <1>6, <1>7, <1>8, <1>9, <1>10
        DEF Next, Page, Server

\* Rows, tasks, requests and the page's data have their types: an answer is a row
\* that exists.
THEOREM TypeCorrect == Spec => []TypeOK
BY TypeInit, TypeNext, PTL DEF Spec

-------------------------------------------------------------------------------
(***************************************************************************)
(* The row and its task.                                                   *)
(***************************************************************************)
RowOK(j) ==
    /\ job[j].status = "completed" => j \in files
    /\ task[j] = "written" => j \in files
    /\ job[j].status \in {"pending", "processing"} => Running(j) \/ j \in lost
    /\ Running(j) => job[j].status \notin Finished
    /\ call[j] \in {"none", "sent"} => job[j] = NoRow

Rows == TypeOK /\ \A j \in Report : RowOK(j)

LEMMA RowsInit == Init => Rows
<1> SUFFICES ASSUME Init, NEW j \in Report PROVE RowOK(j)
    BY TypeInit DEF Rows
<1> QED BY DEF Init, RowOK, NoRow, Running

\* Of a report that a step does not touch.
LEMMA RowUntouched ==
    ASSUME NEW j \in Report, RowOK(j), job'[j] = job[j], task'[j] = task[j],
           call'[j] = call[j] \/ call'[j] \notin {"none", "sent"}
             \/ call[j] \in {"none", "sent"},
           j \in files => j \in files', j \in lost => j \in lost'
    PROVE  RowOK(j)'
    BY DEF RowOK, Running

\* Of the report whose task commits.
LEMMA CommitsRow ==
    ASSUME Rows, NEW j \in Report, NEW state, NEW status, NEW progress,
           Commits(j, state, status, progress), call' = call,
           Running(j), files \subseteq files',
           lost' = lost, status = "completed" => j \in files', state # "written",
           status \in JobStatus, state \in TaskState,
           status \in Finished <=> state = "ended", state # "none"
    PROVE  RowOK(j)'
<1>0. RowOK(j) /\ job \in [Report -> Row] /\ task \in [Report -> TaskState]
    BY DEF Rows, TypeOK
<1>1. CASE Exists(j)
    <2>1. /\ job'[j] = [status |-> status, progress |-> progress]
          /\ task'[j] = state
        BY <1>0, <1>1 DEF Commits
    <2>2. call[j] \notin {"none", "sent"}
        BY <1>0, <1>1 DEF RowOK, NoRow, Exists, JobStatus, Finished
    <2> QED BY <2>1, <2>2 DEF RowOK, Running, JobStatus, Finished
<1>2. CASE ~Exists(j)
    <2>1. job'[j] = job[j] /\ task'[j] = "ended"
        BY <1>0, <1>2 DEF Commits
    <2> QED BY <1>0, <1>2, <2>1 DEF RowOK, Running, Exists, JobStatus, Finished
<1> QED BY <1>1, <1>2

LEMMA WorkTouchesOne ==
    ASSUME TypeOK, NEW i \in Report, NEW j \in Report \ {i}, Work(i)
    PROVE  job'[j] = job[j] /\ task'[j] = task[j] /\ (j \in files => j \in files')
    BY DEF Work, UpdateJobProgress, WriteFile, CompleteJob, FailJob, Commits, TypeOK

LEMMA WorkRuns ==
    ASSUME NEW j \in Report, Work(j)
    PROVE  Running(j) /\ UNCHANGED <<call, lost, view, observed, polls, shown>>
    BY DEF Work, UpdateJobProgress, WriteFile, CompleteJob, FailJob, AtLast, Running

LEMMA WorkRow ==
    ASSUME Rows, NEW j \in Report, Work(j)
    PROVE  RowOK(j)'
<1>0. RowOK(j) /\ job \in [Report -> Row] /\ task \in [Report -> TaskState]
      /\ Running(j) /\ call' = call /\ lost' = lost
    BY WorkRuns DEF Rows, TypeOK
<1>1. CASE UpdateJobProgress(j)
    <2>1. PICK m \in Milestones : Commits(j, "working", "processing", m)
        BY <1>1 DEF UpdateJobProgress
    <2> QED BY <1>0, <1>1, <2>1, CommitsRow DEF UpdateJobProgress, JobStatus, Finished, TaskState
<1>2. CASE WriteFile(j)
    <2>1. job' = job /\ task'[j] = "written" /\ j \in files'
        BY <1>0, <1>2 DEF WriteFile
    <2> QED BY <1>0, <2>1 DEF RowOK, Running
<1>3. CASE CompleteJob(j)
    <2>1. j \in files /\ files' = files
        BY <1>0, <1>3 DEF CompleteJob, RowOK
    <2>2. PICK progress : Commits(j, "ended", "completed", progress)
        BY <1>3 DEF CompleteJob
    <2> QED BY <1>0, <2>1, <2>2, CommitsRow DEF JobStatus, Finished, TaskState
<1>4. CASE FailJob(j)
    BY <1>0, <1>4, CommitsRow DEF FailJob, JobStatus, Finished, TaskState
<1> QED BY <1>1, <1>2, <1>3, <1>4 DEF Work

LEMMA RowsNext == Rows /\ [Next]_vars => Rows'
<1> SUFFICES ASSUME Rows, [Next]_vars, NEW j \in Report PROVE RowOK(j)'
    BY TypeNext DEF Rows
<1>0. RowOK(j) /\ TypeOK
    BY DEF Rows
<1>1. CASE UNCHANGED server /\ (Page \/ UNCHANGED vars)
    <2>1. call'[j] = call[j] \/ call'[j] \notin {"none", "sent"} \/ call[j] \in {"none", "sent"}
        BY <1>0, <1>1 DEF Page, StartReport, Asks, Cancel, Leave, Answered, CallFails, Poll,
                          ServePoll, PollFails, PollEnds, vars, TypeOK
    <2> QED BY <1>0, <1>1, <2>1, RowUntouched DEF server
<1>2. ASSUME NEW i \in Report, Create(i) PROVE RowOK(j)'
    <2>1. CASE i = j
        <3>1. /\ job'[j] = [status |-> "pending", progress |-> 0]
              /\ task'[j] = "queued" /\ call'[j] = "created"
            BY <1>0, <1>2, <2>1 DEF Create, TypeOK
        <3> QED BY <3>1 DEF RowOK, Running, Finished
    <2>2. CASE i # j
        BY <1>0, <1>2, <2>2, RowUntouched DEF Create, TypeOK
    <2> QED BY <2>1, <2>2
<1>3. ASSUME NEW i \in Report, Delete(i) PROVE RowOK(j)'
    <2>0. UNCHANGED <<call, task, files, lost>>
        BY <1>3 DEF Delete
    <2>1. CASE i = j
        <3>1. job'[j].status = "deleted"
            BY <1>0, <1>3, <2>1 DEF Delete, TypeOK, Row
        <3>2. call[j] \notin {"none", "sent"}
            BY <1>0, <1>3, <2>1 DEF Delete, RowOK, NoRow, Exists, JobStatus, Finished
        <3> QED BY <1>0, <2>0, <3>1, <3>2 DEF RowOK, Finished
    <2>2. CASE i # j
        BY <1>0, <1>3, <2>0, <2>2, RowUntouched DEF Delete, TypeOK
    <2> QED BY <2>1, <2>2
<1>4. ASSUME NEW i \in Report, Work(i) PROVE RowOK(j)'
    <2>1. CASE i = j
        BY <1>4, <2>1, WorkRow
    <2>2. CASE i # j
        BY <1>0, <1>4, <2>2, WorkTouchesOne, WorkRuns, RowUntouched
    <2> QED BY <2>1, <2>2
<1>5. ASSUME NEW i \in Report, LoseTask(i) PROVE RowOK(j)'
    <2>1. CASE i = j
        <3>1. task'[j] = "ended" /\ j \in lost' /\ UNCHANGED <<call, job, files>>
            BY <1>0, <1>5, <2>1 DEF LoseTask, TypeOK
        <3> QED BY <1>0, <3>1 DEF RowOK, Running
    <2>2. CASE i # j
        BY <1>0, <1>5, <2>2, RowUntouched DEF LoseTask, TypeOK
    <2> QED BY <2>1, <2>2
<1>6. Page => UNCHANGED server
    BY DEF Page, StartReport, Cancel, Leave, Answered, CallFails, Poll,
           ServePoll, PollFails, PollEnds
<1>7. UNCHANGED vars => UNCHANGED server
    BY DEF vars, server
<1> QED BY <1>1, <1>2, <1>3, <1>4, <1>5, <1>6, <1>7 DEF Next, Server

\* A report is completed only once its file is there, and the file stays.
THEOREM CompletedAlwaysHasFile == Spec => []CompletedHasFile
<1>1. Rows => CompletedHasFile
    BY DEF Rows, RowOK, CompletedHasFile
<1> QED BY <1>1, RowsInit, RowsNext, PTL DEF Spec

\* Only the loss of its task leaves a report unfinished for ever.
THEOREM UnfinishedIsAlwaysInWork == Spec => []UnfinishedIsInWork
<1>1. Rows => UnfinishedIsInWork
    BY DEF Rows, RowOK, UnfinishedIsInWork
<1> QED BY <1>1, RowsInit, RowsNext, PTL DEF Spec

-------------------------------------------------------------------------------
(***************************************************************************)
(* What is known of a report.                                              *)
(***************************************************************************)
Before(a, b) ==
    /\ a.progress <= b.progress
    /\ a.status \in Finished => b = a \/ b.status = "deleted"
    /\ a.status = "deleted" => b = a

IsAnswer(p) == p.reply # NoData /\ p.reply.status # "lost"

KnownOK(j) ==
    /\ Before(shown[j], job[j])
    /\ \A p \in polls :
         p.job = j /\ IsAnswer(p) => Before(shown[j], p.reply) /\ Before(p.reply, job[j])

OneEach == \A p, q \in polls : p.job = q.job => p = q

Known == Rows /\ OneEach /\ \A j \in Report : KnownOK(j)

Datum == Row \cup PollReply

LEMMA BeforeTransitive ==
    ASSUME NEW a \in Datum, NEW b \in Datum, NEW c \in Datum, Before(a, b), Before(b, c)
    PROVE  Before(a, c)
<1>1. a.progress \in Int /\ b.progress \in Int /\ c.progress \in Int
    BY DEF Datum, Row, PollReply, Progress
<1>2. a.progress <= c.progress
    BY <1>1 DEF Before
<1>3. a.status \in Finished => c = a \/ c.status = "deleted"
    BY DEF Before
<1>4. a.status = "deleted" => c = a
    BY DEF Before
<1> QED BY <1>2, <1>3, <1>4 DEF Before

LEMMA BeforeReflexive ==
    ASSUME NEW a \in Datum
    PROVE  Before(a, a)
<1>1. a.progress \in Int
    BY DEF Datum, Row, PollReply, Progress
<1> QED BY <1>1 DEF Before

\* A row only goes forward.
LEMMA RowForward ==
    ASSUME Rows, [Next]_vars, NEW j \in Report
    PROVE  Before(job[j], job'[j])
<1>0. /\ RowOK(j) /\ TypeOK /\ job[j] \in Row /\ job[j] \in Datum
      /\ job[j].progress \in Int /\ job[j].progress <= 100 /\ 0 <= job[j].progress
    BY DEF Rows, TypeOK, Row, Datum, Progress
<1>1. CASE job'[j] = job[j]
    BY <1>0, <1>1, BeforeReflexive
<1>2. CASE Create(j)
    <2>1. job[j] = NoRow /\ job'[j] = [status |-> "pending", progress |-> 0]
        BY <1>0, <1>2 DEF Create, RowOK, TypeOK
    <2> QED BY <2>1 DEF Before, NoRow, Finished
<1>3. CASE Delete(j)
    <2>1. /\ job'[j].status = "deleted" /\ job'[j].progress = job[j].progress
          /\ job[j].status # "deleted"
        BY <1>0, <1>3 DEF Delete, Exists, TypeOK, Row, JobStatus, Finished
    <2> QED BY <1>0, <2>1 DEF Before
<1>4. CASE Work(j)
    <2>1. job[j].status \notin Finished
        BY <1>0, <1>4, WorkRuns DEF RowOK
    <2>2. ASSUME NEW state, NEW status, NEW progress,
                 Commits(j, state, status, progress), job[j].progress <= progress
          PROVE  Before(job[j], job'[j])
        <3>1. CASE Exists(j)
            <4>1. job'[j] = [status |-> status, progress |-> progress]
                BY <1>0, <2>2, <3>1 DEF Commits, TypeOK
            <4>2. job[j].status # "deleted"
                BY <3>1 DEF Exists, JobStatus, Finished
            <4> QED BY <2>1, <2>2, <4>1, <4>2 DEF Before
        <3>2. CASE ~Exists(j)
            BY <1>1, <2>2, <3>2 DEF Commits
        <3> QED BY <3>1, <3>2
    <2>3. CASE UpdateJobProgress(j)
        <3>1. PICK m \in Milestones : m > job[j].progress /\ Commits(j, "working", "processing", m)
            BY <2>3 DEF UpdateJobProgress
        <3>2. job[j].progress <= m
            BY <1>0, <3>1, ReportAssumption
        <3> QED BY <2>2, <3>1, <3>2
    <2>4. CASE CompleteJob(j)
        <3>1. PICK progress : progress = 100 /\ Commits(j, "ended", "completed", progress)
            BY <2>4 DEF CompleteJob
        <3> QED BY <1>0, <2>2, <3>1
    <2>5. CASE FailJob(j)
        BY <1>0, <2>2, <2>5 DEF FailJob
    <2>6. CASE WriteFile(j)
        BY <1>1, <2>6 DEF WriteFile
    <2> QED BY <1>4, <2>3, <2>4, <2>5, <2>6 DEF Work
<1>5. ASSUME NEW i \in Report \ {j}, Create(i) \/ Delete(i) \/ Work(i) PROVE job'[j] = job[j]
    <2>1. CASE Create(i) \/ Delete(i)
        BY <1>0, <2>1 DEF Create, Delete, TypeOK
    <2>2. CASE Work(i)
        BY <1>0, <2>2, WorkTouchesOne
    <2> QED BY <1>5, <2>1, <2>2
<1>6. ASSUME NEW i \in Report, LoseTask(i) PROVE job'[j] = job[j]
    BY <1>6 DEF LoseTask
<1>7. Page \/ UNCHANGED vars => job' = job
    BY DEF Page, StartReport, Cancel, Leave, Answered, CallFails, Poll,
           ServePoll, PollFails, PollEnds, server, vars
<1> QED BY <1>1, <1>2, <1>3, <1>4, <1>5, <1>6, <1>7 DEF Next, Server

LEMMA KnownInit == Init => Known
<1> SUFFICES ASSUME Init PROVE OneEach /\ \A j \in Report : KnownOK(j)
    BY RowsInit DEF Known
<1>1. ASSUME NEW j \in Report PROVE KnownOK(j)
    <2>1. shown[j] = job[j] /\ job[j] \in Datum /\ polls = {}
        BY NoRowType DEF Init, NoData, Datum
    <2> QED BY <2>1, BeforeReflexive DEF KnownOK
<1> QED BY <1>1 DEF Init, OneEach

LEMMA KnownNext == Known /\ [Next]_vars => Known'
<1> SUFFICES ASSUME Known, [Next]_vars PROVE OneEach' /\ \A j \in Report : KnownOK(j)'
    BY RowsNext DEF Known
<1>0. /\ Rows /\ Rows' /\ TypeOK /\ OneEach /\ polls \subseteq Poller
      /\ \A j \in Report : KnownOK(j)
    BY RowsNext DEF Known, Rows, TypeOK, Poller
<1>1. \A j \in Report : /\ shown[j] \in Datum /\ job[j] \in Datum /\ job'[j] \in Datum
                        /\ Before(job[j], job'[j])
    BY <1>0, RowForward DEF Rows, TypeOK, Datum
<1>2. CASE UNCHANGED <<polls, shown>>
    <2>1. OneEach'
        BY <1>0, <1>2 DEF OneEach
    <2>2. ASSUME NEW j \in Report PROVE KnownOK(j)'
        <3>1. Before(shown[j], job'[j])
            BY <1>0, <1>1, BeforeTransitive DEF KnownOK
        <3>2. ASSUME NEW p \in polls, p.job = j, IsAnswer(p)
              PROVE  Before(shown[j], p.reply) /\ Before(p.reply, job'[j])
            <4>1. p.reply \in Datum
                BY <1>0 DEF Poller, Datum
            <4>2. Before(shown[j], p.reply) /\ Before(p.reply, job[j])
                BY <1>0, <3>2 DEF KnownOK
            <4> QED BY <1>1, <4>1, <4>2, BeforeTransitive
        <3> QED BY <1>2, <3>1, <3>2 DEF KnownOK, IsAnswer
    <2> QED BY <2>1, <2>2
<1>3. ASSUME NEW i \in Report, Poll(i) PROVE OneEach' /\ \A j \in Report : KnownOK(j)'
    <2>1. polls' = polls \cup {[job |-> i, reply |-> NoData]} /\ UNCHANGED <<job, shown>>
        BY <1>3 DEF Poll, server
    <2>2. OneEach'
        BY <1>0, <1>3, <2>1 DEF OneEach, Poll
    <2>3. ASSUME NEW j \in Report PROVE KnownOK(j)'
        BY <1>0, <2>1 DEF KnownOK, IsAnswer
    <2> QED BY <2>2, <2>3
<1>4. ASSUME NEW p \in polls, ServePoll(p) \/ PollFails(p)
      PROVE  OneEach' /\ \A j \in Report : KnownOK(j)'
    <2>0. p.job \in Report /\ UNCHANGED <<job, shown>>
        BY <1>0, <1>4 DEF Poller, ServePoll, PollFails, server
    <2>1. PICK q : /\ polls' = (polls \ {p}) \cup {q} /\ q.job = p.job
                   /\ \/ q.reply = job[p.job]
                      \/ ~IsAnswer(q)
        <3>1. CASE ServePoll(p)
            <4>1. [p EXCEPT !.reply = job[p.job]].job = p.job
                  /\ [p EXCEPT !.reply = job[p.job]].reply = job[p.job]
                BY <1>0 DEF Poller
            <4> QED BY <3>1, <4>1 DEF ServePoll, Replied
        <3>2. CASE PollFails(p)
            <4> DEFINE q == [p EXCEPT !.reply = [status |-> "lost", progress |-> 0]]
            <4>1. q.job = p.job /\ q.reply = [status |-> "lost", progress |-> 0]
                BY <1>0 DEF Poller
            <4>2. ~IsAnswer(q)
                BY <4>1 DEF IsAnswer
            <4> QED BY <3>2, <4>1, <4>2 DEF PollFails, Replied
        <3> QED BY <1>4, <3>1, <3>2
    <2>2. OneEach'
        BY <1>0, <2>1 DEF OneEach
    <2>3. ASSUME NEW j \in Report PROVE KnownOK(j)'
        <3>1. j = p.job /\ IsAnswer(q) =>
                Before(shown[j], q.reply) /\ Before(q.reply, job[j])
            BY <1>0, <1>1, <2>1, BeforeReflexive DEF KnownOK
        <3> QED BY <1>0, <2>0, <2>1, <3>1 DEF KnownOK, IsAnswer
    <2> QED BY <2>2, <2>3
<1>5. ASSUME NEW p \in polls, PollEnds(p) PROVE OneEach' /\ \A j \in Report : KnownOK(j)'
    <2>1. polls' = polls \ {p} /\ job' = job /\ p.job \in Report
        BY <1>0, <1>5 DEF PollEnds, server, Poller
    <2>2. OneEach'
        BY <1>0, <2>1 DEF OneEach
    <2>3. ASSUME NEW j \in Report PROVE KnownOK(j)'
        <3>1. CASE shown'[j] = shown[j]
            BY <1>0, <2>1, <3>1 DEF KnownOK, IsAnswer
        <3>2. CASE shown'[j] # shown[j]
            <4>1. p.job = j /\ shown'[j] = p.reply /\ IsAnswer(p)
                BY <1>0, <1>5, <3>2 DEF PollEnds, IsAnswer, TypeOK
            <4>2. \A q \in polls' : q.job # j
                BY <1>0, <2>1, <4>1 DEF OneEach
            <4> QED BY <1>0, <2>1, <4>1, <4>2 DEF KnownOK
        <3> QED BY <3>1, <3>2
    <2> QED BY <2>2, <2>3
<1>6. CASE ~UNCHANGED <<polls, shown>>
    <2>1. \/ \E i \in Report : Poll(i)
          \/ \E p \in polls : ServePoll(p) \/ PollFails(p) \/ PollEnds(p)
        BY <1>6, WorkRuns DEF Next, Page, Server, StartReport, Cancel, Leave, Answered,
                              CallFails, Create, Delete, LoseTask, vars
    <2> QED BY <1>3, <1>4, <1>5, <2>1
<1> QED BY <1>2, <1>6

LEMMA ShownStep ==
    ASSUME Known, [Next]_vars, NEW j \in Report
    PROVE  /\ shown'[j].progress >= shown[j].progress
           /\ shown[j].status \in Finished => shown'[j] = shown[j]
<1>0. TypeOK /\ KnownOK(j) /\ shown[j].progress \in Int
    BY DEF Known, Rows, TypeOK, PollReply, Progress
<1>1. CASE shown'[j] = shown[j]
    BY <1>0, <1>1
<1>2. CASE shown'[j] # shown[j]
    <2>1. PICK p \in polls : PollEnds(p)
        BY <1>2, WorkRuns DEF Next, Page, Server, StartReport, Cancel, Leave, Answered, CallFails,
                    Poll, ServePoll, PollFails, Create, Delete, LoseTask, vars
    <2>2. p.job = j /\ shown'[j] = p.reply /\ IsAnswer(p) /\ p.reply \in PollReply
        BY <1>0, <1>2, <2>1 DEF PollEnds, IsAnswer, TypeOK
    <2>3. Before(shown[j], p.reply) /\ p.reply.status # "deleted" /\ p.reply.progress \in Int
        BY <1>0, <2>2 DEF KnownOK, PollReply, JobStatus, Finished, Progress
    <2> QED BY <1>0, <2>2, <2>3 DEF Before
<1> QED BY <1>1, <1>2

\* The page never takes back what it showed of a report.
THEOREM PageNeverGoesBack == Spec => ShownNeverGoesBack
<1>1. Known /\ [Next]_vars =>
        [\A j \in Report :
             /\ shown'[j].progress >= shown[j].progress
             /\ shown[j].status \in Finished => shown'[j] = shown[j]]_vars
    BY ShownStep
<1> QED BY <1>1, KnownInit, KnownNext, PTL DEF Spec, ShownNeverGoesBack
===============================================================================
