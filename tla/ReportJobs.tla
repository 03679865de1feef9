------------------------------- MODULE ReportJobs -------------------------------
(***************************************************************************)
(* A teacher's reports: the row of each job, the background task that      *)
(* makes its file, and the page that started it and polls for the end.     *)
(*                                                                         *)
(* The task lives in the web process that took the request.  It commits    *)
(* its progress step by step and takes no other record of being alive: a   *)
(* restart, or a database error that leaves its session unusable, ends it  *)
(* without a word.                                                         *)
(***************************************************************************)
EXTENDS Integers, FiniteSets

CONSTANTS
    Milestones,     \* the percentages a task commits before it writes the file
    MaxJobs         \* bound on the reports asked for

ASSUME ReportAssumption ==
    /\ Milestones \subseteq 1..99 /\ Milestones # {}
    /\ MaxJobs \in Nat

VARIABLES
    call,           \* the POST that asks for each report
    job,            \* its row in report_jobs
    task,           \* its background task
    files,          \* the reports in REPORTS_DIR
    lost,           \* tasks that ended without recording it
    view,           \* pageView
    observed,       \* the POST the generate mutation shows; 0 for none
    polls,          \* status requests in flight
    shown           \* the status query's data for each report

server == <<job, task, files, lost>>
vars == <<call, job, task, files, lost, view, observed, polls, shown>>

-------------------------------------------------------------------------------
Report == 1..MaxJobs

Finished == {"completed", "failed"}

JobStatus == {"pending", "processing"} \cup Finished

Progress == 0..100

Row == [status : JobStatus \cup {"none", "deleted"}, progress : Progress]

NoRow == [status |-> "none", progress |-> 0]

Exists(j) == job[j].status \in JobStatus

TaskState == {"none", "queued", "working", "written", "ended"}

Running(j) == task[j] \notin {"none", "ended"}

PollReply == [status : JobStatus \cup {"none", "lost"}, progress : Progress]

NoData == NoRow

Init ==
    /\ call = [j \in Report |-> "none"]
    /\ job = [j \in Report |-> NoRow]
    /\ task = [j \in Report |-> "none"]
    /\ files = {}
    /\ lost = {}
    /\ view = "builder"
    /\ observed = 0
    /\ polls = {}
    /\ shown = [j \in Report |-> NoData]

-------------------------------------------------------------------------------
(***************************************************************************)
(* The page.                                                               *)
(***************************************************************************)
\* currentJobId: of the POST the mutation observes, once it was answered.
Watched(j) == view = "progress" /\ observed = j /\ call[j] = "answered"

Asks(j) ==
    /\ call[j] = "none"
    /\ \A i \in 1..(j - 1) : call[i] # "none"
    /\ call' = [call EXCEPT ![j] = "sent"]
    /\ observed' = j

\* handleGenerate from the builder, and handleRetry of a failed report.
StartReport(j) ==
    /\ \/ view = "builder"
       \/ \E i \in Report : Watched(i) /\ shown[i].status = "failed"
    /\ Asks(j)
    /\ view' = "progress"
    /\ UNCHANGED <<server, polls, shown>>

\* The button is there once a status is.
Cancel ==
    /\ \E j \in Report : Watched(j) /\ shown[j] # NoData
    /\ observed' = 0
    /\ view' = "builder"
    /\ UNCHANGED <<call, server, polls, shown>>

\* The teacher goes to another page and comes back; the query client stays.
Leave ==
    /\ view = "progress"
    /\ observed' = 0
    /\ view' = "builder"
    /\ UNCHANGED <<call, server, polls, shown>>

Answered(j) ==
    /\ call[j] = "created"
    /\ call' = [call EXCEPT ![j] = "answered"]
    /\ UNCHANGED <<server, view, observed, polls, shown>>

\* The POST fails, before or after it was served.
CallFails(j) ==
    /\ call[j] \in {"sent", "created"}
    /\ call' = [call EXCEPT ![j] = "failed"]
    /\ UNCHANGED <<server, view, observed, polls, shown>>

(***************************************************************************)
(* useReportStatus: a request now and every two seconds until the report   *)
(* is finished; a query has one request in flight.                         *)
(***************************************************************************)
\* Mutant: requests of one query overlap.
PollOverlapping(j) ==
    /\ Watched(j)
    /\ shown[j].status \notin Finished
    /\ Cardinality(polls) < 2
    /\ polls' = polls \cup {[job |-> j, reply |-> NoData]}
    /\ UNCHANGED <<call, server, view, observed, shown>>

\* Mutant: polling goes on while the report is processing only.
PollWhileProcessing(j) ==
    /\ Watched(j)
    /\ shown[j].status \in {"none", "processing"}
    /\ \A p \in polls : p.job # j
    /\ polls' = polls \cup {[job |-> j, reply |-> NoData]}
    /\ UNCHANGED <<call, server, view, observed, shown>>

Poll(j) ==
    /\ Watched(j)
    /\ shown[j].status \notin Finished
    /\ \A p \in polls : p.job # j
    /\ polls' = polls \cup {[job |-> j, reply |-> NoData]}
    /\ UNCHANGED <<call, server, view, observed, shown>>

Replied(p, reply) == polls' = (polls \ {p}) \cup {[p EXCEPT !.reply = reply]}

\* Mutant: the status of a row that is gone is answered.
ServePollUnchecked(p) ==
    /\ p.reply = NoData
    /\ Replied(p, job[p.job])
    /\ UNCHANGED <<call, server, view, observed, shown>>

ServePoll(p) ==
    /\ p.reply = NoData
    /\ Exists(p.job)
    /\ Replied(p, job[p.job])
    /\ UNCHANGED <<call, server, view, observed, shown>>

\* The request or its answer is lost, or the answer is 404 as the row is gone.
PollFails(p) ==
    /\ p.reply = NoData
    /\ Replied(p, [status |-> "lost", progress |-> 0])
    /\ UNCHANGED <<call, server, view, observed, shown>>

\* A failed request leaves the query's data as it was.
PollEnds(p) ==
    /\ p.reply # NoData
    /\ shown' = IF p.reply.status = "lost" THEN shown
                ELSE [shown EXCEPT ![p.job] = p.reply]
    /\ polls' = polls \ {p}
    /\ UNCHANGED <<call, server, view, observed>>

-------------------------------------------------------------------------------
(***************************************************************************)
(* The server.                                                             *)
(***************************************************************************)
\* generate_report: the row is committed and the task added.
Create(j) ==
    /\ call[j] = "sent"
    /\ call' = [call EXCEPT ![j] = "created"]
    /\ job' = [job EXCEPT ![j] = [status |-> "pending", progress |-> 0]]
    /\ task' = [task EXCEPT ![j] = "queued"]
    /\ UNCHANGED <<files, lost, view, observed, polls, shown>>

\* remove_report_history_item, whatever the status; the file stays.
Delete(j) ==
    /\ Exists(j)
    /\ job' = [job EXCEPT ![j].status = "deleted"]
    /\ UNCHANGED <<call, task, files, lost, view, observed, polls, shown>>

(***************************************************************************)
(* process_report_job.  A commit of a row that was deleted raises, and     *)
(* ends the task.                                                          *)
(***************************************************************************)
Commits(j, state, status, progress) ==
    IF Exists(j)
    THEN /\ job' = [job EXCEPT ![j] = [status |-> status, progress |-> progress]]
         /\ task' = [task EXCEPT ![j] = state]
    ELSE /\ task' = [task EXCEPT ![j] = "ended"]
         /\ UNCHANGED job

\* update_job_progress, with the next percentage.
UpdateJobProgress(j) ==
    /\ task[j] \in {"queued", "working"}
    /\ \E m \in Milestones :
         /\ m > job[j].progress
         /\ \A k \in Milestones : k > job[j].progress => k >= m
         /\ Commits(j, "working", "processing", m)
    /\ UNCHANGED <<call, files, lost, view, observed, polls, shown>>

AtLast(j) == task[j] = "working" /\ \A m \in Milestones : m <= job[j].progress

WriteFile(j) ==
    /\ AtLast(j)
    /\ task' = [task EXCEPT ![j] = "written"]
    /\ files' = files \cup {j}
    /\ UNCHANGED <<call, job, lost, view, observed, polls, shown>>

\* Mutant: the report is completed before its file is written.
CompleteEarly(j) ==
    /\ task[j] = "written" \/ AtLast(j)
    /\ Commits(j, "ended", "completed", 100)
    /\ UNCHANGED <<call, files, lost, view, observed, polls, shown>>

CompleteJob(j) ==
    /\ task[j] = "written"
    /\ Commits(j, "ended", "completed", 100)
    /\ UNCHANGED <<call, files, lost, view, observed, polls, shown>>

\* Mutant: the error is logged and not recorded.
LogError(j) ==
    /\ task[j] = "working"
    /\ task' = [task EXCEPT ![j] = "ended"]
    /\ UNCHANGED <<call, job, files, lost, view, observed, polls, shown>>

\* The configuration, the data, the directory or the generator raises: fail_job,
\* twice.  A generator that raises may leave part of a file.
FailJob(j) ==
    /\ task[j] = "working"
    /\ Commits(j, "ended", "failed", job[j].progress)
    /\ \/ UNCHANGED files
       \/ AtLast(j) /\ files' = files \cup {j}
    /\ UNCHANGED <<call, lost, view, observed, polls, shown>>

\* A restart of the process, or an error of the database: fail_job needs the
\* session the error left unusable, and its own error is passed over.
LoseTask(j) ==
    /\ Running(j)
    /\ task' = [task EXCEPT ![j] = "ended"]
    /\ lost' = lost \cup {j}
    /\ UNCHANGED <<call, job, files, view, observed, polls, shown>>

-------------------------------------------------------------------------------
Work(j) == UpdateJobProgress(j) \/ WriteFile(j) \/ CompleteJob(j) \/ FailJob(j)

Page ==
    \/ \E j \in Report : StartReport(j) \/ Answered(j) \/ CallFails(j) \/ Poll(j)
    \/ Cancel
    \/ Leave
    \/ \E p \in polls : ServePoll(p) \/ PollFails(p) \/ PollEnds(p)

Server == \E j \in Report : Create(j) \/ Delete(j) \/ Work(j) \/ LoseTask(j)

Next == Page \/ Server

(***************************************************************************)
(* Fairness.  A task has a thread and does not hang; the interval of an    *)
(* open page fires; a request ends, and not every one of them fails.       *)
(***************************************************************************)
Fairness ==
    /\ \A j \in Report : WF_vars(Work(j)) /\ WF_vars(Poll(j))
    /\ \A j \in Report : WF_vars(\E p \in polls : p.job = j /\ PollEnds(p))
    /\ \A j \in Report : SF_vars(\E p \in polls : p.job = j /\ ServePoll(p))

Spec == Init /\ [][Next]_vars /\ Fairness

-------------------------------------------------------------------------------
(***************************************************************************)
(* Properties.                                                             *)
(***************************************************************************)
TypeOK ==
    /\ call \in [Report -> {"none", "sent", "created", "answered", "failed"}]
    /\ job \in [Report -> Row]
    /\ task \in [Report -> TaskState]
    /\ files \subseteq Report
    /\ lost \subseteq Report
    /\ view \in {"builder", "progress"}
    /\ observed \in 0..MaxJobs
    /\ polls \subseteq [job : Report, reply : PollReply]
    /\ shown \in [Report -> PollReply]

\* A report that is offered for download has its file, whenever the task was
\* interrupted.
CompletedHasFile == \A j \in Report : job[j].status = "completed" => j \in files

\* Nobody works on a report that is not finished only if its task was lost: errors
\* of the data and of the generators are recorded, and so is a deletion.
UnfinishedIsInWork ==
    \A j \in Report : job[j].status \in {"pending", "processing"} => Running(j) \/ j \in lost

\* The page never takes back what it said of a report: the progress it shows does
\* not go down, and a finished report stays what it is.
ShownNeverGoesBack ==
    [][\A j \in Report :
           /\ shown'[j].progress >= shown[j].progress
           /\ shown[j].status \in Finished => shown'[j] = shown[j]]_vars

\* A page that watches a report shows its end, unless the task was lost, the report
\* was deleted, or the teacher goes elsewhere.
WatchedReportEnds ==
    \A j \in Report :
        Watched(j) ~> \/ shown[j].status \in Finished
                      \/ ~Watched(j)
                      \/ j \in lost
                      \/ job[j].status = "deleted"
==============================================================================
