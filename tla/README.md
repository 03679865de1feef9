# Verification of Dream LMS

TLA+ models of the parts of this repository whose correctness depends on the
order in which things happen: how a student's work travels from the page to the
server and into a grade, how a submission is saved, submitted and graded while
other requests touch the same rows, how cached copies follow their source, how
drawings on a book's pages are kept, how reports are made and watched, how a
book's activities follow the publisher's content, and how a circuit breaker
counts answers that arrive late. TLC checks the models on small instances;
TLAPS proves the most important invariants for every value of the constants.

Paths below are relative to `src/backend/app/` unless they start with `src/`;
`players/` stands for `src/frontend/src/components/ActivityPlayers/` and
`flowbook/` for `src/frontend/src/components/FlowbookViewer/`.

## The system

Dream LMS is a FastAPI application over PostgreSQL (async SQLAlchemy), Redis
and an external content service, Dream Central Storage (DCS), with a React
frontend. Every request runs in a session of its own (`api/deps.py:38`), at READ
COMMITTED, takes no row lock and usually commits once. Several gunicorn workers
serve requests; each has in-process caches (`DCSCache`, and below it the responses
its DCS client keeps) and background tasks of its own and is restarted after a number of requests.

| Component | State | Operations | Hard behaviour | Correct when | Status |
|---|---|---|---|---|---|
| Book assignment submissions (`api/routes/assignments.py`, `models.py`) | `assignment_students`, `assignment_student_activities`, links | start-multi, save activity, submit-multi, grade | overlapping requests overwrite columns; unique conflicts | a completed submission is scored, stamped and equal to its records | partly: not the single-activity endpoints |
| Content Library submissions (same file) | the same row, with `progress_json` | start, start-multi, save-progress, save activity, submit, submit-multi, grade | Save & Exit reopens; two ways to complete | a completed submission has a result and counts for its skill | partly: one skill |
| Skill attribution (`services/skill_attribution_service.py`) | `student_skill_scores` | attribute, recalculate, backfill | second transaction; conflict; rollback | the record follows the score | partly: attribution |
| Multi-activity player (`players/MultiActivityPlayer.tsx`) | answers in the browser, dirty flags, calls in flight | answer, move, save, Save & Exit, submit, reset, 30 s interval, countdown | continuations run after the page went on; calls are lost | what the page shows as saved is saved; what is submitted was shown | partly: not embedded or preview activities |
| Flowbook annotations (`flowbook/annotation`, `flowbook/stores/annotationStore.ts`) | canvases, store, localStorage, undo history | draw, undo, redo, clear, save, turn pages | a canvas is filled a frame after it was made; a write to localStorage fails | the copies agree; no stroke is lost | partly: reads of localStorage that fail are not modelled |
| Redis cache (`services/redis_cache.py`, `services/cache_events.py`) | keys per student | get, fill, invalidate, single-flight fetch | a fill races an invalidation; lock expiry; outages | staleness is bounded and has a reason | partly |
| DCS metadata cache (`services/dcs_cache.py`, `services/book_service_v2.py`) | entries per worker | get-or-fetch, invalidate | no single flight; other workers are not told; filled from the DCS client's cache | the same | partly |
| DCS client (`services/dream_storage_client.py`) | responses kept for 15 or 30 minutes, token | get lists and configs, invalidate all | a second cache below the first; retries, token refresh | as for the DCS metadata cache | partly: its cache |
| Webhooks and activity import (`api/routes/webhooks.py`, `api/routes/books.py`) | event log, `activities`, two caches per worker | receive, process, import | duplicate and late events, overlapping imports, lost tasks | each event ends; one set of activities, from a config that is new enough | partly: book events |
| Report jobs (`services/report_service.py`, `src/frontend/src/hooks/useReports.ts`) | `report_jobs`, files, the page's queries | ask, process, poll, delete | restart mid-job; lost polls | a finished report has its file; a watched one ends | partly |
| Circuit breaker (`services/circuit_breaker.py`) | state, failure count, last failure time | call, success, failure | late answers, overlapping probes, cancellation | open iff earned; recovers | modelled |
| Assignment creation and editing | `assignments`, links | create, update, attach, publish | edits after the start; flush order | edits keep submissions meaningful | partly |
| Scheduled publishing (`services/assignment_scheduler.py`) | `assignments.status` | publish those due | runs outside any student request | lists follow | partly |
| All others | | | | | see "Not modelled" |

Interactions: the player and the content pages call the submission endpoints;
these write rows, then attribute the skill (Content Library only), then call
`invalidate_for_event`; the teacher's edits and the scheduler write the
assignment the students' lists read; the list endpoint fills the cache that the
others invalidate; the import writes the activities that assignments link to;
the reports page polls the row its background task writes; DCS and LLM calls go
through circuit breakers.

## Modules

| Module | What it is |
|---|---|
| `AssignmentRow` | Shared: column types, the write set SQLAlchemy sends (`Changes`, `Flush`), the list entry of a row |
| `BookSubmission` | One student's book assignment under overlapping requests |
| `SubmissionLifecycle` | Abstract specification: start once, submit once, score; `BookSubmission` implements it |
| `ContentSubmission` | One student's Content Library assignment and its skill record |
| `MultiActivityPlayer` | The page a student works through a book assignment with, and its calls |
| `FlowbookAnnotations` | Drawing on the pages of a flowbook |
| `ReadThroughCache` | One cached key: of Redis, with plain and single-flight readers and outages, or of `DCSCache` with the DCS client's cache below it |
| `ReportJobs` | A teacher's reports: row, background task, polling page |
| `WebhookImport` | One book: events, background tasks, the two caches of each worker, import |
| `CircuitBreaker` | The breaker under overlapping calls |
| `MCBookSubmission`, `MCContentSubmission`, `MCFlowbookAnnotations` | Values and symmetry for TLC |
| `BookSubmissionProofs`, `ContentSubmissionProofs`, `FlowbookAnnotationsProofs`, `ReadThroughCacheProofs`, `ReportJobsProofs`, `WebhookImportProofs`, `CircuitBreakerProofs`, `MultiActivityPlayerProofs` | Theorems and proofs |

The models meet at their interfaces. `MultiActivityPlayer` takes each call as one
atomic step of the server; `BookSubmission` takes calls from any client and
models what happens inside. `BookSubmission` and `ContentSubmission` keep the
cached list as one entry; `ReadThroughCache` models what a cached copy may be
when fills, invalidations and outages overlap. `WebhookImport` has the config's
entries in `DCSCache` and in the DCS client's cache inside because their
staleness decides what is imported.

### How server requests are modelled

In `BookSubmission` and `ContentSubmission`, `request[r]` is a slot for an HTTP
request in flight. Its first step is the endpoint's action: guards are the
handler's early returns, and the slot receives the **write set** the handler has
computed from what it read. `Commit` is `session.commit()`: it stores the write
set over whatever the rows hold by then. SQLAlchemy sends only the columns whose
value differs from the one loaded, so `Changes` drops the others; that is why
two requests overwrite each other column by column. `FlushFails` is a
unique-constraint violation: INSERTs of records another request inserted, and
links re-inserted by an edit before its DELETEs are sent; `Rollback` drops the
request. `Invalidate`, `FillListing` and, for content, `Refresh`,
`AttributeDelete` and `AttributeInsert` are the handler's later steps.

### How the pages are modelled

A React component's state is a variable, a handler up to its first `await` is an
action, and what follows the `await` is an action of its own, which reads the
state of that later moment except for what the closure captured. A call in
flight (`calls`, `polls`) records what was sent and which continuation waits.

| Action | Code |
|---|---|
| `StartMulti` | `start_multi_activity_assignment` |
| `SaveActivityProgress` | `save_activity_progress`, book branch / content branch |
| `SubmitMulti`, `ResubmitMulti` | `submit_multi_activity_assignment` |
| `GradeActivity`, `Grade` | `grade_student_submission`, with / without `activity_id` |
| `UpdateAssignment`, `PublishScheduled` | `update_assignment`, `publish_scheduled_assignments` |
| `ListAssignments`, `FillListing`, `ExpireListing` | `get_student_assignments`, `cache_set`, its TTL |
| `Start`, `SaveProgress`, `Submit` | `start_assignment`, `save_progress`, `submit_assignment` |
| `AttributeDelete`, `AttributeInsert`, `AttributionFails` | `attribute_skill_scores`, its conflict and rollback |
| `Open`, `Answer`, `Navigate`, `SaveAndExit`, `ConfirmSubmit`, `ConfirmReset` | start-multi's answer and the mount, `handleActivityComplete`, `handleNavigate`, `handleSaveAndExit`, `handleConfirmSubmit`, the reset dialog |
| `AutoSave`, `TimeExpired`, `CloseTab` | the 30 s interval, `handleTimeExpired`, `beforeunload` |
| `ServeSave`, `ServeSubmit`, `Lose`, `FinishSave`, `FinishSubmit` | the endpoints, the network, the code after `await` |
| `ImageLoaded`, `Frame`, `Draw`, `Turn`, `Undo`, `Redo`, `Clear`, `Save` | canvas creation, its `requestAnimationFrame`, `handlePathCreated`, effects on a page change, the store's operations, the Save button |
| `SaveAnnotations` (in `Draw`, `Turn`, `Clear`, `Save`) | `saveAnnotations`, whose failing `setItem` is only logged |
| `Miss`, `Acquire`, `Poll`, `GiveUp`, `Fetch`, `Store`, `Release` | `cache_get` and `cache_set` in routes, `cache_get_or_fetch`, `DCSCache.get_or_fetch` |
| `AskClient`, `TakeOver`, `AskSource`, `Evict` | callers of the DCS client, `_get_cached` with a hit and without, `invalidate_cache` |
| `Create`, `UpdateJobProgress`, `WriteFile`, `CompleteJob`, `FailJob`, `Delete` | `generate_report`, the steps of `process_report_job`, `delete_report_job` |
| `StartReport`, `Poll`, `PollEnds`, `Cancel`, `Leave` | `handleGenerate`, `useReportStatus`, the page |
| `Receive`, `Request`, `Begin`, `Invalidate`, `AttemptFails`, `Finish` | `receive_dream_storage_webhook`, the admin's import, the steps of `process_webhook_event` |
| `LookUp`, `FindBook`, `Answer`, `Store` | `get_or_fetch`, `_fetch_book_config`, the client's `get_book_config` |
| `ImportFails`, `Select`, `Commit` | `_import_book_activities` |
| `Begin`, `Succeed`, `Fail`, `Cancel`, `Tick` of `CircuitBreaker` | `CircuitBreaker.call`, `_on_success`, `_on_failure`, `CancelledError`, the clock |

### Abstractions

- Submissions: one student and one assignment; no handler touches another
  student's row except the editing ones, which touch no student row. All reads
  of a request are one step: what the handlers do with a row that is stale by
  then is the same as committing late, which the models allow. Answers are model
  values; `Mark` is the score the client computes. -1 is NULL and, in
  `ContentSubmission`, also the client's sign for teacher-graded work. All records
  have the same `MaxPoints`; in the code `max_score` is a client value (see the
  hazards). Percentages are rounded down. Time stamps are "set or not". A Content
  Library assignment stays published and attributes one skill.
- `MultiActivityPlayer`: answering an activity is one report of its player; what
  a player does before it reports is not modelled. Time is left out: the interval
  may fire whenever an activity is dirty, the countdown at any moment. `Habits`
  says what the student does beyond the ordinary (see the runs).
- `FlowbookAnnotations`: a drawing is the set of its strokes, of pen or
  highlighter; zoom is left out. Image loading takes any time, a frame too. Any
  write to localStorage may fail, as when its quota is used up: `unsaved` says that
  the last one did. Each write holds all drawings of the book, so the next that
  succeeds makes up for those that failed. Reading localStorage does not fail
  (the code would go on with no drawings at all).
- `ReadThroughCache`: a copy of the source's value is its staleness, the time
  since a write superseded it. `layered` chooses, once and for all, between a key of
  Redis and a key of `DCSCache` whose fetch goes through the DCS client's cache
  (lists of books, configs). `Delay` bounds the time from the moment the source
  itself is read to the end of the call; a copy the client kept is older than that,
  which is what `client` and `ClientTTL` are for. In the code `Delay` is bounded by
  the timeouts and retries of the request. A Redis value that embeds DCS data is
  taken at the age of its own rows. A key DCS returns by id is not kept by the
  client and behaves as one of Redis that is always in reach. Redis loses entries
  (`Evict`), not locks.
- `ReportJobs`: the data of a report is left out; any step may raise.
- `WebhookImport`: one book; the version of its config is the number of edits;
  the rows one import inserts are one batch. Each worker has two copies of the
  config, in `DCSCache` (`cache`) and in the DCS client's cache (`client`), each of
  which may go at any time; the book keeps the name and publisher the client's key
  is made of. `met` is a history variable: which
  tasks were in flight at the same time.
- `CircuitBreaker` caps the failure count at the threshold and the clock at the
  recovery time; the code treats larger values alike.

## Runs

| Run | Bounds | Shows |
|---|---|---|
| `BookSerial` | 2 activities, 1 point, 2 answers, 1 request; all endpoints but scheduled publishing; 354 K states | Without overlap: score and answers of a completed submission equal its records, the cached list is fresh when nothing is in flight, and the behaviour implements `SubmissionLifecycle` |
| `BookConcurrent` | the same with 2 requests over start, save, submit, grade, publish; symmetry; 2.4 M states | With overlap: `OpenedIsStamped`, `CompletedIsScored`, `FinishedIsAnswered` |
| `ContentSerial` | 3 answers (right, wrong, essay), 1 request; 1.9 K states | Skill record = score; fresh list |
| `ContentConcurrent` | 2 answers, 2 requests, all writing endpoints; 122 K states | A completed submission has its completion time and answers, and counts for its skill even when two attributions conflict |
| `PlayerSteady` | 3 activities, 1 answer, 2 calls in flight, `Habits = {}`; 1.98 M states | The answers off screen are stored, what is submitted was shown, a complete submission is refused only after Save & Exit, and paused work is saved, whatever the network loses |
| `Annotations` | 2 pages, 2 strokes, history of 2; symmetry; 2.81 M states | Canvas, store, history and localStorage part only where the code accepts it, and after a write that succeeded localStorage is behind by undo and redo only |
| `Cache` | 2 readers, 1 writer, TTL and the client's TTL 2, lock, poll and fetch time 1; both kinds of key; 283 K states | Staleness is bounded and has a reason in either cache, the lock is kept, every call ends |
| `Reports` | 2 reports, milestones 10 and 80; 517 K states | A completed report has its file, an unfinished one is in work, the page never goes back and sees the end |
| `Webhooks` | 2 tasks, 2 workers, 2 edits; 785 K states | Duplicates and stale imports come from overlapping tasks only, whatever the two caches of a worker keep; every event ends |
| `BreakerRecovery` | 3 callers, threshold 3, recovery 2 ticks; 298 states | Open iff earned; recovery |

Why these bounds are enough for the cases to happen: two activities give a partly
finished assignment, a combined score that is neither 0 nor 100, an edit that
adds, drops or keeps an activity, and an activity off screen. Two requests pair
one stale write set with every other commit, and a slot can be used again while
the other waits. Two kinds of answers tell old from new, three add the
teacher-graded kind. Two calls in flight are a save beside a submission, or
two navigations; with the third activity of `PlayerSteady` the second of them
passes one by that the first had moved to, and an answer that is reset and given
again is a change of answers. Two
pages are one double page and two single ones; a history of two is full after
the first stroke, so the next one shifts it. With TTL 2 and times of 1 the lock
expires while its owner fetches, an entry outlives a fetch, and an entry filled
from the client's copy outlives that copy. Milestones 10 and
80 are a commit that changes `pending` to `processing` and one that does not.
Two tasks overlap in the same worker, in two workers, or not at all, and run all
three attempts; three tasks, and larger values everywhere, are left to the
proofs. A threshold of 3 with 3 callers lets the last failure of a burst arrive
after a success or after the breaker opened.

What the runs assume:

- `ResultIsServed` assumes that submit-multi carries `activity_states`, as the
  schema requires and the players do; a forced submission without any stores
  `{}` and the result endpoint answers 404. `SkillMatchesScore` is checked
  without the grade endpoint, `ListingIsFresh` without the two endpoints that do
  not invalidate (see the limits).
- `PlayerSteady` is a student who does not change the answers of an activity the
  server holds as completed, does not type or close the tab while a call is in
  flight, and whose calls end within the interval. Calls may be lost before or
  after they were served.

Two runs expect a violation and record where the code does something else than
its comments say:

| Run | Counterexample |
|---|---|
| `BookLateSave` | A save checks the status, the submission commits, the save commits: the record differs from `answers_json` |
| `PlayerRevise` | The interval saves an activity after its first answer, which freezes it; answers changed later are dropped with a success response and the page takes them for saved |

Deadlock is checked in `Book*`, `Content*`, `Annotations`, `Cache` and
`BreakerRecovery`. `PlayerSteady` and `PlayerRevise` do not check it because a
student may leave for good, `Reports` and `Webhooks` because their jobs and tasks
are bounded in number and all end.

### Fairness

- `BreakerRecovery` (`FairSpec`): time passes, callers keep coming, and a call
  made again and again is not cancelled every time but gets an answer (`SF`),
  because the clients have timeouts. That the service stops failing is the
  premise of `Recovers`.
- `MultiActivityPlayer`: the interval fires on a page its student has left open
  (`WF` of `away /\ AutoSave`), an answer that is back is handled (`WF`), and the
  network does not lose every call (`SF`). The student is not fair.
- `ReadThroughCache`: `WF` of the clock and of every call's steps: each `await`
  has a timeout. Outages may last for ever.
- `ReportJobs`: a task has a thread and does not hang (`WF` of `Work`), the page's
  interval fires (`WF` of `Poll`), and not every request fails (`SF` of
  `ServePoll`). `CallFails`, restarts and deletions are not fair.
- `WebhookImport`: `WF` of a task's steps: each `await` has a timeout.

## Theorems

Each proof module proves its theorems of `Spec` for every value of the
constants. What TLC checked as invariants of a run was strengthened until it was
inductive, and the strengthening was checked with TLC before it was proved.

- `BookSubmissionProofs`, for any finite set of activities, any answers and
  **any number of overlapping requests**. `TypeCorrect`: the combined score is a
  percentage because `Earned` is a subset of the records' points (finite-set
  cardinality). `OpenedStaysStamped`, `CompletedStaysScored`: neither is
  inductive, because a pending write set computed from a stale row may carry
  `status` without `started_at`. `RowSound` says that the row satisfies both and
  that every pending write set is sound: it clears no time stamp and no score,
  and what its status needs it brings itself, unless the row has it already;
  no other write set takes that away before the commit. `FinishedStaysAnswered`:
  the same for records (`RecordsSound`); a pending insert is a whole record.
  `AnswersStayRecorded` and `ImplementsLifecycle` hold as long as no start and no
  save is between its read and its commit while a submit is
  (`NoSaveBesideSubmit`); submits may overlap submits, and grades everything.
  `ScoreStaysCombined` needs in addition that no grade overlaps another grade or a
  submit (`NoGradeBesideScoring`). The run `BookSerial` overlaps nothing. The
  invariants say of each request in flight what its write set makes of the row
  and the records as they are now (`RowAfter`, `RecordsAfter`): a start or a save
  meets an open submission and leaves its score alone, a submit stores the answers
  the records hold even if another submit has committed since it read them, a
  grade writes scores only (`Recorded`); what a submit or a grade writes is the
  score of the records it leaves (`Combined`). The refinement is a simulation step
  by step: each commit is `Start`, `Submit` or `Grade` of `SubmissionLifecycle`,
  or changes nothing of it (`LifecycleStep`). So a double click on Submit is
  harmless, and grading while a submission arrives costs the score, never the
  answers or the stages.
  `ListingStaysFresh`: however writes overlap, the list is fresh when nothing is
  in flight, without the scheduler and as long as no list is read and cached
  around a commit (`ListsAlone`): every write that shows in the list owes an
  invalidation, and until it comes the list may be anything.
  `GradingIsMonotone` and `FullMarksOnly` are about `CombinedScore`: a better
  grade never lowers it, and 100 takes full marks everywhere.
- `ContentSubmissionProofs`, for any answers, grades and number of requests.
  `OpenedStaysStamped` (`StampSound`) and `ResultStaysServed` (`AnswersSound`)
  are the same argument over seven kinds of requests; the latter assumes that
  submit-multi carries answers. `CompletedStaysAttributed` needs a witness: if
  the row is completed without a skill record, some request in flight is going
  to insert one, and a request gives up its insert only because another one's
  insert is there. `SkillStaysMatched`, without grading: the skill record of a
  completed submission at rest has its score, as long as no request that
  attributes commits while another one is between reading the score and inserting
  the record (`AttributionsAlone`). `ListingStaysFresh`, without `GET start` and
  under `ListsAlone`: a request that will refresh or attribute also owes the
  invalidation, unless what it wrote does not show.
- `ReadThroughCacheProofs`, for any number of readers and any times.
  `StalenessStaysBounded`: a value in a call is no older than its fetch, a copy in a
  cache no older than its own life so far and what it was filled with (`Young`): a
  fetch, or, in `DCSCache`, a copy the client may have had for its whole life
  (`Before`); the clock cannot pass a call's deadline. So a list of books that
  `DCSCache` keeps 10 minutes and the client 15 may be 25 minutes old when a webhook
  was lost. `StaleIsAlwaysExplained`: the reason is kept for both copies, and what is
  taken over from the client's takes its reason along. `LockStaysKept`: the age of
  the lock equals the time since its owner took it, as releases compare the token.
- `FlowbookAnnotationsProofs`, for any book and any limit above 1. The invariant
  is a conjunction over the pages (`PageOK`): the canvas of a page that is
  listened to equals the store and the history at the index, the index is inside,
  and localStorage holds the store's drawing or a history entry, unless the last
  write failed. `DiskOnlyBehindByUndo` is that last part: a failed write is made up
  for by the next one that succeeds, as each holds all drawings of the book.
- `ReportJobsProofs`, for any number of reports and any milestones. The invariant
  couples row, task and file of each report (`RowOK`), and what the page knows
  (`Known`): shown progress ≤ the answer in flight ≤ the row's progress.
- `WebhookImportProofs`, for any number of tasks, workers and edits.
  `DuplicatesStayOverlapped` needs `Beside`: a task about to commit has overlapped
  with every task whose rows it did not read, because those were committed since
  it read. `StaleImportsStayOverlapped` needs `Fresh`: what a task holds, or would
  find in either cache of its worker, is at least as new as the edit it was told of,
  or another task of that worker was in flight beside it (`Excused`), the one that
  stored an older answer after the invalidation. It rests on both invalidations:
  without that of the client's cache (`InvalidateCache`) one task alone imports a
  config older than its event's.
- `MultiActivityPlayerProofs`, for any number of activities, answers and calls in
  flight. `LeftBehindStaysSaved`, `SubmittedStaysShown` and `CompleteStaysAccepted`
  assume `CarefulStudent` (`Habits` has neither `"revise"`, for which `PlayerRevise`
  refutes the first, nor `"type_ahead"`); unlike in the run, calls may be slower
  than the interval (`"wait"`). The invariant says what a call in flight knows: a
  save carries the answers the page shows, one that was answered has made the
  server's the same, and if the page has moved on since, it did so while the
  answers of the activity it is on now were stored (`SaveIsCurrent`); the same
  holds of a submission, but for the countdown's (`SubmitIsCurrent`).
- `CircuitBreakerProofs`: `OpenIsAlwaysEarned`, for any number of callers, any
  threshold and recovery time.

Assumptions: the `ASSUME`s of the modules on their constants, which TLC evaluates
in the runs, and the hypotheses named above on `Sent`, `Habits` and `Endpoints`.
`NoSaveBesideSubmit`, `NoGradeBesideScoring`, `ListsAlone` and `AttributionsAlone`
are not assumptions about the code, which does not prevent these races. They name
the races in which the known limits below lie, and the theorems say that the
properties fail in no other way. With a single slot all of them hold, so the
theorems cover what the serial runs check. The invariants were also checked with
TLC for two requests under these constraints (`Recorded` 313 K states, `Combined`
150 K, the list's 3.6 M), and each kind of race, let in alone, breaks a property
in TLC: a start or a save beside a submit the lifecycle and the score (a start
after an edit added an activity), a save beside a submit the answers, a grade
beside a grade or beside a submit the score.

Model-checked only, because fairness and `ENABLED` are out of the prover's reach:
`Recovers`, `PausedWorkIsSaved`, `CallsEnd`, `WatchedReportEnds`, `EventEnds`.
Every other property of a passing run is stated by a theorem.

## Known limits of the code the models show

Where the code accepts or overlooks these, the properties make the exception
explicit or the run leaves the step out.

- Submissions. With overlap the code does not keep the score combined, the list
  fresh or the skill equal to the score: two grades computed from the same
  records, a list read before a commit and cached after its invalidation, a
  start that commits over a submission and reopens it, an auto-save that reopens
  a forced submission. Replacing the list of activities by one that keeps an old
  one fails as a whole (`api/routes/assignments.py:1662`): the new links are
  inserted before the old ones are deleted. An activity added after the start has
  no record, so an unforced submission passes without it (3175; the docstring at
  2982 asks for all). A submit-multi after a completing save keeps
  that save's answers and answers 200 (3073). Grading does not attribute again.
- Lists. The scheduler publishes without an invalidation
  (`services/assignment_scheduler.py:70`) and so does `GET start`
  (`api/routes/assignments.py:2020`): the list is stale until its TTL.
- Player. The end of any save clears `isSaving` and the Submit button ignores it
  (`players/MultiActivityPlayer.tsx:443`, `1143`), so two navigations can overlap
  and pass by an activity that Save & Exit had put away as in progress: its answers
  are stored, its status is not, and a submission of what the page shows as
  complete is refused (`CompleteIsAccepted` excepts this). Answers given while a save is in flight are marked saved by its
  continuation; when the time is up, unsaved answers of the activity on screen are
  not graded; if the reply to a submission is lost, the next attempt begins with
  a save, which the completed assignment refuses, so the idempotent path of
  submit-multi is not reached; clearing all answers is not reported; the beacon of
  `beforeunload` is a POST to an endpoint that takes PATCH.
- Annotations. When the current page changes inside a double page, the canvas
  made anew may be one nobody listens to: its strokes are stored when it goes and
  not on each stroke, and undo skips them. A page turned before its canvas was
  filled stores an empty drawing. Undo and redo are not written to localStorage,
  and the first stroke after a clear cannot be undone. A failing write to
  localStorage is logged and not shown: the strokes since then are gone after a
  reload unless a later write succeeds.
- Caches. An invalidation that fails is not repeated, and a fetch that a write
  overtook is stored: a copy may be stale for the whole TTL.
  `cache_get_or_fetch` has no caller among the routes. A webhook drops the entries
  of one worker only, so `DCSCache` of another may be refilled from its client's
  copy and serve a value older than its own TTL. `book.updated` and `book.deleted`
  leave the lists per publisher in `DCSCache` alone; to such a key they are lost
  invalidations.
- Reports. A restart or a database error leaves a report processing for ever and
  its page polling; a failed POST leaves the page at "Initializing..."; deleting a
  report leaves its file; nothing calls `cleanup_expired_reports`.
- Webhooks. Overlapping imports leave the activities twice until the next
  import; a failed import is logged and its event marked successful; a restart or
  a database error leaves the event pending or processing for ever; the admin's
  import may use a config that `DCSCache` has had for an hour and the client for half
  an hour before; an import deletes activities that
  students' records point to.
- Breaker. Half open lets all callers through (`services/circuit_breaker.py:47`;
  the class comment says one). A 404 counts as a failure.

## Not modelled

- Single-activity endpoints on book assignments, record-level `max_score`, mix
  mode, recalculation and backfill of skills; crashes between a submission and
  its attribution.
- Single-activity player and auto-save hook: they issue calls `ContentSubmission`
  takes from any client, and their timer is the player's.
- Flowbook audio, zoom and layout: local state of one component each.
- Publisher webhooks, which only drop cache keys; the signature check; what the
  deletion of activities does to students' records.
- Report history, templates and download; the content of reports.
- Token refresh and retries of the DCS client, LLM manager and rate limiter, TTS manager
  and cache: they stand for the next step of the plan.
- Messages, materials and storage quota: one transaction each around an external
  call; planned.
- Authentication and its user cache (the pattern of `ReadThroughCache`), teacher
  feedback, users, classes, bulk import: single transactions.
- AI generation and its editing dialogs, analytics, benchmarks and usage reports,
  dashboards and the generated API client: data, rendering and read-only queries,
  without a protocol between steps.

## Plan

1. **DCS client and LLM fallback** on `CircuitBreaker`: retries, 401 refresh and
   the token lock, which errors count; usage checked before and recorded after.
2. **Import and submissions composed**: `WebhookImport`'s deletion of activities
   against `BookSubmission`'s links and records.
3. **Submissions, continued**: single-activity endpoints, record-level
   `max_score`, mix mode, backfill with crashes.
4. **Quota and messages**: check-then-charge; at-least-once jobs.
5. **Proofs**: `AnswersStayRecorded` with starts beside submits, which TLC finds
   harmless to the answers.
