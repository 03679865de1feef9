---------------------------- MODULE WebhookImport ----------------------------
(***************************************************************************)
(* How the activities of one book follow its config.json in Dream Central  *)
(* Storage (DCS).  DCS announces an edit with a webhook; the server logs   *)
(* the event, answers, and processes it in a background task of the worker *)
(* process that took the call: it invalidates that worker's caches and     *)
(* replaces the book's rows in the table activities.  Deliveries may be    *)
(* lost, repeated and reordered, tasks overlap, a restart loses them, and  *)
(* the worker's pages and the admin's import share its caches.             *)
(*                                                                         *)
(* A worker has two caches of the config, one above the other: DCSCache,   *)
(* and below it the one of its DCS client, which answers what DCSCache     *)
(* does not have before DCS is asked.                                      *)
(***************************************************************************)
EXTENDS Integers

CONSTANTS
    Tasks,          \* background tasks and requests that touch the book
    Workers,        \* gunicorn worker processes: each has caches of its own
    MaxEdits        \* bound: edits of the config in DCS

ASSUME WebhookAssumption == MaxEdits \in Nat \ {0}

VARIABLES
    catalog,        \* DCS: the number of edits the config has seen
    gone,           \* DCS: the book is deleted
    cache,          \* cache[w]: the config in the DCSCache of worker w, 0 if none
    client,         \* client[w]: the config in the cache of its DCS client, 0 if none
    activities,     \* the batches of rows in the table activities
    log,            \* log[t]: webhook_event_logs.status, "none" without a row
    task,           \* the tasks
    met             \* met[t]: history, the tasks that were in flight beside t

vars == <<catalog, gone, cache, client, activities, log, task, met>>

-------------------------------------------------------------------------------
NotCached == 0

Edits == 1..MaxEdits

Events == {"book.created", "book.updated", "book.deleted"}

\* An admin's import request and a page that shows the book run the same steps; the
\* list of a book's videos asks the client without DCSCache.
Requests == {"import", "view", "videos"}

Kinds == Events \cup Requests

MaxRetries == 3

\* All rows an import inserts are one batch: they are inserted in one
\* transaction and no code removes some of them.
Batch == [task : Tasks, config : Edits \cup {NotCached}]

(***************************************************************************)
(* pc is the next step of a task: "queued" commits the status processing,  *)
(* "working" invalidates, "lookup" asks DCSCache for the config, "find"    *)
(* waits for DCS to say which book it is of and asks the client, "fetch"   *)
(* asks DCS, "store" caches the answer, "select" reads the rows to         *)
(* replace, "commit" replaces them, "finish" commits the status success.   *)
(***************************************************************************)
NoTask(w) ==
    [pc        |-> "none",
     kind      |-> "view",
     worker    |-> w,       \* the worker process that takes the call
     announced |-> 0,       \* the edit the event is about
     attempt   |-> 0,
     config    |-> NotCached,
     found     |-> {}]      \* the batches read, to be deleted

InFlight(t) == task[t].pc \notin {"none", "over", "lost"}

Init ==
    /\ catalog = 1
    /\ gone = FALSE
    /\ cache = [w \in Workers |-> NotCached]
    /\ client = [w \in Workers |-> NotCached]
    /\ activities = {}
    /\ log = [t \in Tasks |-> "none"]
    /\ task \in [Tasks -> {NoTask(w) : w \in Workers}]
    /\ met = [t \in Tasks |-> {}]

-------------------------------------------------------------------------------
(***************************************************************************)
(* Dream Central Storage.                                                  *)
(***************************************************************************)
Edit ==
    /\ ~gone
    /\ catalog < MaxEdits
    /\ catalog' = catalog + 1
    /\ UNCHANGED <<gone, cache, client, activities, log, task, met>>

Delete ==
    /\ ~gone
    /\ gone' = TRUE
    /\ UNCHANGED <<catalog, cache, client, activities, log, task, met>>

(***************************************************************************)
(* A task comes in: it meets the ones in flight.                           *)
(***************************************************************************)
Join(t, kind, edit, pc) ==
    LET others == {u \in Tasks : InFlight(u)}
    IN  /\ task[t].pc = "none"
        /\ task' = [task EXCEPT ![t].pc = pc, ![t].kind = kind, ![t].announced = edit]
        /\ met' = [u \in Tasks |-> IF u = t THEN others
                                   ELSE IF u \in others THEN met[u] \cup {t} ELSE met[u]]
        /\ UNCHANGED <<catalog, gone, cache, client, activities>>

\* POST dream-storage: the event is logged as pending, its task queued.  DCS
\* may deliver an event late or twice.
Receive(t, kind, edit) ==
    /\ CASE kind = "book.created" -> edit = 1
         [] kind = "book.updated" -> edit \in 2..catalog
         [] kind = "book.deleted" -> gone /\ edit = catalog
    /\ Join(t, kind, edit, "queued")
    /\ log' = [log EXCEPT ![t] = "pending"]

\* POST import-activities, or a page that needs the config.
Request(t, kind) ==
    /\ Join(t, kind, 0, IF kind = "videos" THEN "find" ELSE "lookup")
    /\ UNCHANGED log

-------------------------------------------------------------------------------
(***************************************************************************)
(* process_webhook_event: up to MaxRetries attempts.                       *)
(***************************************************************************)
\* What a task counts and has read is gone when it ends, or when its import does.
At(r, pc) ==
    IF pc \in {"finish", "over", "lost"}
    THEN [r EXCEPT !.pc = pc, !.attempt = 0, !.config = NotCached, !.found = {}]
    ELSE [r EXCEPT !.pc = pc]

GoTo(t, pc) == task' = [task EXCEPT ![t] = At(task[t], pc)]

Begin(t) ==
    /\ task[t].pc = "queued"
    /\ log' = [log EXCEPT ![t] = "processing"]
    /\ GoTo(t, "working")
    /\ UNCHANGED <<catalog, gone, cache, client, activities, met>>

\* Mutant: the client keeps its copy.
InvalidateCache(t) ==
    /\ task[t].pc = "working"
    /\ cache' = IF task[t].kind = "book.updated"
                THEN [cache EXCEPT ![task[t].worker] = NotCached] ELSE cache
    /\ GoTo(t, IF task[t].kind = "book.deleted" THEN "select" ELSE "lookup")
    /\ UNCHANGED <<catalog, gone, client, activities, log, met>>

\* The caches' locks are free whenever the event loop runs this code: the
\* invalidations of an event are one step.  Of DCSCache only book.updated drops the
\* config, of the client each event all that it has (invalidate_cache).
Invalidate(t) ==
    /\ task[t].pc = "working"
    /\ cache' = IF task[t].kind = "book.updated"
                THEN [cache EXCEPT ![task[t].worker] = NotCached] ELSE cache
    /\ client' = [client EXCEPT ![task[t].worker] = NotCached]
    /\ GoTo(t, IF task[t].kind = "book.deleted" THEN "select" ELSE "lookup")
    /\ UNCHANGED <<catalog, gone, activities, log, met>>

\* Mutant: the attempts are not counted.
AttemptFailsAgain(t) ==
    /\ task[t].pc = "working"
    /\ log' = [log EXCEPT ![t] = "retrying"]
    /\ GoTo(t, "queued")
    /\ UNCHANGED <<catalog, gone, cache, client, activities, met>>

\* An exception outside the import (the tests let the cache raise one): the
\* next attempt follows after 1 and 2 seconds, none after the third.
AttemptFails(t) ==
    /\ task[t].pc = "working"
    /\ \/ /\ task[t].attempt + 1 < MaxRetries
          /\ log' = [log EXCEPT ![t] = "retrying"]
          /\ task' = [task EXCEPT ![t].attempt = @ + 1, ![t].pc = "queued"]
       \/ /\ task[t].attempt + 1 = MaxRetries
          /\ log' = [log EXCEPT ![t] = "failed"]
          /\ GoTo(t, "over")
    /\ UNCHANGED <<catalog, gone, cache, client, activities, met>>

Finish(t) ==
    /\ task[t].pc = "finish"
    /\ log' = [log EXCEPT ![t] = "success"]
    /\ GoTo(t, "over")
    /\ UNCHANGED <<catalog, gone, cache, client, activities, met>>

-------------------------------------------------------------------------------
(***************************************************************************)
(* _import_book_activities.                                                *)
(***************************************************************************)
\* What follows the import: an event commits its status, a request is over.
Rest(t) == IF task[t].kind \in Events THEN "finish" ELSE "over"

\* The config is there: a page shows it, an import goes on with it.
Obtain(t, config) ==
    IF task[t].kind \in {"view", "videos"} THEN GoTo(t, Rest(t))
    ELSE task' = [task EXCEPT ![t].config = config, ![t].pc = "select"]

\* DCSCache after config was obtained, or could not be: the videos leave it alone.
Cached(t, config) ==
    IF task[t].kind = "videos" THEN cache ELSE [cache EXCEPT ![task[t].worker] = config]

LookUp(t) ==
    LET w == task[t].worker
    IN  /\ task[t].pc = "lookup"
        /\ \/ cache[w] # NotCached /\ Obtain(t, cache[w])
           \/ cache[w] = NotCached /\ GoTo(t, "find")
        /\ UNCHANGED <<catalog, gone, cache, client, activities, log, met>>

\* DCS has answered which book it is.  What the client's cache has is taken over at
\* once, however old it is; else DCS is asked.
FindBook(t) ==
    LET w == task[t].worker
    IN  /\ task[t].pc = "find"
        /\ ~gone
        /\ \/ /\ client[w] # NotCached
              /\ cache' = Cached(t, client[w])
              /\ Obtain(t, client[w])
           \/ /\ client[w] = NotCached
              /\ GoTo(t, "fetch")
              /\ UNCHANGED cache
        /\ UNCHANGED <<catalog, gone, client, activities, log, met>>

\* DCS reads the config it answers the client's request with.
Answer(t) ==
    /\ task[t].pc = "fetch"
    /\ ~gone
    /\ task' = [task EXCEPT ![t].config = catalog, ![t].pc = "store"]
    /\ UNCHANGED <<catalog, gone, cache, client, activities, log, met>>

\* The answer arrives and is put into both caches, whatever happened since DCS read it.
Store(t) ==
    /\ task[t].pc = "store"
    /\ client' = [client EXCEPT ![task[t].worker] = task[t].config]
    /\ cache' = Cached(t, task[t].config)
    /\ Obtain(t, task[t].config)
    /\ UNCHANGED <<catalog, gone, activities, log, met>>

\* No such book, no config, DCS is down or too slow: None is cached when the fetch
\* returned it.  Or the config, cached by now, cannot be parsed.  An event goes on as
\* if the import had succeeded.
ImportFails(t) ==
    /\ \/ task[t].pc = "lookup" /\ UNCHANGED cache
       \/ task[t].pc = "find" /\ cache' \in {cache, Cached(t, NotCached)}
       \/ task[t].pc = "fetch" /\ cache' = Cached(t, NotCached)
       \/ task[t].pc = "select" /\ task[t].kind # "book.deleted" /\ UNCHANGED cache
    /\ GoTo(t, Rest(t))
    /\ UNCHANGED <<catalog, gone, client, activities, log, met>>

Select(t) ==
    /\ task[t].pc = "select"
    /\ task' = [task EXCEPT ![t].found = activities, ![t].pc = "commit"]
    /\ UNCHANGED <<catalog, gone, cache, client, activities, log, met>>

\* Mutant: the rows are inserted beside the ones there are.
CommitBeside(t) ==
    /\ task[t].pc = "commit"
    /\ activities' = activities \cup {[task |-> t, config |-> task[t].config]}
    /\ GoTo(t, Rest(t))
    /\ UNCHANGED <<catalog, gone, cache, client, log, met>>

\* Deletes and inserts commit together.  Rows another task has deleted since
\* they were read are only a warning; rows it has inserted stay.
Commit(t) ==
    /\ task[t].pc = "commit"
    /\ activities' =
          (activities \ task[t].found)
          \cup (IF task[t].kind = "book.deleted" THEN {}
                ELSE {[task |-> t, config |-> task[t].config]})
    /\ GoTo(t, Rest(t))
    /\ UNCHANGED <<catalog, gone, cache, client, log, met>>

-------------------------------------------------------------------------------
(***************************************************************************)
(* Faults.                                                                 *)
(***************************************************************************)
\* A failing statement or commit: nothing rolls the session back, so the
\* handlers' own commits fail as well, and the task ends with the status it
\* last committed.
DatabaseFails(t) ==
    /\ task[t].pc \in {"queued", "working", "select", "commit", "finish"}
    /\ GoTo(t, "lost")
    /\ UNCHANGED <<catalog, gone, cache, client, activities, log, met>>

\* A worker restarts (deployment, crash, --max-requests): its tasks and its
\* caches are gone, and nothing takes up the events it had in work.
Restart(w) ==
    /\ \E t \in Tasks : InFlight(t) /\ task[t].worker = w
    /\ task' = [t \in Tasks |-> IF InFlight(t) /\ task[t].worker = w
                                THEN At(task[t], "lost") ELSE task[t]]
    /\ cache' = [cache EXCEPT ![w] = NotCached]
    /\ client' = [client EXCEPT ![w] = NotCached]
    /\ UNCHANGED <<catalog, gone, activities, log, met>>

\* The time to live of a copy is over; the client's also goes at the events of other
\* books and of publishers.
Expire(w) ==
    /\ \/ /\ cache[w] # NotCached
          /\ cache' = [cache EXCEPT ![w] = NotCached]
          /\ UNCHANGED client
       \/ /\ client[w] # NotCached
          /\ client' = [client EXCEPT ![w] = NotCached]
          /\ UNCHANGED cache
    /\ UNCHANGED <<catalog, gone, activities, log, task, met>>

-------------------------------------------------------------------------------
TaskStep(t) ==
    \/ Begin(t)
    \/ Invalidate(t)
    \/ AttemptFails(t)
    \/ LookUp(t)
    \/ FindBook(t)
    \/ Answer(t)
    \/ Store(t)
    \/ ImportFails(t)
    \/ Select(t)
    \/ Commit(t)
    \/ Finish(t)

Next ==
    \/ Edit
    \/ Delete
    \/ \E t \in Tasks :
          \/ \E kind \in Events, edit \in Edits : Receive(t, kind, edit)
          \/ \E kind \in Requests : Request(t, kind)
          \/ TaskStep(t)
          \/ DatabaseFails(t)
    \/ \E w \in Workers : Restart(w) \/ Expire(w)

\* Every await of a task has a timeout, so a task that is not lost goes on.
Spec == Init /\ [][Next]_vars /\ \A t \in Tasks : WF_vars(TaskStep(t))

-------------------------------------------------------------------------------
TaskRecord ==
    [pc        : {"none", "queued", "working", "lookup", "find", "fetch", "store",
                  "select", "commit", "finish", "over", "lost"},
     kind      : Kinds,
     worker    : Workers,
     announced : Edits \cup {0},
     attempt   : 0..(MaxRetries - 1),
     config    : Edits \cup {NotCached},
     found     : SUBSET Batch]

TypeOK ==
    /\ catalog \in Edits
    /\ gone \in BOOLEAN
    /\ cache \in [Workers -> Edits \cup {NotCached}]
    /\ client \in [Workers -> Edits \cup {NotCached}]
    /\ activities \subseteq Batch
    /\ log \in [Tasks -> {"none", "pending", "processing", "retrying", "success", "failed"}]
    /\ task \in [Tasks -> TaskRecord]
    /\ met \in [Tasks -> SUBSET Tasks]

\* A book has its activities twice only after two tasks that overlapped, and
\* an import that overlaps none of them leaves it with one set again.
DuplicatesOverlapped ==
    \A b, c \in activities : b # c => c.task \in met[b.task]

\* An event imports a config older than the edit it announces only if another task of
\* the same worker was in flight beside it: neither DCSCache nor the client's cache
\* hands it a copy from before its own invalidation.
StaleImportOverlapped ==
    \A b \in activities :
        b.config < task[b.task].announced =>
            \E u \in met[b.task] : task[u].worker = task[b.task].worker

\* An event that is logged is marked as processed in the end, after three
\* attempts at most, unless its task is lost.
EventEnds ==
    \A t \in Tasks :
        log[t] # "none" ~> log[t] \in {"success", "failed"} \/ task[t].pc = "lost"

===============================================================================
