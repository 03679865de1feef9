-------------------------- MODULE WebhookImportProofs --------------------------
(***************************************************************************)
(* What WebhookImport guarantees for any number of overlapping tasks, any  *)
(* number of workers and any number of edits.                              *)
(***************************************************************************)
EXTENDS WebhookImport, TLAPS

-------------------------------------------------------------------------------
(***************************************************************************)
(* Types.                                                                  *)
(***************************************************************************)
LEMMA InitType == Init => TypeOK
<1> SUFFICES ASSUME Init PROVE TypeOK
    OBVIOUS
<1>1. ASSUME NEW w \in Workers PROVE NoTask(w) \in TaskRecord
    BY DEF NoTask, TaskRecord, NotCached, Kinds, Requests, MaxRetries
<1>2. task \in [Tasks -> TaskRecord]
    BY <1>1 DEF Init
<1>3. catalog \in Edits
    BY WebhookAssumption DEF Init, Edits
<1> QED BY <1>2, <1>3 DEF Init, TypeOK, NotCached

LEMMA JoinType ==
    ASSUME TypeOK, NEW t \in Tasks, NEW kind \in Kinds, NEW edit \in Edits \cup {0},
           NEW pc \in {"queued", "lookup", "find"}, Join(t, kind, edit, pc)
    PROVE  /\ task' \in [Tasks -> TaskRecord]
           /\ met' \in [Tasks -> SUBSET Tasks]
           /\ UNCHANGED <<catalog, gone, cache, client, activities>>
<1>1. task' \in [Tasks -> TaskRecord]
    <2>1. task' = [task EXCEPT ![t] = [task[t] EXCEPT !.pc = pc, !.kind = kind, !.announced = edit]]
        BY DEF Join, TypeOK
    <2>2. [task[t] EXCEPT !.pc = pc, !.kind = kind, !.announced = edit] \in TaskRecord
        BY DEF TypeOK, TaskRecord
    <2> QED BY <2>1, <2>2 DEF TypeOK
<1>2. met' \in [Tasks -> SUBSET Tasks]
    <2> DEFINE others == {u \in Tasks : InFlight(u)}
    <2>1. others \subseteq Tasks
        OBVIOUS
    <2>2. met' = [u \in Tasks |-> IF u = t THEN others
                                  ELSE IF u \in others THEN met[u] \cup {t} ELSE met[u]]
        BY DEF Join
    <2> HIDE DEF others
    <2> QED BY <2>1, <2>2 DEF TypeOK
<1> QED BY <1>1, <1>2 DEF Join

Places ==
    {"none", "queued", "working", "lookup", "find", "fetch", "store", "select", "commit",
     "finish", "over", "lost"}

\* Where a task goes to, it keeps what it was told, and what it has read while its
\* import goes on.
LEMMA AtFields ==
    ASSUME NEW r \in TaskRecord, NEW pc \in Places
    PROVE  /\ At(r, pc) \in TaskRecord
           /\ At(r, pc).pc = pc /\ At(r, pc).kind = r.kind
           /\ At(r, pc).worker = r.worker /\ At(r, pc).announced = r.announced
           /\ pc \notin {"finish", "over", "lost"} => At(r, pc).config = r.config
<1>1. 0 \in 0..(MaxRetries - 1)
    BY DEF MaxRetries
<1>2. CASE pc \in {"finish", "over", "lost"}
    BY <1>1, <1>2 DEF At, TaskRecord
<1>3. CASE pc \notin {"finish", "over", "lost"}
    BY <1>3 DEF At, TaskRecord, Places
<1> QED BY <1>2, <1>3

LEMMA GoToStep ==
    ASSUME TypeOK, NEW t \in Tasks, NEW pc \in Places, GoTo(t, pc)
    PROVE  /\ task' \in [Tasks -> TaskRecord]
           /\ \A u \in Tasks \ {t} : task'[u] = task[u]
           /\ task'[t].pc = pc /\ task'[t].kind = task[t].kind
           /\ task'[t].worker = task[t].worker /\ task'[t].announced = task[t].announced
           /\ pc \notin {"finish", "over", "lost"} => task'[t].config = task[t].config
<1>1. task \in [Tasks -> TaskRecord] /\ task' = [task EXCEPT ![t] = At(task[t], pc)]
    BY DEF GoTo, TypeOK
<1>2. task'[t] = At(task[t], pc) /\ task[t] \in TaskRecord
    BY <1>1
<1> QED BY <1>1, <1>2, AtFields

LEMMA ObtainStep ==
    ASSUME TypeOK, NEW t \in Tasks, NEW config \in Edits \cup {NotCached}, Obtain(t, config)
    PROVE  /\ task' \in [Tasks -> TaskRecord]
           /\ \A u \in Tasks \ {t} : task'[u] = task[u]
           /\ task'[t].kind = task[t].kind
           /\ task'[t].worker = task[t].worker /\ task'[t].announced = task[t].announced
           /\ \/ task'[t].pc \in {"finish", "over"}
              \/ task'[t].pc = "select" /\ task'[t].config = config
<1>1. CASE GoTo(t, Rest(t))
    <2>1. Rest(t) \in Places /\ Rest(t) \in {"finish", "over"}
        BY DEF Rest, Places
    <2> QED BY <1>1, <2>1, GoToStep
<1>2. CASE task' = [task EXCEPT ![t].config = config, ![t].pc = "select"]
    <2>1. task' = [task EXCEPT ![t] = [task[t] EXCEPT !.config = config, !.pc = "select"]]
        BY <1>2 DEF TypeOK
    <2>2. [task[t] EXCEPT !.config = config, !.pc = "select"] \in TaskRecord
        BY DEF TypeOK, TaskRecord
    <2> QED BY <2>1, <2>2 DEF TypeOK, TaskRecord
<1> QED BY <1>1, <1>2 DEF Obtain

LEMMA NextType == TypeOK /\ [Next]_vars => TypeOK'
<1> SUFFICES ASSUME TypeOK, [Next]_vars PROVE TypeOK'
    OBVIOUS
<1>1. CASE Edit
    BY <1>1, WebhookAssumption DEF TypeOK, Edit, Edits
<1>2. CASE Delete
    BY <1>2 DEF TypeOK, Delete
<1>3. ASSUME NEW t \in Tasks, NEW kind \in Events, NEW edit \in Edits, Receive(t, kind, edit)
      PROVE  TypeOK'
    <2>1. kind \in Kinds /\ Join(t, kind, edit, "queued")
        BY <1>3 DEF Receive, Kinds
    <2>2. log' = [log EXCEPT ![t] = "pending"]
        BY <1>3 DEF Receive
    <2> QED BY <2>1, <2>2, JoinType DEF TypeOK
<1>4. ASSUME NEW t \in Tasks, NEW kind \in Requests, Request(t, kind) PROVE TypeOK'
    <2> DEFINE pc == IF kind = "videos" THEN "find" ELSE "lookup"
    <2>1. kind \in Kinds /\ pc \in {"queued", "lookup", "find"}
          /\ Join(t, kind, 0, pc) /\ UNCHANGED log
        BY <1>4 DEF Request, Kinds
    <2> HIDE DEF pc
    <2> QED BY <2>1, JoinType DEF TypeOK
<1>5. ASSUME NEW t \in Tasks, Begin(t) PROVE TypeOK'
    BY <1>5, GoToStep DEF TypeOK, Begin, Places
<1>6. ASSUME NEW t \in Tasks, Invalidate(t) PROVE TypeOK'
    <2>1. task' \in [Tasks -> TaskRecord]
        BY <1>6, GoToStep DEF Invalidate, Places
    <2>2. cache' \in [Workers -> Edits \cup {NotCached}]
          /\ client' \in [Workers -> Edits \cup {NotCached}]
        BY <1>6 DEF TypeOK, Invalidate
    <2> QED BY <1>6, <2>1, <2>2 DEF TypeOK, Invalidate
<1>7. ASSUME NEW t \in Tasks, AttemptFails(t) PROVE TypeOK'
    <2>1. task' \in [Tasks -> TaskRecord]
        <3> DEFINE n == task[t].attempt + 1
        <3>1. ASSUME n < MaxRetries
              PROVE  [task[t] EXCEPT !.attempt = n, !.pc = "queued"] \in TaskRecord
            <4>1. n \in 0..(MaxRetries - 1)
                BY <3>1 DEF TypeOK, TaskRecord, MaxRetries
            <4> HIDE DEF n
            <4> QED BY <4>1 DEF TypeOK, TaskRecord
        <3>2. CASE n < MaxRetries /\ task' = [task EXCEPT ![t].attempt = n, ![t].pc = "queued"]
            <4>1. task' = [task EXCEPT ![t] = [task[t] EXCEPT !.attempt = n, !.pc = "queued"]]
                BY <3>2 DEF TypeOK
            <4> QED BY <3>1, <3>2, <4>1 DEF TypeOK
        <3>3. CASE GoTo(t, "over")
            BY <3>3, GoToStep DEF Places
        <3> QED BY <1>7, <3>2, <3>3 DEF AttemptFails
    <2> QED BY <1>7, <2>1 DEF TypeOK, AttemptFails
<1>8. ASSUME NEW t \in Tasks, LookUp(t) PROVE TypeOK'
    <2>1. cache[task[t].worker] \in Edits \cup {NotCached}
        BY DEF TypeOK, TaskRecord
    <2>2. task' \in [Tasks -> TaskRecord]
        BY <1>8, <2>1, ObtainStep, GoToStep DEF LookUp, Places
    <2> QED BY <1>8, <2>2 DEF TypeOK, LookUp
<1>9. ASSUME NEW t \in Tasks, FindBook(t) PROVE TypeOK'
    <2>1. task[t].worker \in Workers /\ client[task[t].worker] \in Edits \cup {NotCached}
        BY DEF TypeOK, TaskRecord
    <2>2. task' \in [Tasks -> TaskRecord]
        BY <1>9, <2>1, ObtainStep, GoToStep DEF FindBook, Places
    <2>3. cache' \in [Workers -> Edits \cup {NotCached}]
        BY <1>9, <2>1 DEF TypeOK, FindBook, Cached
    <2> QED BY <1>9, <2>2, <2>3 DEF TypeOK, FindBook
<1>10. ASSUME NEW t \in Tasks, Answer(t) PROVE TypeOK'
    <2>1. [task[t] EXCEPT !.config = catalog, !.pc = "store"] \in TaskRecord
        BY DEF TypeOK, TaskRecord
    <2> QED BY <1>10, <2>1 DEF TypeOK, Answer
<1>11. ASSUME NEW t \in Tasks, Store(t) PROVE TypeOK'
    <2>1. task[t].config \in Edits \cup {NotCached} /\ task[t].worker \in Workers
        BY DEF TypeOK, TaskRecord
    <2>2. task' \in [Tasks -> TaskRecord]
        BY <1>11, <2>1, ObtainStep DEF Store
    <2>3. cache' \in [Workers -> Edits \cup {NotCached}]
          /\ client' \in [Workers -> Edits \cup {NotCached}]
        BY <1>11, <2>1 DEF TypeOK, Store, Cached
    <2> QED BY <1>11, <2>2, <2>3 DEF TypeOK, Store
<1>12. ASSUME NEW t \in Tasks, ImportFails(t) PROVE TypeOK'
    <2>1. task' \in [Tasks -> TaskRecord]
        BY <1>12, GoToStep DEF ImportFails, Rest, Places
    <2>2. Cached(t, NotCached) \in [Workers -> Edits \cup {NotCached}]
        BY DEF TypeOK, Cached
    <2>3. cache' \in [Workers -> Edits \cup {NotCached}]
        BY <1>12, <2>2 DEF ImportFails, TypeOK
    <2> QED BY <1>12, <2>1, <2>3 DEF TypeOK, ImportFails
<1>13. ASSUME NEW t \in Tasks, Select(t) PROVE TypeOK'
    <2>1. [task[t] EXCEPT !.found = activities, !.pc = "commit"] \in TaskRecord
        BY DEF TypeOK, TaskRecord
    <2> QED BY <1>13, <2>1 DEF TypeOK, Select
<1>14. ASSUME NEW t \in Tasks, Commit(t) PROVE TypeOK'
    <2>1. task' \in [Tasks -> TaskRecord]
        BY <1>14, GoToStep DEF Commit, Rest, Places
    <2>2. [task |-> t, config |-> task[t].config] \in Batch
        BY DEF TypeOK, TaskRecord, Batch
    <2> QED BY <1>14, <2>1, <2>2 DEF TypeOK, Commit
<1>15. ASSUME NEW t \in Tasks, Finish(t) \/ DatabaseFails(t) PROVE TypeOK'
    BY <1>15, GoToStep DEF TypeOK, Finish, DatabaseFails, Places
<1>16. ASSUME NEW w \in Workers, Restart(w) PROVE TypeOK'
    <2>1. \A t \in Tasks : At(task[t], "lost") \in TaskRecord
        BY AtFields DEF TypeOK, Places
    <2> QED BY <1>16, <2>1 DEF TypeOK, Restart
<1>17. ASSUME NEW w \in Workers, Expire(w) PROVE TypeOK'
    BY <1>17 DEF TypeOK, Expire
<1>18. CASE UNCHANGED vars
    BY <1>18 DEF TypeOK, vars
<1> QED BY <1>1, <1>2, <1>3, <1>4, <1>5, <1>6, <1>7, <1>8, <1>9, <1>10, <1>11, <1>12, <1>13,
           <1>14, <1>15, <1>16, <1>17, <1>18 DEF Next, TaskStep

\* Edits, statuses, tasks and batches keep their types, and no event is
\* attempted more than MaxRetries times.
THEOREM TypeCorrect == Spec => []TypeOK
BY InitType, NextType, PTL DEF Spec

-------------------------------------------------------------------------------
(***************************************************************************)
(* Duplicates.  A task that is about to commit has overlapped with every   *)
(* task whose rows it has not read: those rows were committed since.       *)
(***************************************************************************)
Beside ==
    /\ \A t, u \in Tasks : t # u /\ InFlight(t) /\ InFlight(u) => u \in met[t]
    /\ \A t, u \in Tasks : u \in met[t] =>
          t \in met[u] /\ task[t].pc # "none" /\ task[u].pc # "none"
    /\ \A b \in activities : task[b.task].pc # "none"
    /\ \A t \in Tasks : task[t].pc = "commit" =>
          \A b \in activities \ task[t].found : b.task \in met[t]
    /\ DuplicatesOverlapped

\* A step at which no task comes in, reads the rows or commits any.
Quiet ==
    /\ UNCHANGED <<activities, met>>
    /\ \A u \in Tasks :
          task'[u] = task[u] \/ (InFlight(u) /\ task'[u].pc \notin {"none", "commit"})

LEMMA QuietBeside ==
    ASSUME TypeOK, Beside, Quiet
    PROVE  Beside'
<1> USE DEF Quiet
<1>1. \A u \in Tasks : InFlight(u)' => InFlight(u)
    BY DEF InFlight
<1>2. \A u \in Tasks : task'[u].pc = "none" <=> task[u].pc = "none"
    BY DEF InFlight
<1>3. \A u \in Tasks : task'[u].pc = "commit" => task'[u] = task[u]
    OBVIOUS
<1>4. \A b \in activities : b.task \in Tasks
    BY DEF TypeOK, Batch
<1> QED BY <1>1, <1>2, <1>3, <1>4 DEF Beside, DuplicatesOverlapped

LEMMA JoinBeside ==
    ASSUME TypeOK, Beside, NEW t \in Tasks, NEW kind, NEW edit, NEW pc \in {"queued", "lookup", "find"},
           Join(t, kind, edit, pc)
    PROVE  Beside'
<1> DEFINE others == {u \in Tasks : InFlight(u)}
<1>1. /\ task[t].pc = "none" /\ t \notin others /\ UNCHANGED activities
      /\ met' = [u \in Tasks |-> IF u = t THEN others
                                 ELSE IF u \in others THEN met[u] \cup {t} ELSE met[u]]
    BY DEF Join, InFlight
<1>2. /\ \A u \in Tasks \ {t} : task'[u] = task[u]
      /\ task'[t].pc = pc
    BY DEF Join, TypeOK, TaskRecord
<1>3. \A u \in Tasks : (InFlight(u)' <=> u = t \/ u \in others)
    BY <1>2 DEF InFlight
<1>4. \A u \in Tasks : task[u].pc # "none" => met[u] \subseteq met'[u]
    BY <1>1
<1>5. \A u \in Tasks : t \notin met[u] /\ (u \in others => task[u].pc # "none")
    BY <1>1 DEF Beside, InFlight
<1>6. \A b \in activities : b.task \in Tasks /\ b.task # t
    BY <1>1 DEF TypeOK, Batch, Beside
<1>7. \A u \in others : u \in Tasks
    OBVIOUS
<1>8. \A u, v \in Tasks : u # v /\ InFlight(u)' /\ InFlight(v)' => v \in met'[u]
    <2> SUFFICES ASSUME NEW u \in Tasks, NEW v \in Tasks, u # v, InFlight(u)', InFlight(v)'
                 PROVE  v \in met'[u]
        OBVIOUS
    <2>1. CASE u = t
        BY <1>1, <1>3, <2>1
    <2>2. CASE v = t
        BY <1>1, <1>3, <2>2
    <2>3. CASE u # t /\ v # t
        BY <1>1, <1>3, <2>3 DEF Beside
    <2> QED BY <2>1, <2>2, <2>3
<1>9. \A u, v \in Tasks : v \in met'[u] =>
          u \in met'[v] /\ task'[u].pc # "none" /\ task'[v].pc # "none"
    <2> SUFFICES ASSUME NEW u \in Tasks, NEW v \in Tasks, v \in met'[u]
                 PROVE  u \in met'[v] /\ task'[u].pc # "none" /\ task'[v].pc # "none"
        OBVIOUS
    <2>1. CASE u = t
        BY <1>1, <1>2, <1>5, <2>1
    <2>2. CASE v = t /\ u # t
        BY <1>1, <1>2, <1>5, <2>2
    <2>3. CASE u # t /\ v # t
        BY <1>1, <1>2, <2>3 DEF Beside
    <2> QED BY <2>1, <2>2, <2>3
<1>10. \A u \in Tasks : task'[u].pc = "commit" =>
          \A b \in activities' \ task'[u].found : b.task \in met'[u]
    BY <1>1, <1>2, <1>4 DEF Beside
<1>11. DuplicatesOverlapped'
    BY <1>1, <1>4, <1>6 DEF Beside, DuplicatesOverlapped
<1>12. \A b \in activities' : task'[b.task].pc # "none"
    BY <1>1, <1>2, <1>6 DEF Beside
<1> QED BY <1>8, <1>9, <1>10, <1>11, <1>12 DEF Beside

LEMMA SelectBeside ==
    ASSUME TypeOK, Beside, NEW t \in Tasks, Select(t)
    PROVE  Beside'
<1>1. UNCHANGED <<activities, met>> /\ task[t].pc = "select"
    BY DEF Select
<1>2. /\ \A u \in Tasks \ {t} : task'[u] = task[u]
      /\ task'[t].pc = "commit" /\ task'[t].found = activities
    BY DEF Select, TypeOK, TaskRecord
<1>3. \A u \in Tasks : InFlight(u)' <=> InFlight(u)
    BY <1>1, <1>2 DEF InFlight
<1>4. \A u \in Tasks : task'[u].pc = "none" <=> task[u].pc = "none"
    BY <1>1, <1>2
<1>5. \A b \in activities : b.task \in Tasks
    BY DEF TypeOK, Batch
<1>6. \A u \in Tasks : task'[u].pc = "commit" =>
          \A b \in activities' \ task'[u].found : b.task \in met'[u]
    BY <1>1, <1>2 DEF Beside
<1> QED BY <1>1, <1>3, <1>4, <1>5, <1>6 DEF Beside, DuplicatesOverlapped

LEMMA CommitBesideOthers ==
    ASSUME TypeOK, Beside, NEW t \in Tasks, Commit(t)
    PROVE  Beside'
<1> DEFINE new == [task |-> t, config |-> task[t].config]
<1>1. UNCHANGED met /\ task[t].pc = "commit" /\ InFlight(t)
    BY DEF Commit, InFlight
<1>2. /\ \A u \in Tasks \ {t} : task'[u] = task[u]
      /\ task'[t].pc \in {"finish", "over"}
    BY GoToStep DEF Commit, Rest, Places
<1>3. activities' \subseteq (activities \ task[t].found) \cup {new}
    BY DEF Commit
<1>4. new.task = t
    OBVIOUS
<1> HIDE DEF new
<1>5. \A b \in activities : b.task \in Tasks
    BY DEF TypeOK, Batch
<1>6. \A u \in Tasks : (InFlight(u)' => InFlight(u)) /\ (task'[u].pc = "none" <=> task[u].pc = "none")
    BY <1>1, <1>2 DEF InFlight
<1>7. DuplicatesOverlapped'
    <2> SUFFICES ASSUME NEW b \in activities', NEW c \in activities', b # c
                 PROVE  c.task \in met[b.task]
        BY <1>1 DEF DuplicatesOverlapped
    <2>1. CASE b = new
        BY <1>1, <1>3, <1>4, <2>1 DEF Beside
    <2>2. CASE c = new /\ b # new
        <3>1. b.task \in Tasks /\ b.task \in met[t]
            BY <1>1, <1>3, <1>5, <2>2 DEF Beside
        <3> QED BY <1>4, <2>2, <3>1 DEF Beside
    <2>3. CASE b # new /\ c # new
        BY <1>3, <2>3 DEF Beside, DuplicatesOverlapped
    <2> QED BY <2>1, <2>2, <2>3
<1>8. \A b \in activities' : task'[b.task].pc # "none"
    BY <1>1, <1>2, <1>3, <1>4, <1>5, <1>6 DEF Beside
<1>9. \A u \in Tasks : task'[u].pc = "commit" =>
          \A b \in activities' \ task'[u].found : b.task \in met'[u]
    <2> SUFFICES ASSUME NEW u \in Tasks, task'[u].pc = "commit",
                        NEW b \in activities', b \notin task'[u].found
                 PROVE  b.task \in met[u]
        BY <1>1
    <2>1. u # t /\ task'[u] = task[u] /\ InFlight(u)
        BY <1>2 DEF InFlight
    <2>2. CASE b = new
        BY <1>1, <1>4, <2>1, <2>2 DEF Beside
    <2>3. CASE b # new
        BY <1>3, <2>1, <2>3 DEF Beside
    <2> QED BY <2>2, <2>3
<1>10. \A u, v \in Tasks : v \in met'[u] =>
          u \in met'[v] /\ task'[u].pc # "none" /\ task'[v].pc # "none"
    BY <1>1, <1>6 DEF Beside
<1>11. \A u, v \in Tasks : u # v /\ InFlight(u)' /\ InFlight(v)' => v \in met'[u]
    BY <1>1, <1>6 DEF Beside
<1> QED BY <1>7, <1>8, <1>9, <1>10, <1>11 DEF Beside

\* The steps of one task that neither read nor write the rows.
LEMMA OwnStep ==
    ASSUME TypeOK, NEW t \in Tasks,
           TaskStep(t) \/ DatabaseFails(t), ~Select(t), ~Commit(t)
    PROVE  /\ UNCHANGED <<activities, met>>
           /\ \A u \in Tasks \ {t} : task'[u] = task[u]
           /\ InFlight(t) /\ task'[t].pc \notin {"none", "commit"}
<1> USE DEF InFlight, Places
<1>0. /\ cache[task[t].worker] \in Edits \cup {NotCached}
      /\ client[task[t].worker] \in Edits \cup {NotCached}
      /\ task[t].config \in Edits \cup {NotCached}
    BY DEF TypeOK, TaskRecord
<1>1. CASE Begin(t)
    BY <1>1, GoToStep DEF Begin
<1>2. CASE Invalidate(t)
    BY <1>2, GoToStep DEF Invalidate
<1>3. CASE AttemptFails(t)
    BY <1>3, GoToStep DEF AttemptFails, TypeOK, TaskRecord
<1>4. CASE LookUp(t)
    BY <1>0, <1>4, ObtainStep, GoToStep DEF LookUp
<1>5. CASE FindBook(t)
    BY <1>0, <1>5, ObtainStep, GoToStep DEF FindBook
<1>6. CASE Answer(t)
    BY <1>6 DEF Answer, TypeOK, TaskRecord
<1>7. CASE Store(t)
    BY <1>0, <1>7, ObtainStep DEF Store
<1>8. CASE ImportFails(t)
    BY <1>8, GoToStep DEF ImportFails, Rest
<1>9. CASE Finish(t)
    BY <1>9, GoToStep DEF Finish
<1>10. CASE DatabaseFails(t)
    BY <1>10, GoToStep DEF DatabaseFails
<1> QED BY <1>1, <1>2, <1>3, <1>4, <1>5, <1>6, <1>7, <1>8, <1>9, <1>10 DEF TaskStep

LEMMA NextBeside == TypeOK /\ Beside /\ [Next]_vars => Beside'
<1> SUFFICES ASSUME TypeOK, Beside, [Next]_vars PROVE Beside'
    OBVIOUS
<1>1. ASSUME NEW t \in Tasks, NEW kind \in Events, NEW edit \in Edits, Receive(t, kind, edit)
      PROVE  Beside'
    BY <1>1, JoinBeside DEF Receive
<1>2. ASSUME NEW t \in Tasks, NEW kind \in Requests, Request(t, kind) PROVE Beside'
    <2>1. Join(t, kind, 0, "find") \/ Join(t, kind, 0, "lookup")
        BY <1>2 DEF Request
    <2> QED BY <2>1, JoinBeside
<1>3. ASSUME NEW t \in Tasks, TaskStep(t) \/ DatabaseFails(t) PROVE Beside'
    <2>1. CASE ~Select(t) /\ ~Commit(t)
        <3>1. Quiet
            BY <1>3, <2>1, OwnStep DEF Quiet
        <3> QED BY <3>1, QuietBeside
    <2>2. CASE Select(t)
        BY <2>2, SelectBeside
    <2>3. CASE Commit(t)
        BY <2>3, CommitBesideOthers
    <2> QED BY <2>1, <2>2, <2>3
<1>4. ASSUME NEW w \in Workers, Restart(w) PROVE Beside'
    <2>1. UNCHANGED <<activities, met>>
        BY <1>4 DEF Restart
    <2>2. ASSUME NEW u \in Tasks
          PROVE  task'[u] = task[u] \/ (InFlight(u) /\ task'[u].pc \notin {"none", "commit"})
        BY <1>4, AtFields DEF Restart, TypeOK, Places
    <2>3. Quiet
        BY <2>1, <2>2 DEF Quiet
    <2> QED BY <2>3, QuietBeside
<1>5. CASE Edit \/ Delete \/ (\E w \in Workers : Expire(w)) \/ UNCHANGED vars
    <2>1. Quiet
        BY <1>5 DEF Edit, Delete, Expire, vars, Quiet
    <2> QED BY <2>1, QuietBeside
<1> QED BY <1>1, <1>2, <1>3, <1>4, <1>5 DEF Next

LEMMA InitBeside == Init => Beside
BY DEF Init, Beside, InFlight, NoTask, DuplicatesOverlapped

\* A book has its activities twice only after two tasks that overlapped, for
\* any number of tasks and workers and after any deliveries and restarts.
THEOREM DuplicatesStayOverlapped == Spec => []DuplicatesOverlapped
<1>1. Beside => DuplicatesOverlapped
    BY DEF Beside
<1> QED BY <1>1, InitType, InitBeside, NextType, NextBeside, PTL DEF Spec

-------------------------------------------------------------------------------
(***************************************************************************)
(* Stale imports.  What a task may find in its worker's caches, or already *)
(* holds, is no older than the edit it was told of, or it is excused: some *)
(* other task of the worker was in flight beside it.                       *)
(***************************************************************************)
Excused(t, config) ==
    config < task[t].announced => \E u \in met[t] : task[u].worker = task[t].worker

FreshTask(t) ==
    /\ task[t].announced <= catalog
    /\ task[t].kind \notin {"book.updated", "book.deleted"} => task[t].announced <= 1
    /\ task[t].pc = "lookup" /\ cache[task[t].worker] # NotCached =>
          Excused(t, cache[task[t].worker])
    /\ task[t].pc \in {"lookup", "find"} /\ client[task[t].worker] # NotCached =>
          Excused(t, client[task[t].worker])
    /\ task[t].pc \in {"store", "select", "commit"} /\ task[t].kind # "book.deleted" =>
          Excused(t, task[t].config)

Fresh ==
    /\ \A t \in Tasks : FreshTask(t)
    /\ StaleImportOverlapped

\* Tasks keep their workers, and what they were told once they are in flight;
\* so an excuse stays one.
LEMMA ExcuseStays ==
    ASSUME TypeOK, NEW t \in Tasks, NEW config, Excused(t, config),
           task'[t].announced = task[t].announced, met[t] \subseteq met'[t],
           \A u \in Tasks : task'[u].worker = task[u].worker
    PROVE  Excused(t, config)'
BY DEF Excused, TypeOK

\* A step that leaves the rows alone and fills no cache.
LEMMA StillFresh ==
    ASSUME TypeOK, Fresh,
           UNCHANGED <<activities, met>>, catalog <= catalog', catalog' \in Edits,
           \A w \in Workers : /\ cache'[w] \in {cache[w], NotCached}
                              /\ client'[w] \in {client[w], NotCached},
           \A u \in Tasks : task'[u].worker = task[u].worker
                           /\ task'[u].announced = task[u].announced,
           \A u \in Tasks : task'[u] = task[u] \/ FreshTask(u)'
    PROVE  Fresh'
<1>1. ASSUME NEW u \in Tasks PROVE FreshTask(u)'
    <2>1. CASE FreshTask(u)'
        BY <2>1
    <2>2. CASE task'[u] = task[u]
        <3>1. \A config : Excused(u, config) => Excused(u, config)'
            BY ExcuseStays
        <3>2. task[u].worker \in Workers /\ task[u].announced \in Int /\ catalog \in Int
              /\ catalog' \in Int
            BY DEF TypeOK, TaskRecord, Edits
        <3>3. /\ cache'[task[u].worker] # NotCached => cache'[task[u].worker] = cache[task[u].worker]
              /\ client'[task[u].worker] # NotCached =>
                   client'[task[u].worker] = client[task[u].worker]
            BY <3>2
        <3>4. FreshTask(u)
            BY DEF Fresh
        <3>5. task[u].announced <= catalog'
            BY <3>2, <3>4 DEF FreshTask
        <3> QED BY <2>2, <3>1, <3>3, <3>4, <3>5 DEF FreshTask
    <2> QED BY <2>1, <2>2
<1>2. StaleImportOverlapped'
    BY DEF Fresh, StaleImportOverlapped, TypeOK, Batch
<1> QED BY <1>1, <1>2 DEF Fresh

\* A task that comes in was told of an edit that DCS has seen.
LEMMA JoinFresh ==
    ASSUME TypeOK, Fresh, Beside, NEW t \in Tasks, NEW kind \in Kinds,
           NEW edit \in Edits \cup {0}, NEW pc \in {"queued", "lookup", "find"}, Join(t, kind, edit, pc),
           edit <= catalog, kind \notin {"book.updated", "book.deleted"} => edit <= 1,
           pc # "queued" => edit = 0
    PROVE  Fresh'
<1>1. /\ \A u \in Tasks \ {t} : task'[u] = task[u]
      /\ task'[t].worker = task[t].worker
      /\ task'[t].pc = pc /\ task'[t].kind = kind /\ task'[t].announced = edit
    BY DEF Join, TypeOK, TaskRecord
<1>2. /\ UNCHANGED <<catalog, cache, client, activities>> /\ task[t].pc = "none"
      /\ \A u \in Tasks \ {t} : met[u] \subseteq met'[u]
    BY DEF Join
<1>3. \A u \in Tasks : task'[u].worker = task[u].worker
    BY <1>1
<1>4. ASSUME NEW u \in Tasks, u # t, NEW config, Excused(u, config) PROVE Excused(u, config)'
    BY <1>1, <1>2, <1>3, <1>4, ExcuseStays
<1>5. ASSUME NEW u \in Tasks PROVE FreshTask(u)'
    <2>1. CASE u = t
        <3>1. pc # "queued" => \A c \in Edits \cup {NotCached} : ~(c < edit)
            BY DEF Edits, NotCached
        <3>2. /\ cache[task[t].worker] \in Edits \cup {NotCached}
              /\ client[task[t].worker] \in Edits \cup {NotCached}
            BY DEF TypeOK, TaskRecord
        <3> QED BY <1>1, <1>2, <2>1, <3>1, <3>2 DEF FreshTask, Excused
    <2>2. CASE u # t
        <3>1. FreshTask(u)
            BY DEF Fresh
        <3> QED BY <1>1, <1>2, <1>4, <2>2, <3>1 DEF FreshTask
    <2> QED BY <2>1, <2>2
<1>6. StaleImportOverlapped'
    <2> SUFFICES ASSUME NEW b \in activities PROVE Excused(b.task, b.config)'
        BY <1>2 DEF StaleImportOverlapped, Excused
    <2>1. b.task \in Tasks /\ b.task # t
        BY <1>2 DEF TypeOK, Batch, Beside
    <2>2. Excused(b.task, b.config)
        BY DEF Fresh, StaleImportOverlapped, Excused
    <2> QED BY <1>4, <2>1, <2>2
<1> QED BY <1>5, <1>6 DEF Fresh

\* A task in flight excuses whoever finds what it has put into its worker's caches.
LEMMA FillFresh ==
    ASSUME TypeOK, Fresh, Beside, NEW t \in Tasks, InFlight(t),
           UNCHANGED <<catalog, activities, met>>,
           \A u \in Tasks \ {t} : task'[u] = task[u],
           task'[t].worker = task[t].worker, task'[t].announced = task[t].announced,
           \A w \in Workers \ {task[t].worker} : cache'[w] = cache[w] /\ client'[w] = client[w],
           FreshTask(t)'
    PROVE  Fresh'
<1>1. \A u \in Tasks : task'[u].worker = task[u].worker /\ task'[u].announced = task[u].announced
    OBVIOUS
<1>2. \A u \in Tasks : \A config : Excused(u, config) => Excused(u, config)'
    BY <1>1, ExcuseStays
<1>3. ASSUME NEW u \in Tasks, u # t PROVE FreshTask(u)'
    <2>0. FreshTask(u) /\ task[u].worker \in Workers
        BY DEF Fresh, TypeOK, TaskRecord
    <2>1. CASE task[u].worker = task[t].worker /\ InFlight(u)
        <3>1. t \in met[u]
            BY <1>3, <2>1 DEF Beside
        <3>2. \A config : Excused(u, config)'
            BY <1>1, <2>1, <3>1 DEF Excused
        <3> QED BY <1>3, <2>0, <3>2 DEF FreshTask
    <2>2. CASE ~(task[u].worker = task[t].worker /\ InFlight(u))
        <3>1. InFlight(u) => /\ cache'[task[u].worker] = cache[task[u].worker]
                             /\ client'[task[u].worker] = client[task[u].worker]
            BY <2>0, <2>2
        <3> QED BY <1>2, <1>3, <2>0, <3>1 DEF FreshTask, InFlight
    <2> QED BY <2>1, <2>2
<1>4. StaleImportOverlapped'
    BY <1>1 DEF Fresh, StaleImportOverlapped, TypeOK, Batch
<1> QED BY <1>3, <1>4 DEF Fresh

LEMMA CommitFresh ==
    ASSUME TypeOK, Fresh, NEW t \in Tasks, Commit(t)
    PROVE  Fresh'
<1>1. /\ \A u \in Tasks \ {t} : task'[u] = task[u]
      /\ task[t].pc = "commit" /\ task'[t].pc \in {"finish", "over"}
      /\ task'[t].worker = task[t].worker /\ task'[t].announced = task[t].announced
      /\ task'[t].kind = task[t].kind
    BY GoToStep DEF Commit, Rest, Places
<1>2. UNCHANGED <<catalog, cache, client, met>>
    BY DEF Commit
<1>3. \A u \in Tasks : task'[u].worker = task[u].worker /\ task'[u].announced = task[u].announced
    BY <1>1
<1>4. \A u \in Tasks : \A config : Excused(u, config) => Excused(u, config)'
    BY <1>2, <1>3, ExcuseStays
<1>5. ASSUME NEW u \in Tasks PROVE FreshTask(u)'
    <2>0. FreshTask(u)
        BY DEF Fresh
    <2>1. CASE u = t
        BY <1>1, <1>2, <2>0, <2>1 DEF FreshTask
    <2>2. CASE u # t
        BY <1>1, <1>2, <1>4, <2>0, <2>2 DEF FreshTask
    <2> QED BY <2>1, <2>2
<1>6. ASSUME NEW b \in activities' PROVE Excused(b.task, b.config)'
    <2>1. CASE b \in activities
        BY <1>4, <2>1 DEF Fresh, StaleImportOverlapped, Excused, TypeOK, Batch
    <2>2. CASE b \notin activities
        <3>1. b = [task |-> t, config |-> task[t].config] /\ task[t].kind # "book.deleted"
            BY <2>2 DEF Commit
        <3>2. Excused(t, task[t].config)
            BY <1>1, <3>1 DEF Fresh, FreshTask
        <3> QED BY <1>4, <3>1, <3>2
    <2> QED BY <2>1, <2>2
<1>7. StaleImportOverlapped'
    BY <1>6 DEF StaleImportOverlapped, Excused
<1> QED BY <1>5, <1>7 DEF Fresh

\* The steps of a task but the commit of its rows: what it takes along is no older
\* than what it was told of, or it was excused before.
LEMMA OwnFresh ==
    ASSUME TypeOK, Fresh, Beside, NEW t \in Tasks,
           TaskStep(t) \/ DatabaseFails(t), ~Commit(t)
    PROVE  Fresh'
<1> DEFINE w == task[t].worker
<1>1. /\ FreshTask(t) /\ w \in Workers
      /\ cache[w] \in Edits \cup {NotCached} /\ client[w] \in Edits \cup {NotCached}
      /\ task[t].config \in Edits \cup {NotCached}
      /\ task[t].announced \in Nat /\ catalog \in Edits
    BY DEF Fresh, TypeOK, TaskRecord, Edits
<1>2. /\ UNCHANGED <<catalog, activities, met>>
      /\ \A u \in Tasks \ {t} : task'[u] = task[u]
      /\ task'[t].worker = w /\ task'[t].announced = task[t].announced
      /\ task'[t].kind = task[t].kind
      /\ \A v \in Workers \ {w} : cache'[v] = cache[v] /\ client'[v] = client[v]
    <2> USE DEF Places
    <2>1. CASE Begin(t)
        BY <2>1, GoToStep DEF Begin
    <2>2. CASE Invalidate(t)
        <3>1. \A v \in Workers \ {w} : cache'[v] = cache[v] /\ client'[v] = client[v]
            BY <2>2 DEF Invalidate, TypeOK
        <3> QED BY <2>2, <3>1, GoToStep DEF Invalidate
    <2>3. CASE AttemptFails(t)
        BY <2>3, GoToStep DEF AttemptFails, TypeOK, TaskRecord
    <2>4. CASE LookUp(t)
        BY <1>1, <2>4, ObtainStep, GoToStep DEF LookUp
    <2>5. CASE FindBook(t)
        <3>1. \A v \in Workers \ {w} : cache'[v] = cache[v]
            BY <2>5 DEF FindBook, Cached, TypeOK
        <3> QED BY <1>1, <2>5, <3>1, ObtainStep, GoToStep DEF FindBook
    <2>6. CASE Answer(t)
        BY <2>6 DEF Answer, TypeOK, TaskRecord
    <2>7. CASE Store(t)
        <3>1. \A v \in Workers \ {w} : cache'[v] = cache[v] /\ client'[v] = client[v]
            BY <2>7 DEF Store, Cached, TypeOK
        <3> QED BY <1>1, <2>7, <3>1, ObtainStep DEF Store
    <2>8. CASE ImportFails(t)
        <3>1. \A v \in Workers \ {w} : cache'[v] = cache[v]
            BY <2>8 DEF ImportFails, Cached, TypeOK
        <3> QED BY <2>8, <3>1, GoToStep DEF ImportFails, Rest
    <2>9. CASE Select(t)
        BY <2>9 DEF Select, TypeOK, TaskRecord
    <2>10. CASE Finish(t) \/ DatabaseFails(t)
        BY <2>10, GoToStep DEF Finish, DatabaseFails
    <2> QED BY <2>1, <2>2, <2>3, <2>4, <2>5, <2>6, <2>7, <2>8, <2>9, <2>10 DEF TaskStep
<1>3. InFlight(t)
    BY OwnStep DEF Select, InFlight
<1>4. ASSUME NEW config, Excused(t, config) PROVE Excused(t, config)'
    <2>1. \A u \in Tasks : task'[u].worker = task[u].worker
        BY <1>2
    <2> QED BY <1>2, <1>4, <2>1, ExcuseStays
<1>5. /\ (task[t].announced <= catalog)'
      /\ (task[t].kind \notin {"book.updated", "book.deleted"} => task[t].announced <= 1)'
    BY <1>1, <1>2 DEF FreshTask
\* With a config that is fresh or excused the task may go on to replace the rows.
<1>6. ASSUME NEW config \in Edits \cup {NotCached}, Excused(t, config), Obtain(t, config)
      PROVE  FreshTask(t)'
    BY <1>4, <1>5, <1>6, ObtainStep DEF FreshTask
<1>7. FreshTask(t)'
    <2>1. CASE Invalidate(t)
        <3>1. /\ task'[t].pc \in {"select", "lookup"}
              /\ task'[t].pc = "select" => task[t].kind = "book.deleted"
              /\ task[t].kind = "book.deleted" => task'[t].pc = "select"
            BY <2>1, GoToStep DEF Invalidate, Places
        <3>2. client'[w] = NotCached
            BY <1>1, <2>1 DEF Invalidate, TypeOK
        <3>3. CASE task[t].kind = "book.updated"
            <4>1. cache'[w] = NotCached
                BY <1>1, <2>1, <3>3 DEF Invalidate, TypeOK
            <4> QED BY <1>2, <1>5, <3>1, <3>2, <3>3, <4>1 DEF FreshTask
        <3>4. CASE task[t].kind = "book.deleted"
            BY <1>2, <1>5, <3>1, <3>4 DEF FreshTask
        <3>5. CASE task[t].kind \notin {"book.updated", "book.deleted"}
            <4>1. task[t].announced <= 1
                BY <1>1, <3>5 DEF FreshTask
            <4>2. \A config \in Edits : ~(config < task[t].announced)
                BY <1>1, <4>1 DEF Edits
            <4>3. cache'[w] = cache[w]
                BY <2>1, <3>5 DEF Invalidate
            <4>4. cache'[w] # NotCached => Excused(t, cache[w])'
                BY <1>1, <1>2, <4>2, <4>3 DEF Excused
            <4> QED BY <1>2, <1>5, <3>1, <3>2, <3>5, <4>4 DEF FreshTask
        <3> QED BY <3>3, <3>4, <3>5
    <2>2. CASE LookUp(t)
        <3>1. CASE cache[w] # NotCached
            <4>1. Excused(t, cache[w]) /\ Obtain(t, cache[w])
                BY <1>1, <2>2, <3>1 DEF LookUp, FreshTask
            <4> QED BY <1>1, <1>6, <4>1
        <3>2. CASE cache[w] = NotCached
            <4>1. task'[t].pc = "find" /\ client' = client
                BY <2>2, <3>2, GoToStep DEF LookUp, Places
            <4>2. client[w] # NotCached => Excused(t, client[w])
                BY <1>1, <2>2 DEF LookUp, FreshTask
            <4>3. (client[w] # NotCached => Excused(t, client[w]))'
                BY <1>2, <1>4, <4>1, <4>2
            <4> QED BY <1>2, <1>5, <4>1, <4>3 DEF FreshTask
        <3> QED BY <3>1, <3>2
    <2>3. CASE FindBook(t)
        <3>1. CASE client[w] # NotCached
            <4>1. Excused(t, client[w]) /\ Obtain(t, client[w])
                BY <1>1, <2>3, <3>1 DEF FindBook, FreshTask
            <4> QED BY <1>1, <1>6, <4>1
        <3>2. CASE client[w] = NotCached
            <4>1. task'[t].pc = "fetch"
                BY <2>3, <3>2, GoToStep DEF FindBook, Places
            <4> QED BY <1>5, <4>1 DEF FreshTask
        <3> QED BY <3>1, <3>2
    <2>4. CASE Answer(t)
        <3>1. task'[t].config = catalog /\ task'[t].pc = "store"
            BY <2>4 DEF Answer, TypeOK, TaskRecord
        <3>2. ~(catalog < task[t].announced)
            BY <1>1 DEF FreshTask, Edits
        <3>3. Excused(t, task[t].config)'
            BY <1>2, <3>1, <3>2 DEF Excused
        <3> QED BY <1>5, <3>1, <3>3 DEF FreshTask
    <2>5. CASE Store(t)
        <3>1. Obtain(t, task[t].config) /\ task[t].pc = "store"
            BY <2>5 DEF Store
        <3>2. task[t].kind # "book.deleted" => Excused(t, task[t].config)
            BY <1>1, <3>1 DEF FreshTask
        <3>3. CASE task[t].kind # "book.deleted"
            BY <1>1, <1>6, <3>1, <3>2, <3>3
        <3>4. CASE task[t].kind = "book.deleted"
            <4>1. task'[t].pc \notin {"lookup", "find"} /\ task'[t].kind = "book.deleted"
                BY <1>1, <1>2, <3>1, <3>4, ObtainStep
            <4> QED BY <1>5, <4>1 DEF FreshTask
        <3> QED BY <3>3, <3>4
    <2>6. CASE Select(t)
        <3>1. task[t].pc = "select" /\ task'[t].pc = "commit" /\ task'[t].config = task[t].config
            BY <2>6 DEF Select, TypeOK, TaskRecord
        <3>2. task[t].kind # "book.deleted" => Excused(t, task[t].config)
            BY <1>1, <3>1 DEF FreshTask
        <3>3. (task[t].kind # "book.deleted" => Excused(t, task[t].config))'
            BY <1>2, <1>4, <3>1, <3>2
        <3> QED BY <1>5, <3>1, <3>3 DEF FreshTask
    <2>7. CASE Begin(t) \/ AttemptFails(t) \/ ImportFails(t) \/ Finish(t) \/ DatabaseFails(t)
        <3>1. task'[t].pc \in {"queued", "working", "finish", "over", "lost"}
            BY <2>7, GoToStep DEF Begin, AttemptFails, ImportFails, Rest, Finish,
                DatabaseFails, Places, TypeOK, TaskRecord
        <3> QED BY <1>5, <3>1 DEF FreshTask
    <2> QED BY <2>1, <2>2, <2>3, <2>4, <2>5, <2>6, <2>7 DEF TaskStep
<1> QED BY <1>2, <1>3, <1>7, FillFresh

LEMMA NextFresh == TypeOK /\ Beside /\ Fresh /\ [Next]_vars => Fresh'
<1> SUFFICES ASSUME TypeOK, Beside, Fresh, [Next]_vars PROVE Fresh'
    OBVIOUS
<1>0. catalog \in Edits /\ catalog <= catalog /\ catalog \in Nat
    BY DEF TypeOK, Edits
<1>1. ASSUME NEW t \in Tasks, NEW kind \in Events, NEW edit \in Edits, Receive(t, kind, edit)
      PROVE  Fresh'
    <2>1. edit <= catalog
        <3>1. CASE kind = "book.created"
            BY <1>0, <1>1, <3>1 DEF Receive, Edits
        <3>2. CASE kind = "book.updated"
            BY <1>0, <1>1, <3>2 DEF Receive
        <3>3. CASE kind = "book.deleted"
            BY <1>0, <1>1, <3>3 DEF Receive
        <3> QED BY <3>1, <3>2, <3>3 DEF Events
    <2>2. kind \notin {"book.updated", "book.deleted"} => edit <= 1
        <3>1. CASE kind = "book.created"
            <4>1. edit = 1
                BY <1>1, <3>1 DEF Receive
            <4> QED BY <4>1
        <3> QED BY <3>1 DEF Events
    <2>3. kind \in Kinds /\ Join(t, kind, edit, "queued")
        BY <1>1 DEF Receive, Kinds
    <2> QED BY <2>1, <2>2, <2>3, JoinFresh
<1>2. ASSUME NEW t \in Tasks, NEW kind \in Requests, Request(t, kind) PROVE Fresh'
    <2>1. /\ kind \in Kinds /\ 0 <= catalog /\ 0 <= 1
          /\ Join(t, kind, 0, "find") \/ Join(t, kind, 0, "lookup")
        BY <1>0, <1>2 DEF Request, Kinds
    <2> QED BY <2>1, JoinFresh
<1>3. ASSUME NEW t \in Tasks, TaskStep(t) \/ DatabaseFails(t) PROVE Fresh'
    BY <1>3, OwnFresh, CommitFresh
<1>4. ASSUME NEW w \in Workers, Restart(w) PROVE Fresh'
    <2>1. /\ UNCHANGED <<catalog, activities, met>>
          /\ cache' = [cache EXCEPT ![w] = NotCached]
          /\ client' = [client EXCEPT ![w] = NotCached]
        BY <1>4 DEF Restart
    <2>2. \A v \in Workers : cache'[v] \in {cache[v], NotCached}
                            /\ client'[v] \in {client[v], NotCached}
        BY <2>1 DEF TypeOK
    <2>3. ASSUME NEW u \in Tasks
          PROVE  /\ task'[u].worker = task[u].worker /\ task'[u].announced = task[u].announced
                 /\ task'[u].kind = task[u].kind
                 /\ task'[u] = task[u] \/ task'[u].pc = "lost"
        BY <1>4, AtFields DEF Restart, TypeOK, Places
    <2>4. ASSUME NEW u \in Tasks PROVE task'[u] = task[u] \/ FreshTask(u)'
        <3>1. FreshTask(u)
            BY DEF Fresh
        <3> QED BY <2>1, <2>3, <3>1 DEF FreshTask
    <2> QED BY <1>0, <2>1, <2>2, <2>3, <2>4, StillFresh
<1>5. CASE Edit \/ Delete \/ (\E w \in Workers : Expire(w)) \/ UNCHANGED vars
    <2>1. UNCHANGED <<activities, met, task>>
        BY <1>5 DEF Edit, Delete, Expire, vars
    <2>2. catalog <= catalog' /\ catalog' \in Edits
        BY <1>0, <1>5, NextType DEF Edit, Delete, Expire, vars, Next, TypeOK
    <2>3. \A w \in Workers : cache'[w] \in {cache[w], NotCached}
                            /\ client'[w] \in {client[w], NotCached}
        BY <1>5 DEF Edit, Delete, Expire, vars, TypeOK
    <2> QED BY <2>1, <2>2, <2>3, StillFresh
<1> QED BY <1>1, <1>2, <1>3, <1>4, <1>5 DEF Next

LEMMA InitFresh == Init => Fresh
<1> SUFFICES ASSUME Init PROVE Fresh
    OBVIOUS
<1>1. ASSUME NEW t \in Tasks PROVE task[t].pc = "none" /\ task[t].announced = 0
    BY DEF Init, NoTask
<1> QED BY <1>1 DEF Init, Fresh, FreshTask, StaleImportOverlapped

\* However the deliveries are delayed, repeated and reordered, an event imports
\* a config older than the edit it announces only if another task overlapped it
\* in the same worker.
THEOREM StaleImportsStayOverlapped == Spec => []StaleImportOverlapped
<1> DEFINE Inv == TypeOK /\ Beside /\ Fresh
<1>1. Init => Inv
    BY InitType, InitBeside, InitFresh
<1>2. Inv /\ [Next]_vars => Inv'
    BY NextType, NextBeside, NextFresh
<1>3. Inv => StaleImportOverlapped
    BY DEF Fresh
<1> HIDE DEF Inv
<1> QED BY <1>1, <1>2, <1>3, PTL DEF Spec

================================================================================
