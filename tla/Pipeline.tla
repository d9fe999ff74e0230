------------------------------ MODULE Pipeline ------------------------------
(***************************************************************************)
(* The refinement pipeline: the Celery task process_analysis, run by       *)
(* several workers, PipelineService.execute() and PhaseRunner.run()        *)
(* (app/adapter/inbound/worker/pipeline_task.py, app/application/          *)
(* pipeline_service.py, phase_runners.py) over two databases.              *)
(*                                                                         *)
(* MongoDB holds the task documents: every save is visible at once.  MySQL *)
(* holds the refined records and the rejections: a worker writes them in   *)
(* one session, which it commits after execute() has returned.  Every call *)
(* of a database is one step; "pc" names the call that comes next.         *)
(*                                                                         *)
(* A raw row is abstracted to what refine_single makes of it: a record     *)
(* with a video and an object class, a number of rejections, or an         *)
(* exception.  Each task has its own copy of the rows in MongoDB.          *)
(***************************************************************************)
EXTENDS Naturals, FiniteSets, Sequences

CONSTANTS
  Tasks,       \* analysis tasks
  Jobs,        \* process_analysis messages the outbox hands to the broker
  TaskOf,      \* job -> its task_id
  Workers,     \* worker processes
  Raw,         \* task -> stage -> sequence of chunks, each a set of rows
  MaxRetries,  \* max_retries of the Celery task
  Faults,      \* calls that may raise an infrastructure error, "crash" and "killed"
  MaxFaults    \* bound on the errors and crashes of one behaviour

\* The phases by their place in AnalyzeTask._STAGE_ORDER.
Selection == 1
OddTagging == 2
AutoLabeling == 3
Stages == {Selection, OddTagging, AutoLabeling}

Calls == {"setup", "find", "start", "phase", "ids", "result", "complete",
          "commit", "failed"}
Raises == {"none", "domain", "infra"}

ASSUME PipelineAssumption ==
  /\ TaskOf \in [Jobs -> Tasks]
  /\ "none" \notin Jobs
  /\ DOMAIN Raw = Tasks
  /\ \A t \in Tasks : \A s \in Stages :
       /\ Len(Raw[t][s]) \in Nat
       /\ DOMAIN Raw[t][s] = 1 .. Len(Raw[t][s])
       /\ \A i \in DOMAIN Raw[t][s] :
            /\ IsFiniteSet(Raw[t][s][i])
            /\ \A row \in Raw[t][s][i] :
                 row.errors \in Nat /\ row.raises \in Raises /\ row.line \in Nat
  /\ MaxRetries \in Nat
  /\ Faults \subseteq Calls \union {"crash", "killed"}
  /\ MaxFaults \in Nat

VARIABLES
  tasks,    \* MongoDB: task -> document
  jobs,     \* the broker: job -> [state, retries]
  wk,       \* worker -> the local variables of process_analysis
  sess,     \* worker -> what its MySQL session has locked, written and read
  db,       \* MySQL: the committed records
  dbRejs,   \* MySQL: task -> stage -> number of committed rejections
  faults,   \* errors and crashes so far
  overlapped  \* history: the tasks of which two workers ran a job at once

vars == <<tasks, jobs, wk, sess, db, dbRejs, faults, overlapped>>

-----------------------------------------------------------------------------
(***************************************************************************)
(* AnalyzeTask and its transitions.  prog is the StageProgress of a stage; *)
(* last the place of last_completed_phase, 0 for None.                     *)
(***************************************************************************)
NoProgress == [processed |-> 0, rejected |-> 0]
NoResult == [linked |-> 0, partial |-> 0, stages |-> {}]

CreateNew ==
  [status |-> "pending", last |-> 0,
   prog |-> [s \in Stages |-> NoProgress], result |-> NoResult]

\* Mutation: the last phase that was completed is run again.
RunLastPhaseAgain(task, stage) == stage >= task.last

ShouldRunPhase(task, stage) == stage > task.last
StartProcessing(task) == [task EXCEPT !.status = "processing"]
CompleteWith(task, result) == [task EXCEPT !.status = "completed", !.result = result]
FailWith(task) == [task EXCEPT !.status = "failed"]
WithCompletedPhase(task, stage, loaded, rejected) ==
  [task EXCEPT !.prog[stage] = [processed |-> loaded, rejected |-> rejected],
               !.last = stage]

(***************************************************************************)
(* The MySQL tables: a record and its UNIQUE key.  The key of a selection  *)
(* is its id alone, the other two keys include the task.                   *)
(***************************************************************************)
Record(task, stage, row) ==
  [stage |-> stage, task |-> task, video |-> row.video,
   class |-> IF stage = AutoLabeling THEN row.class ELSE "-"]

KeyOf(rec) ==
  IF rec.stage = Selection THEN <<rec.stage, rec.video>>
  ELSE <<rec.stage, rec.task, rec.video, rec.class>>

Keys(S) == {KeyOf(rec) : rec \in S}
EmptySession ==
  [keys |-> {}, rows |-> {}, rejs |-> [s \in Stages |-> 0], read |-> FALSE, snap |-> {}]

\* REPEATABLE READ: the first SELECT of a session takes the snapshot that all
\* later ones see, together with what the session has written itself.
Snapshot(w) == IF sess[w].read THEN sess[w].snap ELSE db
FindVideos(w, stage, task) ==
  {rec.video : rec \in {r \in Snapshot(w) \union sess[w].rows :
                          r.stage = stage /\ r.task = task}}
Read(w) == [sess EXCEPT ![w].read = TRUE, ![w].snap = Snapshot(w)]

-----------------------------------------------------------------------------
Idle ==
  [pc |-> "idle", job |-> "none", task |-> CreateNew, cur |-> CreateNew,
   stage |-> Selection, chunk |-> 1, ids |-> {}, loaded |-> 0, rejected |-> 0,
   exc |-> "none"]

TaskId(w) == TaskOf[wk[w].job]
Busy(w) == wk[w].pc # "idle"

Init ==
  /\ tasks = [t \in Tasks |-> CreateNew]
  /\ jobs = [j \in Jobs |-> [state |-> "queued", retries |-> 0]]
  /\ wk = [w \in Workers |-> Idle]
  /\ sess = [w \in Workers |-> EmptySession]
  /\ db = {}
  /\ dbRejs = [t \in Tasks |-> [s \in Stages |-> 0]]
  /\ faults = 0
  /\ overlapped = {}

\* A worker reserves a message; acks_late keeps it until process_analysis ends.
Take(w, j) ==
  /\ wk[w].pc = "idle"
  /\ jobs[j].state = "queued"
  /\ jobs' = [jobs EXCEPT ![j].state = "running"]
  /\ wk' = [wk EXCEPT ![w].pc = "setup", ![w].job = j]
  /\ overlapped' = overlapped \union {t \in {TaskOf[j]} : \E v \in Workers : Busy(v) /\ TaskId(v) = t}
  /\ UNCHANGED <<tasks, sess, db, dbRejs, faults>>

\* The session and ensure_mysql_tables(), outside the try block.
Setup(w) ==
  /\ wk[w].pc = "setup"
  /\ wk' = [wk EXCEPT ![w].pc = "find"]
  /\ UNCHANGED <<tasks, jobs, sess, db, dbRejs, faults, overlapped>>

\* execute(): task = find_by_id(task_id).start_processing().
FindTask(w) ==
  /\ wk[w].pc = "find"
  /\ wk' = [wk EXCEPT ![w].pc = "start", ![w].task = StartProcessing(tasks[TaskId(w)])]
  /\ UNCHANGED <<tasks, jobs, sess, db, dbRejs, faults, overlapped>>

\* execute(): task_repo.save(task), then _run_phases(task, task_id).
StartTask(w) ==
  /\ wk[w].pc = "start"
  /\ tasks' = [tasks EXCEPT ![TaskId(w)] = wk[w].task]
  /\ wk' = [wk EXCEPT ![w].pc = "phase", ![w].cur = wk[w].task]
  /\ UNCHANGED <<jobs, sess, db, dbRejs, faults, overlapped>>

-----------------------------------------------------------------------------
\* Mutation: the counters go on from one phase to the next.
AfterPhaseKeepingCounts(w, cur) ==
  wk' = [wk EXCEPT
    ![w].pc = IF wk[w].stage = Selection THEN "ids"
              ELSE IF wk[w].stage = AutoLabeling THEN "result" ELSE "phase",
    ![w].cur = cur,
    ![w].task = IF wk[w].stage = AutoLabeling THEN cur ELSE @,
    ![w].stage = IF wk[w].stage = AutoLabeling THEN @ ELSE @ + 1,
    ![w].chunk = 1]

\* What comes after the phase of a stage: after SELECTION the ids are read, and
\* after the last phase execute() gets the task object of _run_phases.
AfterPhase(w, cur) ==
  wk' = [wk EXCEPT
    ![w].pc = IF wk[w].stage = Selection THEN "ids"
              ELSE IF wk[w].stage = AutoLabeling THEN "result" ELSE "phase",
    ![w].cur = cur,
    ![w].task = IF wk[w].stage = AutoLabeling THEN cur ELSE @,
    ![w].stage = IF wk[w].stage = AutoLabeling THEN @ ELSE @ + 1,
    ![w].chunk = 1, ![w].loaded = 0, ![w].rejected = 0]

\* A phase at or before last_completed_phase is not run again.
SkipPhase(w) ==
  /\ wk[w].pc = "phase"
  /\ ~ShouldRunPhase(wk[w].cur, wk[w].stage)
  /\ AfterPhase(w, wk[w].cur)
  /\ UNCHANGED <<tasks, jobs, sess, db, dbRejs, faults, overlapped>>

InPhase(w) == wk[w].pc = "phase" /\ ShouldRunPhase(wk[w].cur, wk[w].stage)
ChunksLeft(w) == wk[w].chunk <= Len(Raw[TaskId(w)][wk[w].stage])
Chunk(w) == Raw[TaskId(w)][wk[w].stage][wk[w].chunk]
Raising(chunk) == {row \in chunk : row.raises # "none"}

\* Mutation: the link is never checked.
NeverUnlinked(w, row) == TRUE

\* refine_single accepts a row whose video has a selection; with no valid ids at
\* all ("valid_selection_ids and ...") the link is not checked.
Linked(w, row) == wk[w].ids = {} \/ row.video \in wk[w].ids
Valid(w, row) == row.errors = 0 /\ Linked(w, row)

\* The rejections of refine_single, which numbers those of a row.
RowRejections(chunk) == UNION {{<<row, n>> : n \in 1 .. row.errors} : row \in chunk}

\* INSERT IGNORE of what is valid: rows whose key is known are ignored.
ValidRows(w) == {row \in Chunk(w) : Valid(w, row)}
ChunkRecords(w) == {Record(TaskId(w), wk[w].stage, row) : row \in ValidRows(w)}
Inserted(w) == {rec \in ChunkRecords(w) : KeyOf(rec) \notin Keys(db \union sess[w].rows)}

\* What a chunk adds to the rejections: those of its rows, one per unlinked record, and one
\* for all that was ignored.
ChunkRejections(w) ==
  LET unlinked == {row \in Chunk(w) : row.errors = 0 /\ ~Linked(w, row)}
      duplicates == Cardinality(ValidRows(w)) - Cardinality(Inserted(w))
  IN Cardinality(RowRejections(Chunk(w))) + Cardinality(unlinked)
       + (IF duplicates > 0 THEN 1 ELSE 0)

\* The INSERT IGNORE of a chunk locks the key of one row after the other; a row whose
\* key is stored, or written by the session itself, is ignored.
Inserting(w) == InPhase(w) /\ ChunksLeft(w) /\ Raising(Chunk(w)) = {}
RowKey(w, row) == KeyOf(Record(TaskId(w), wk[w].stage, row))
Unlocked(w) == {row \in ValidRows(w) : RowKey(w, row) \notin sess[w].keys \union Keys(db)}
IsNext(w, row) == row \in Unlocked(w) /\ \A other \in Unlocked(w) : row.line <= other.line

\* A key another session has locked and not yet committed: the INSERT waits for the
\* end of that transaction (or times out: an InfraError of "phase").
WaitsFor(w, v) == Inserting(w) /\ \E row \in Unlocked(w) : IsNext(w, row) /\ RowKey(w, row) \in sess[v].keys

InsertRow(w) ==
  /\ Inserting(w)
  /\ \A v \in Workers \ {w} : ~WaitsFor(w, v)
  /\ \E row \in Unlocked(w) :
       /\ IsNext(w, row)
       /\ sess' = [sess EXCEPT ![w].keys = @ \union {RowKey(w, row)}]
  /\ UNCHANGED <<tasks, jobs, wk, db, dbRejs, faults, overlapped>>

\* Sessions that wait for each other in a circle: InnoDB rolls one of them back, and
\* its INSERT raises.
Deadlock(w) ==
  /\ \E circle \in SUBSET Workers :
       /\ w \in circle
       /\ \A v \in circle : /\ \E u \in circle \ {v} : WaitsFor(v, u)
                            /\ \E u \in circle \ {v} : WaitsFor(u, v)
  /\ sess' = [sess EXCEPT ![w] = EmptySession]
  /\ wk' = [wk EXCEPT ![w].pc = "failed", ![w].exc = "infra"]
  /\ UNCHANGED <<tasks, jobs, db, dbRejs, faults, overlapped>>

\* One turn of the while loop: refine the chunk, INSERT IGNORE, insert the rejections.
RunChunk(w) ==
  /\ Inserting(w)
  /\ Unlocked(w) = {}
  /\ sess' = [sess EXCEPT ![w].rows = @ \union Inserted(w),
                         ![w].rejs[wk[w].stage] = @ + ChunkRejections(w)]
  /\ wk' = [wk EXCEPT ![w].chunk = @ + 1,
                     ![w].loaded = @ + Cardinality(Inserted(w)),
                     ![w].rejected = @ + ChunkRejections(w)]
  /\ UNCHANGED <<tasks, jobs, db, dbRejs, faults, overlapped>>

\* A row the refiner does not turn into a rejection: the chunk raises.
RaiseInChunk(w) ==
  /\ InPhase(w)
  /\ ChunksLeft(w)
  /\ \E row \in Raising(Chunk(w)) :
       /\ \A other \in Raising(Chunk(w)) : row.line <= other.line
       /\ wk' = [wk EXCEPT ![w].pc = "failed", ![w].exc = row.raises]
  /\ UNCHANGED <<tasks, jobs, sess, db, dbRejs, faults, overlapped>>

\* with_progress and with_completed_phase, once all chunks have been loaded.
PhaseIsOver(w) == InPhase(w) /\ ~ChunksLeft(w)
Checkpoint(w) == WithCompletedPhase(wk[w].cur, wk[w].stage, wk[w].loaded, wk[w].rejected)

\* Mutation: the rows of a phase are committed with its checkpoint.
EndPhaseCommitting(w) ==
  /\ PhaseIsOver(w)
  /\ tasks' = [tasks EXCEPT ![TaskId(w)] = Checkpoint(w)]
  /\ AfterPhase(w, Checkpoint(w))
  /\ db' = db \union sess[w].rows
  /\ UNCHANGED <<jobs, sess, dbRejs, faults, overlapped>>

\* The end of PhaseRunner.run(): progress and checkpoint are saved in MongoDB,
\* while the rows are still uncommitted in MySQL.
EndPhase(w) ==
  /\ PhaseIsOver(w)
  /\ tasks' = [tasks EXCEPT ![TaskId(w)] = Checkpoint(w)]
  /\ AfterPhase(w, Checkpoint(w))
  /\ UNCHANGED <<jobs, sess, db, dbRejs, faults, overlapped>>

\* valid_selection_ids = find_all_ids_by_task(task_id).
ReadIds(w) ==
  /\ wk[w].pc = "ids"
  /\ wk' = [wk EXCEPT ![w].pc = "phase", ![w].ids = FindVideos(w, Selection, TaskId(w))]
  /\ sess' = Read(w)
  /\ UNCHANGED <<tasks, jobs, db, dbRejs, faults, overlapped>>

\* _build_result: the counts of the phases and the numbers of linked videos.
Result(w) ==
  LET selected == FindVideos(w, Selection, TaskId(w))
      linked == selected \intersect FindVideos(w, OddTagging, TaskId(w))
                         \intersect FindVideos(w, AutoLabeling, TaskId(w))
  IN [stages |-> {<<s, wk[w].task.prog[s]>> : s \in Stages},
      linked |-> Cardinality(linked),
      partial |-> Cardinality(selected) - Cardinality(linked)]

BuildResult(w) ==
  /\ wk[w].pc = "result"
  /\ wk' = [wk EXCEPT ![w].pc = "complete", ![w].task = CompleteWith(@, Result(w))]
  /\ sess' = Read(w)
  /\ UNCHANGED <<tasks, jobs, db, dbRejs, faults, overlapped>>

\* task_repo.save of the COMPLETED task; execute() returns.
Complete(w) ==
  /\ wk[w].pc = "complete"
  /\ tasks' = [tasks EXCEPT ![TaskId(w)] = wk[w].task]
  /\ wk' = [wk EXCEPT ![w].pc = "commit"]
  /\ UNCHANGED <<jobs, sess, db, dbRejs, faults, overlapped>>

\* Mutations: FAILED is saved on the object of _run_phases, with its checkpoints;
\* on a task without any; not at all.
SaveFailedWithCheckpoint(w) ==
  /\ wk[w].pc = "failed"
  /\ tasks' = [tasks EXCEPT ![TaskId(w)] = FailWith(wk[w].cur)]
  /\ wk' = [wk EXCEPT ![w].pc = "rollback"]
  /\ UNCHANGED <<jobs, sess, db, dbRejs, faults, overlapped>>
SaveFailedAfresh(w) ==
  /\ wk[w].pc = "failed"
  /\ tasks' = [tasks EXCEPT ![TaskId(w)] = FailWith(CreateNew)]
  /\ wk' = [wk EXCEPT ![w].pc = "rollback"]
  /\ UNCHANGED <<jobs, sess, db, dbRejs, faults, overlapped>>
FailedUnsaved(w) ==
  /\ wk[w].pc = "failed"
  /\ wk' = [wk EXCEPT ![w].pc = "rollback"]
  /\ UNCHANGED <<tasks, jobs, sess, db, dbRejs, faults, overlapped>>

\* The except clause of execute(): the task object of execute() is saved as
\* FAILED; after an exception inside _run_phases that is the object found at
\* the start.
SaveFailed(w) ==
  /\ wk[w].pc = "failed"
  /\ tasks' = [tasks EXCEPT ![TaskId(w)] = FailWith(wk[w].task)]
  /\ wk' = [wk EXCEPT ![w].pc = "rollback"]
  /\ UNCHANGED <<jobs, sess, db, dbRejs, faults, overlapped>>

-----------------------------------------------------------------------------
CommitSession(w) ==
  /\ db' = db \union sess[w].rows
  /\ dbRejs' = [dbRejs EXCEPT ![TaskId(w)] =
                 [s \in Stages |-> @[s] + sess[w].rejs[s]]]

\* session.commit().
Commit(w) ==
  /\ wk[w].pc = "commit"
  /\ CommitSession(w)
  /\ sess' = [sess EXCEPT ![w] = EmptySession]
  /\ wk' = [wk EXCEPT ![w].pc = "ack"]
  /\ UNCHANGED <<tasks, jobs, faults, overlapped>>

\* Mutation: a worker that keeps its session from job to job without a rollback.
ReleaseKeepingSession(w, job) ==
  /\ jobs' = [jobs EXCEPT ![wk[w].job] = job]
  /\ wk' = [wk EXCEPT ![w] = Idle]
  /\ sess' = sess

\* The worker is done with its job: whatever is left in the session is undone.
Release(w, job) ==
  /\ jobs' = [jobs EXCEPT ![wk[w].job] = job]
  /\ wk' = [wk EXCEPT ![w] = Idle]
  /\ sess' = [sess EXCEPT ![w] = EmptySession]

Ack(w) ==
  /\ wk[w].pc = "ack"
  /\ Release(w, [jobs[wk[w].job] EXCEPT !.state = "gone"])
  /\ UNCHANGED <<tasks, db, dbRejs, faults, overlapped>>

\* Mutation: one retry too many.
RollbackOnceMore(w) ==
  LET job == jobs[wk[w].job]
  IN /\ wk[w].pc = "rollback"
     /\ IF wk[w].exc = "infra" /\ job.retries <= MaxRetries
        THEN Release(w, [state |-> "queued", retries |-> job.retries + 1])
        ELSE Release(w, [job EXCEPT !.state = "gone"])
     /\ UNCHANGED <<tasks, db, dbRejs, faults, overlapped>>

\* The except clauses of process_analysis: rollback; a DomainError ends the job,
\* self.retry() puts it back into the queue until max_retries is used up.
Rollback(w) ==
  LET job == jobs[wk[w].job]
  IN /\ wk[w].pc = "rollback"
     /\ IF wk[w].exc = "infra" /\ job.retries < MaxRetries
        THEN Release(w, [state |-> "queued", retries |-> job.retries + 1])
        ELSE Release(w, [job EXCEPT !.state = "gone"])
     /\ UNCHANGED <<tasks, db, dbRejs, faults, overlapped>>

\* A call raises an infrastructure error.  Before the try block of execute() it
\* goes straight to process_analysis, inside to the except clause of execute();
\* when the save of COMPLETED raises, the object in memory is COMPLETED already.
\* A write or a commit may have been applied although its answer was lost.
InfraError(w) ==
  /\ wk[w].pc \in Faults \ {"setup", "crash", "killed"}
  /\ faults < MaxFaults
  /\ faults' = faults + 1
  /\ wk' = [wk EXCEPT ![w].exc = "infra",
         ![w].pc = IF @ \in {"phase", "ids", "result", "complete"} THEN "failed" ELSE "rollback"]
  /\ \/ UNCHANGED <<tasks, sess, db, dbRejs>>
     \/ /\ PhaseIsOver(w)
        /\ tasks' = [tasks EXCEPT ![TaskId(w)] = Checkpoint(w)]
        /\ UNCHANGED <<sess, db, dbRejs>>
     \/ /\ wk[w].pc \in {"start", "complete", "failed"}
        /\ tasks' = [tasks EXCEPT ![TaskId(w)] =
                       IF wk[w].pc = "failed" THEN FailWith(wk[w].task) ELSE wk[w].task]
        /\ UNCHANGED <<sess, db, dbRejs>>
     \/ /\ wk[w].pc = "commit"
        /\ CommitSession(w)
        /\ sess' = [sess EXCEPT ![w] = EmptySession]
        /\ UNCHANGED tasks
  /\ UNCHANGED <<jobs, overlapped>>

\* An error outside the try block of process_analysis: no retry, the job is gone.
SetupError(w) ==
  /\ wk[w].pc = "setup"
  /\ "setup" \in Faults
  /\ faults < MaxFaults
  /\ faults' = faults + 1
  /\ Release(w, [jobs[wk[w].job] EXCEPT !.state = "gone"])
  /\ UNCHANGED <<tasks, db, dbRejs, overlapped>>

\* The worker dies as a whole: its session is rolled back, its message, which
\* task_acks_late has not acknowledged yet, is delivered again.
Crash(w) ==
  /\ Busy(w)
  /\ "crash" \in Faults
  /\ faults < MaxFaults
  /\ faults' = faults + 1
  /\ Release(w, [jobs[wk[w].job] EXCEPT !.state = "queued"])
  /\ UNCHANGED <<tasks, db, dbRejs, overlapped>>

\* The pool process that runs the job is killed, the worker's main process lives on:
\* without task_reject_on_worker_lost it acknowledges the message.
Kill(w) ==
  /\ Busy(w)
  /\ "killed" \in Faults
  /\ faults < MaxFaults
  /\ faults' = faults + 1
  /\ Release(w, [jobs[wk[w].job] EXCEPT !.state = "gone"])
  /\ UNCHANGED <<tasks, db, dbRejs, overlapped>>

Step(w) ==
  \/ \E j \in Jobs : Take(w, j)
  \/ Setup(w) \/ FindTask(w) \/ StartTask(w)
  \/ SkipPhase(w) \/ InsertRow(w) \/ Deadlock(w) \/ RunChunk(w) \/ RaiseInChunk(w)
  \/ EndPhase(w) \/ ReadIds(w)
  \/ BuildResult(w) \/ Complete(w) \/ SaveFailed(w)
  \/ Commit(w) \/ Ack(w) \/ Rollback(w)

Next ==
  \E w \in Workers : Step(w) \/ InfraError(w) \/ SetupError(w) \/ Crash(w) \/ Kill(w)

Spec == Init /\ [][Next]_vars

\* While any worker can go on, one of them does; errors and crashes are left to chance.
FairSpec == Spec /\ WF_vars(\E w \in Workers : Step(w))

-----------------------------------------------------------------------------
TaskDocs ==
  [status : {"pending", "processing", "completed", "failed"}, last : {0} \union Stages,
   prog : [Stages -> [processed : Nat, rejected : Nat]],
   result : [linked : Nat, partial : Nat,
             stages : SUBSET (Stages \X [processed : Nat, rejected : Nat])]]

Rows(t, s) == UNION {Raw[t][s][i] : i \in DOMAIN Raw[t][s]}
AllRows == UNION {Rows(x[1], x[2]) : x \in Tasks \X Stages}
Videos == {row.video : row \in AllRows}
Records ==
  [stage : Stages, task : Tasks, video : Videos, class : {row.class : row \in AllRows} \union {"-"}]

Messages == [state : {"queued", "running", "gone"}, retries : 0 .. MaxRetries]
Locals ==
  [pc : Calls \union {"idle", "rollback", "ack"}, job : Jobs \union {"none"},
   task : TaskDocs, cur : TaskDocs, stage : Stages, chunk : Nat \ {0},
   ids : SUBSET Videos, loaded : Nat, rejected : Nat, exc : Raises]
Sessions ==
  [keys : SUBSET Keys(Records), rows : SUBSET Records, rejs : [Stages -> Nat],
   read : BOOLEAN, snap : SUBSET Records]

TypeOK ==
  /\ tasks \in [Tasks -> TaskDocs]
  /\ jobs \in [Jobs -> Messages]
  /\ wk \in [Workers -> Locals]
  /\ sess \in [Workers -> Sessions]
  /\ db \in SUBSET Records
  /\ dbRejs \in [Tasks -> [Stages -> Nat]]
  /\ \A w \in Workers :
       wk[w].pc # "idle" => wk[w].job \in Jobs /\ jobs[wk[w].job].state = "running"
  /\ faults \in 0 .. MaxFaults
  /\ overlapped \subseteq Tasks

Finished(t) == \A j \in Jobs : TaskOf[j] = t => jobs[j].state = "gone"
RecordsOf(t) == {rec \in db : rec.task = t}

VideosOf(S, stage) == {rec.video : rec \in {r \in S : r.stage = stage}}
CountOf(S, stage) == Cardinality({rec \in S : rec.stage = stage})

\* What the phases have to load for a task, read off its raw rows: the acceptable rows,
\* of which the selections of other tasks keep some selections out, and of the odd tags
\* and labels those whose video the task has selected, if it has selected any.
Accepted(t, stage) == {row \in Rows(t, stage) : row.errors = 0}
Selected(t) == {row.video : row \in Accepted(t, Selection)}
LinkedTo(ids, t, stage) == {row \in Accepted(t, stage) : ids = {} \/ row.video \in ids}
Expected(ids, t, stage) == {Record(t, stage, row) : row \in LinkedTo(ids, t, stage)}

\* A task that ends up COMPLETED has all of its records in MySQL and no others: a phase
\* is skipped on a retry, and by a second job, only if its rows were committed.
CompletedIsDurable ==
  \A t \in Tasks \ overlapped :
    Finished(t) /\ tasks[t].status = "completed" =>
      LET ids == VideosOf(RecordsOf(t), Selection)
      IN /\ ids \subseteq Selected(t)
         /\ \A v \in Selected(t) : <<Selection, v>> \in Keys(db)
         /\ \A s \in Stages \ {Selection} :
              {rec \in RecordsOf(t) : rec.stage = s} = Expected(ids, t, s)

\* The result of a COMPLETED task counts the rows MySQL holds: loaded records and
\* rejections per stage, fully linked and partial videos, retries or not, and also after
\* a second job of the task.
ResultIsTrue ==
  \A t \in Tasks \ overlapped : Finished(t) /\ tasks[t].status = "completed" =>
    LET videos(s) == VideosOf(RecordsOf(t), s)
        result == tasks[t].result
    IN /\ result.stages =
            {<<s, [processed |-> CountOf(RecordsOf(t), s),
                   rejected |-> dbRejs[t][s]]>> : s \in Stages}
       /\ result.linked = Cardinality(videos(Selection) \intersect videos(OddTagging)
                                                       \intersect videos(AutoLabeling))
       /\ result.linked + result.partial = Cardinality(videos(Selection))

\* A search sees the records of a task appear all at once, when the task is COMPLETED
\* already, and never sees others after them: there is one commit, after the save of
\* COMPLETED, and no later run of the task stores anything, whatever failed.
StoredAtOnce ==
  [][\A t \in Tasks \ overlapped :
       <<RecordsOf(t), dbRejs[t]>>' # <<RecordsOf(t), dbRejs[t]>> =>
         /\ tasks[t].status = "completed"
         /\ RecordsOf(t) = {} /\ dbRejs[t] = [s \in Stages |-> 0]]_vars

\* An odd tag or label is only kept with a selection of its task (UNLINKED_RECORD).
LinkedRecords ==
  \A rec \in db : \E sel \in db :
    sel.stage = Selection /\ sel.task = rec.task /\ sel.video = rec.video

\* What is left of it when other tasks may hold the selections: a task that has any
\* selection in MySQL has one for each of its odd tags and labels, although the ids are
\* read from rows that are not committed, or not there any more after a lost run.
LinkedWhenSelected ==
  \A t \in Tasks \ overlapped :
    LET ids == VideosOf(RecordsOf(t), Selection)
    IN ids = {} \/ \A rec \in RecordsOf(t) : rec.video \in ids

\* When the broker has no message of a task left, the task is not active any more.
EndsSettled ==
  \A t \in Tasks : Finished(t) => tasks[t].status \in {"completed", "failed"}

\* A retry resumes after last_completed_phase: a checkpoint is never taken back.
CheckpointIsKept == [][\A t \in Tasks : tasks'[t].last >= tasks[t].last]_vars

\* Committed rows always lie behind a full checkpoint, whatever fails or dies when:
\* process_analysis commits after COMPLETED and last_completed_phase are saved, and
\* FAILED only ever takes checkpoints back whose rows are rolled back.  A message
\* delivered again (acks_late) therefore never loads a committed row twice.
CommittedIsCheckpointed ==
  \A t \in Tasks \ overlapped : RecordsOf(t) # {} => tasks[t].last = AutoLabeling

\* No record or rejection is stored that the progress of the task does not count,
\* although progress and rows go to two databases.
NothingUncounted ==
  \A t \in Tasks \ overlapped : \A s \in Stages :
    /\ CountOf(RecordsOf(t), s) <= tasks[t].prog[s].processed
    /\ dbRejs[t][s] <= tasks[t].prog[s].rejected

\* Every job ends: retries are counted, a session that waits for a key of another one
\* gets it when that one ends, and of sessions in a circle one is rolled back.
EveryJobEnds == \A j \in Jobs : <>[](jobs[j].state = "gone")

-----------------------------------------------------------------------------
(***************************************************************************)
(* AnalysisJob: the call a worker makes next tells how far its job is.     *)
(***************************************************************************)
JobState(j) ==
  IF jobs[j].state # "running" THEN jobs[j].state
  ELSE LET pc == wk[CHOOSE w \in Workers : wk[w].job = j].pc
       IN CASE pc \in {"setup", "find", "start"} -> "running"
            [] pc \in {"phase", "ids", "result", "complete", "failed"} -> "begun"
            [] pc = "commit" -> "completed"
            [] pc \in {"rollback", "ack"} -> "over"

Job == INSTANCE AnalysisJob WITH
         status <- [t \in Tasks |-> tasks[t].status],
         stored <- [t \in Tasks |-> RecordsOf(t) # {}],
         jobs <- [j \in Jobs |-> [state |-> JobState(j), retries |-> jobs[j].retries]]

\* Seen from outside, a run of process_analysis is: PROCESSING, then COMPLETED and only
\* after it the records, or FAILED; whatever fails in between, also when two jobs of one
\* task run at once.
ImplementsJob == Job!Spec
=============================================================================
