# Verification of pipeline-server

TLA+ models of the pipeline server under `src/app`: a FastAPI service accepts an
analysis of three files, a transactional outbox hands it to Celery, and Celery workers
refine the raw rows in MongoDB into records in MySQL. The models are checked with TLC
on small instances, and their central safety properties are proved with TLAPS for all
values of the constants.

## The system

| part | state it keeps | operations | talks to |
|---|---|---|---|
| Submission (`analysis_service.py`, `decorators.py`, `mongodb/transaction.py`, `data_ingestor.py`) | MongoDB `raw_data`, `analyze_tasks`, `outbox`; one transaction per request | `submit()`: chunks of three files, `create_if_not_active`, outbox message, commit | outbox (by its collection), pipeline (by the status of the task) |
| Outbox (`outbox_relay_service.py`, `OutboxMessage`) | MongoDB `outbox`: status, retry_count, updated_at | `relay()` every 5 s, `recover_zombies()` every 60 s | broker (`dispatch`) |
| Pipeline (`pipeline_task.py`, `pipeline_service.py`, `phase_runners.py`, `AnalyzeTask`) | MongoDB `analyze_tasks`; MySQL `selections`, `odd_tags`, `labels`, `rejections`; one session per job | `process_analysis`: start, three phases, result, commit, retry | both databases, broker (acknowledgement, `self.retry`) |
| Refiners (`*_refiner.py`, `value_objects.py`) | none | `refine_single` of a row: a record, rejections, or an exception | called by the phases |
| Search (`query_builder.py`, `mysql/repositories.py`, `*_read_service.py`) | none | joins, filters, paging | MySQL |
| REST (`routers.py`, `schemas.py`, `rest/mappers.py`, `main.py`) | none | four endpoints, request models, exception handlers | the services |
| Wiring (`*_dependencies.py`, `worker.py`, Redis client, id generator) | process-wide singletons | construction, schedule | |

What is hard here: two databases without a common transaction (a checkpoint in MongoDB,
its rows in a MySQL session that is committed later); at-least-once delivery at two places
(the outbox and Celery with `acks_late`); periodic tasks that are started whether the last
one has ended or not; retries that resume from a checkpoint; and a read-then-write check
under snapshot isolation. `PROJECT.json` lists these hazards line by line.

What makes each part correct:

* Submission: a request is stored whole or not at all; the answer says which; no task is
  created while another is active.
* Outbox: no event is lost; PUBLISHED means delivered; the number of deliveries is
  bounded; a settled message stays settled.
* Pipeline: a COMPLETED task has exactly its records; its result counts them; records appear
  in one commit and only after COMPLETED; every job ends and leaves its task settled.
* The three together: a job finds what `submit()` committed; a task that is active, and
  therefore makes every other request end with 409, is one somebody still works for.
* Refiners: every wrong field of a row gets one rejection, with the right reason.
* Search and REST: the status of a task agrees with what a search finds of it; a client
  that follows the pages sees every row once, and rows that meet its filters.

## Modules

| module | what it is |
|---|---|
| `EventDelivery` | abstract: an accepted event is delivered at least once before it is settled, at most `Budget` times, and settled once |
| `Outbox` | `relay()` and `recover_zombies()` call by call; `Delivery` is the refinement mapping to `EventDelivery` |
| `OutboxProofs` | theorems about `Outbox` |
| `Pipeline` | `process_analysis` call by call over MongoDB, MySQL and the broker |
| `PipelineProofs` | theorems about `Pipeline`: types, settled tasks |
| `CheckpointProofs` | theorems about the checkpoints in MongoDB against the rows in MySQL |
| `ResultProofs` | theorems about COMPLETED tasks: their results, records and links |
| `MCPipeline` | instances: rows of the tasks |
| `Submission` | `submit()` in a MongoDB transaction, concurrent requests |
| `SubmissionProofs` | theorems about `Submission` |
| `MCSubmission` | instance: numbers of chunks, symmetry of the requests |
| `AnalysisJob` | abstract: what the pipeline shows of a job (status, records, retries); `Pipeline` implements it |
| `PipelineRefinement` | theorem: `Pipeline` implements `AnalysisJob` |
| `System`, `MCSystem` | `Submission`, `EventDelivery` and `AnalysisJob` composed over the documents they share |
| `SystemProofs` | theorems about `System`, on top of those of `SubmissionProofs` |
| `Refiners` | `refine_single` of the three refiners and the value objects, as operators |
| `Search` | request models, query builders, the assembly of results and pages, as operators over tables |
| `DataPath`, `MCDataPath` | raw rows refined, stored, and walked through by a client; instances: rows with defects, files, requests |
| `DataPathProofs` | theorems about the tables of an analysis and the pages of a client |

`PROJECT.json` ("map") names the source lines of every definition. Definitions marked
*Mutation* in the modules are wrong variants of the one below them; they are in no
behaviour, and show that the properties notice such an error.

### Outbox

A document has a status, a retry count and one bit, `stale`, that says whether `updated_at`
is older than the zombie threshold: `Expire` sets it, every write clears it. A message is
named by its place in the order of `created_at`, which `find_by` sorts by. A relay holds
the objects `find_by` returned (`relayBatch`) and handles them in order:
`RelaySave` (PROCESSING, whatever is stored) - `RelayDispatch` - `RelayPublish`
(`save_if_status`). `RelayException` is the except clause, `RelayAbort` the death of the
process or an error of the save outside the try block. `sent` counts what the broker took;
an answer that is lost is `RelayDispatch` followed by `RelayException`.
`RecoverFetch` and `RecoverSave` are the two calls of `recover_zombies()`.
`Relays` and `Recoverers` are the executions that can overlap.

### Pipeline

`pc` is the call a worker makes next: `setup`, `find`, `start`, `phase`, `ids`, `result`,
`complete`, `commit`, and `failed`, `rollback`, `ack` on the way out. The two task objects
of `execute()` and `_run_phases()` are two variables (`task`, `cur`): which of them is saved as
FAILED decides what a retry does. `sess` is the MySQL session: its uncommitted rows and the
snapshot of REPEATABLE READ. `INSERT IGNORE` takes the locks of its rows one after the other
(`InsertRow`), in the order of the file: it compares their unique keys with committed and own rows, and
waits for a key another open session has locked. Sessions that wait for each other in a circle are found
by InnoDB, which rolls one of them back and makes its INSERT raise (`Deadlock`).
`RunChunk` is the rest of the turn, once all locks are held. A raw row is abstracted to what its
refiner makes of it: a record with a video and a class, a number of rejections, or an
exception, domain or not. `InfraError` makes any call named in `Faults` fail, before or after it took
effect.

A worker dies in two ways. `Crash` ends it as a whole: Redis delivers the message again, since
`task_acks_late` has not acknowledged it yet. `Kill` ends the pool process of a job only (out of
memory, for instance): the worker's main process lives on and acknowledges the message with a
WorkerLostError, because `worker.py` does not set `task_reject_on_worker_lost`. The job is gone, and its
task stays as it is, PROCESSING as a rule.

`overlapped` is a history variable: the tasks of which two workers ran a job at once. The outbox may
dispatch a message several times, and with two workers the second job may start while the first one
runs. It then reads the task before the first has finished, runs all phases again, and counts every row
as a duplicate: its result, progress and rejections are wrong, as are its checkpoints. The properties about
records and results leave such tasks out; statuses, retries and termination are checked for them, too.

### Submission

A transaction has the snapshot its first operation takes and its own writes; it publishes
them at the commit. Requests write different documents, so transactions never conflict.
`RunTask` is the environment: the pipeline moving the status of tasks whose message exists.

### System

Outbox and Pipeline together have far too many states for TLC, and most of them do not matter to
the rest of the server. So the composition is made of what they promise:

    Outbox  implements  EventDelivery  (run outbox_single, and a theorem)
    Pipeline  implements  AnalysisJob  (runs pipeline_retry, pipeline_crash, and a theorem)
    System  =  Submission  +  EventDelivery  +  AnalysisJob

The status of `AnalysisJob` is the status in the task documents of `Submission`
(`INSTANCE ... WITH status <- ...`), so `Sub!RunTask`, the environment of `Submission`, is now the
pipeline. A message that becomes visible with the commit is `Del!Accept`, a delivery is
`Job!Arrive` of a new job: a message delivered twice is two jobs of one task, which may run at
once. `unrecorded` remembers the jobs whose last run ended, by an error or with its
process, without anything being written into the task document.

`AnalysisJob` has an action for each call that is visible from outside: `Begin` (PROCESSING),
`Checkpoint` (PROCESSING again), `Complete`, `Store` (the commit), `Fail`, `Retry`, `End`, and the faults
`Break`, `SetupError`, `Crash`, `Kill`. In `Pipeline`, `JobState` reads the state of a job off the next call
of its worker.

### Refiners, Search and DataPath

A cell is abstracted to its kind and to what `int()`, `float()`, `bool()`, `fromisoformat()` and the
enums tell apart. A parser is the expression and its except clauses: `Field(attr, field, res,
caught)` says which exceptions become which reason; what no clause catches leaves `refine_single`
and fails the task. Numbers are thousandths, temperatures hundredths of a degree.

In `DataPath` an analysis is what is visible of it from outside: `Begin` (PROCESSING), `RunPhase` for each
stage (the progress is saved, the rows are not committed yet), `Complete` (the result and COMPLETED,
still without rows) and `Commit` (the rows). A phase runs over a file of one chunk, with `INSERT IGNORE`
(keys, and values cut to their column), the link check, the rejections; an exception ends the analysis as
FAILED, with the progress of the start. `analysis` is the task under way and the phases that are over.
Analyses follow one another here, because POST /analyze accepts none while another is active, and a FAILED
task is not tried again: overlap, retries and crashes are the matter of `Pipeline`. So the tables a phase reads
are those at the commit, and what it loads is computed from them (`Outcome`) instead of being kept.

`Start` and `Read` are a client that follows the pages: `Read` is one request, with
its validation (`Valid`, `Normal`), its query (`Joined` or `RejectionRows`) and its reply
(`SearchData` or `GetRejections`). Every step of an analysis may come between two pages. Every raw row of an
instance says which of its fields are wrong and why (`defects`): this is the reference the refiners
are checked against, written down with the row and not computed by the model.

The rows of a query are a set of joined pairs, a selection with each tag it joins with. `ORDER BY id`
is `RowAt`: the row at place `i` is the one before whose id fewer than `i` pairs lie; `LIMIT` and
`OFFSET` are `Slice`. Rejections are numbered in the order they are inserted, by row and within it.

Where the code leaves something open, the model is nondeterministic: which of several tags of a
video is shown (`ShownTags`), and which auto-increment ids the rejections of a task get.

## Runs

| run | instance | shows |
|---|---|---|
| `outbox_single` | 2 messages, 1 relay, 1 recoverer, 3 retries | all properties of the outbox and the refinement of `EventDelivery` |
| `outbox_overlap` | 1 message, 2 relays, 2 recoverers | what is left under overlap, also with old copies in a recoverer's hand: `PublishedWasSent`, `EverySettles` |
| `outbox_resettled` | 1 message, 2 relays | violated: a PUBLISHED message goes back to PROCESSING |
| `pipeline_retry` | 3 tasks, of which the one that succeeds has 2 messages, 2 workers, 1 retry, 1 error inside a phase | records, results, one commit, settled tasks; the refinement of `AnalysisJob` with two jobs of one task, one after the other and at once |
| `pipeline_crash` | 2 tasks selecting the same videos in opposite order, 2 workers, every call may fail, crashes and killed processes, 2 faults | committed rows are checkpointed, counted, linked, and appear at once; termination; the refinement of `AnalysisJob` under every fault; the retries used up |
| `pipeline_lostRows` | 1 task, 1 error after the last phase | violated: COMPLETED without records |
| `pipeline_lostCheckpoint` | 1 task, 1 error inside a phase | violated: a checkpoint is taken back |
| `pipeline_sameFiles` | 2 tasks over the same files, no fault | violated: unlinked odd tags and labels are stored |
| `submission_requests` | 3 requests, files of 2, 0 and 1 chunks | all or nothing, true answers |
| `submission_twoActive` | 2 requests | violated: two tasks become active |
| `system` | 2 requests, 2 dispatches, 1 retry, 1 fault (error, crash or killed process) | jobs find their task and raw data; no ghost tasks; accepted analyses settle |
| `data` | every row with one or two defects; the files of 2 analyses, 50 requests | rejections, counts, status, search, paging |

The violated runs state what a document or docstring of the repository says; the findings in
`PROJECT.json` quote it. Smaller disagreements that a property of a passing run makes an exception
for are listed further down. Two of them belong together: an error *inside* a phase takes the
checkpoints back (against the documentation), and this is what keeps the retry from skipping
phases whose rows were rolled back; an error *after* the last phase keeps the checkpoints, and the
rows are lost. `pipeline_retry` therefore allows errors inside the phases only, and
`pipeline_crash`, which allows all, checks what holds in spite of them. `LinkedRecords` is checked in the
violated run `pipeline_sameFiles` only; `LinkedWhenSelected` is what the passing runs have of it.

Of the larger runs, `pipeline_retry` has 296 000 states (its workers are symmetric; nothing in it is about
liveness), `pipeline_crash` 245 000 and `data` 189 000, one to three minutes each. The others take seconds.

### Bounds, and why they are enough

* Two messages with `FetchLimit` 1 make the limit and the order of `find_by` matter; the
  recoverer takes both. `MaxRetries` is the 3 of the code. One message is enough for overlap,
  because executions only meet on the same message. Counters are bounded by the system
  itself: `retry` by `MaxRetries`, and `sent` with it (with overlap, too: every dispatch
  needs a copy from a fetch, and a message can be fetched in each attempt by each relay).
* Pipeline: `MaxRetries` 1 for 3: a first run, a retry and a run that gives up are all
  there. `MaxFaults` 2 is one fault in the run and one in its retry; in `pipeline_retry` it is 1, for the rows
  of task b raise in every run of their own. The rows contain each case
  of a chunk: accepted, one and two duplicates in the same chunk, a duplicate in a later one, several
  rejections, unlinked, raising in both ways, an empty file, several chunks. In `pipeline_retry` the second
  message of task a is taken before, while and after the first one is handled. In `pipeline_crash` both
  tasks select v1 and v2, in opposite order, one of them in two INSERTs: a wait for one key and a circle
  of waits both occur, and whether an odd tag or label is linked depends on who came first.
* Submission: files of 2, 0 and 1 chunks; three requests, of which any two may be in a
  transaction while the third is answered.
* System: two requests are enough for a conflict and for two active tasks. `Budget` and
  `MaxJobs` 2: one message dispatched twice, or two once. `MaxFaults` 1: each property
  excuses a single fault, and a second one only adds another excused task. Files of no or one
  chunk: chunks are the matter of `submission_requests`.
* Data: an analysis has six steps, and the walks start and go on between any of them. Pairs of defects show whether one wrong field hides another; three are no different.
  The files have unlinked, duplicate, retagged and oversized rows, empty answers and
  answers that end within and at the end of a page. `MaxInt` 9 and `MaxPath` 10 stand for
  2^31 - 1 and 500, `LongSources` for texts of more than 100 characters, `MaxRows` bounds the
  rows of a file. `Below` and `Above` are the numbers of the instances that single
  precision cannot hold, with the side the nearest single-precision number lies on.

### Fairness

* Outbox: beat starts both tasks for ever and a worker runs them (WF of the fetches); time
  passes (WF of `Expire`); a loop that was started goes on or ends (WF of `RelayStep`); the writes of
  a loop that is started again and again do not fail for ever (SF of `RelaySave` and `RecoverSave`).
  Nothing is assumed of the broker: a message that is never accepted ends as FAILED.
* Pipeline: while some worker can go on, one of them does (WF of `Step` by any worker, which live processes
  give more than that). A wait for a lock ends with the transaction that holds it,
  a circle of waits with `Deadlock`. Errors and crashes are not fair; they are bounded by `MaxFaults`.
* Submission: none, only safety is stated.
* System: WF of `Settle`, which is `Outbox!EverySettles`, and WF of the work of each job,
  which is `Pipeline!EveryJobEnds`. Requests, dispatches and faults are not fair.
* Data: WF of `Read`: a client that has begun to page goes on. Analyses need not come.

## Proofs

All theorems hold for every value of the constants that satisfies the named assumption of the module
(`OutboxAssumption`, `SubmissionAssumption`, `PipelineAssumption`, `SystemAssumption`, `NoneAssumption`
and `DataAssumption`). These say what the code's types say: limits are positive, a job has a task,
a file has finitely many chunks of finitely many rows, and no value, name or exception is mistaken
for None. What a
theorem assumes beyond them is in its statement, and named below.

`OutboxProofs`:

* `TypeCorrect` and `PublishedIsSent` need no other assumption: any number of relays and
  recoverers. `SentInv` says of every relay whose next call is `publish` that the
  message in its hand was sent, so the only write of PUBLISHED follows a delivery.
* `SettledStays` assumes at most one relay at a time (`OneRelay`): an object waiting in
  its batch is then still PENDING in the database (`WaitingInv`), so the unconditional
  save never meets a settled message. This is the assumption `outbox_resettled` drops.
* `SendsAreBounded` and `OutboxImplementsDelivery` assume one recoverer
  as well. `AttemptInv` ties the number of deliveries to the attempt: `sent` is at most the
  stored retry count, plus one once the current attempt has been dispatched, and a copy in
  a recoverer's hand with PROCESSING stored is the current one.
* The refinement theorem maps every action to `Accept`, `Deliver`, `Settle`, `GiveUp` or a stutter.

`SubmissionProofs`: `TypeCorrect`, `SubmissionIsAtomic` and `AnswersAreTrue` for any set of requests and any
chunk counts. The inductive invariant says, per request, how far the transaction
has come: its private chunks equal the counts of `submit()`, files before the current
one are complete (`Progress`), nothing is visible before the commit (`Hidden`), and all of it after (`Whole`).

`PipelineProofs`:

* `TypeCorrect`: `TypeOK` is not inductive alone. `TInv` adds that a message is reserved by one worker and
  a running job has one (`Reserved`), without which a step of another worker could take the
  job away, and that tables are finite.
* `TasksEndSettled`: an active task is attended by a queued message or by a worker that will still
  write its status (`EInv`). It assumes that `setup`, `find`, `start` and the save of FAILED do not
  fail and that no pool process is killed, the cases in which nobody tells the task, and that every
  task has a job (without one it stays PENDING); every other call may fail, and workers may die as a whole.
* `PlacedInit`, `PlacedStep` (`Placed`): what a worker does next fits the task object in its hand. The
  modules below build on it.

`CheckpointProofs` holds under any errors, lost answers, crashes and killed processes, and for any number
of messages of a task; what it says of a task ends when two workers run jobs of it at once (`overlapped`).

* `CommittedRowsAreCheckpointed` and `StoredIsCounted`: `CInv` follows the worker of a task through its phases
  (`Counting`): its counters, and what it has saved, cover the uncommitted rows of its session, and
  behind committed rows every checkpoint is full, so that a job delivered again inserts nothing.
* `RecordsAppearAtOnce` (`StoredAtOnce`): a worker about to commit has saved COMPLETED (`HInv`), and what it
  commits is all there is, for a run over committed rows skips every phase. A commit whose answer was lost
  is followed by PROCESSING and COMPLETED again, or by FAILED, over the rows it stored: nothing is
  said of the status later on.
* `SelectionsLinkRecords` (`LinkedWhenSelected`): the ids a worker checks links against are its selections,
  or it has none of its own (`LinkedRows`, `KInv`).

`ResultProofs`, while only the calls up to the last phase fail and nothing dies (`FailsEarly`), again for tasks
that do not overlap with themselves:

* `ResultsAreTrue` and `CompletedTasksAreDurable`: `RInv` describes the first run of a task (`First`), in which
  the counters are exact (`Exact`) and what is loaded after `c` chunks of a stage is what `Expected` says
  of these chunks (`Loads`), a run of a task that is stored already (`Again`), and a task nobody works for
  (`Rest`). Other tasks may share the videos: a selection they hold is one the task does without, and the
  odd tags and labels are those linked to the rest.

`FailsEarly` cannot be dropped: `pipeline_lostRows` is what a late error does, and a crash in the
same place has the same effect.

`PipelineRefinement`: `PipelineImplementsJob` needs none of these hypotheses. `ShownAt` maps the next call of a
worker to the state of its job; each step of a worker is then one action of `AnalysisJob`, or a
stutter, with overlapping jobs, too.

`SystemProofs`: `TypeCorrect`, `OnlyAcceptedTasksRun` and `NoGhostBlocks`. Every step of `System` is a step of
`Submission` or leaves its variables alone, so the invariant of `SubmissionProofs` is taken over
(`INSTANCE`) instead of being proved again. `SInv` adds the chain from the commit to a job (`Handed`), that
a job which began left its mark on the status (`HasBegun`), and who still works for an active
task, or why nobody does (`Watched`).

`DataPathProofs`: `TypeCorrect`, `WalksMissNothing`, `WalksShowOnce`, `WalksShowMatches`, `LastIsTrue`,
`StatusIsTrue`, `RefusalsHaveReasons`, `DefectsAreReported` and `RowsAreKept`, for any files, filters,
page sizes and analyses stored between the pages.

* The first part is about finite sets of pairs ordered by a key: each place of `RowAt` belongs to
  one row, the rows of `Slice` are those between its two ends, and no row is left out between a page
  and the next.
* `Tables` is the invariant of what is stored: the value objects' ranges, finite tables, unique keys,
  and rejections of different tasks numbered in blocks that do not overlap (`Blocks`). It needs what the
  refiners accept, case by case, and what `INSERT IGNORE` does to a table.
* `AnswersGrow`: storing an analysis takes no row out of an answer. With page numbers it moves
  rows to later places only, so a walk may repeat a row but misses none.
* `Documents`: what a task document shows, from PENDING to FAILED or COMPLETED, follows from how far the
  analysis is: until its commit, a document has exactly the progress its phases will have
  stored.
* `Agrees`: the counters of a stored task equal the sizes of what the tables have of it. `INSERT IGNORE` adds as
  many rows as `processed` counts because keys are unique (`Tallied`), and `Blocks` keeps the rejections of
  one task from being taken for those of another.
* `WalkInv`: the rows expected and not yet seen lie in front of the client (`Ahead`), the rows seen
  lie behind it (`Behind`). A walk by page numbers keeps `Behind` only while nothing is stored, and
  that is all `WalkRepeatsNothing` says of it.
* `RefusedForAReason` is not inductive: that a page is answered depends on what is stored. `RefusalInv` adds
  that a legal request stays legal from page to page (`Entitled`), with the page number or the
  cursor of the next one, and that every stored path can be read back unless a file had one that
  was too long. Hypothesis `BadRequestsAreNamed`: the requests an instance calls bad are those the
  request models refuse.
* `EachDefectReported` and `NoRowVanishes` compare what is stored with the defects that are noted for
  the rows of an instance. Hypothesis `DefectsAreNamed`: the refiner, given a row alone, accepts it
  if it has no defects, raises if one of them stops it, and else has a rejection for each of them,
  under the row's source; the texts the phase runners write themselves ("batch", the source of an
  unlinked record) fit the column. What is proved is all the rest: that chunks, links to the selections,
  duplicates, rollbacks and other analyses neither lose nor add anything.
* `ReportInv` is the invariant behind both. For each stage of a stored task (`Accounts`), the rejections
  other than the phase's own are the defects of the rows, one for one; rows accepted are stored,
  unlinked or duplicates, and rejections stand for the latter just when there are any (`Lost`); the counters
  add up to the number of rows when no row has two defects and no two rows are duplicates. A failed task has a row that stops. That the numbers
  match, and not only the sets, needs that two rejections of a row differ in their field and that those
  of two rows have different ids (`RefineNames`, `RowOfId`); that no later analysis disturbs them needs
  `Blocks` and `Agrees` (`StillAccounted`).

Only model-checked:

* Liveness (`EverySettles`, `EveryJobEnds`, `AcceptedSettles`, `WalkEnds`): ENABLED and fairness are beyond the prover.
* The outbox with overlapping executions beyond `TypeCorrect` and `PublishedIsSent`.
* That the refiners find exactly the defects a reader of the code expects (`DefectsAreNamed`), and the
  request models refuse exactly the bad requests (`BadRequestsAreNamed`): what a cell or a request calls
  for is a reference from outside the model. The instances of `data` satisfy both; each wrong row is an
  analysis of its own there, so `EachDefectReported` and `RefusedForAReason` fail when one of them does not hold.

## What the properties leave out, and why

Some properties have an exception, because the code does not do more. Each is as narrow as it
can be, so that the run shows that nothing else goes wrong.

* `NoGhost`, `AcceptedSettles` (`Excused`): a task stays active for ever when the outbox gives its
  message up, since nobody updates the task (`outbox_relay_service.py:88`), and when the last run of
  a job ends by an error nobody records: the MySQL setup outside the try block
  (`pipeline_task.py:26`), `find_by_id`, or a save that raises; or when the pool process of the last job
  is killed and its message acknowledged (`worker.py:22`). Every later POST /analyze is then
  answered with 409.
* `CompletedIsDurable`, `ResultIsTrue`, `StoredAtOnce`, `CommittedIsCheckpointed`, `NothingUncounted`,
  `LinkedWhenSelected` (`overlapped`): when two workers run jobs of one task at once, the second one counts
  every row as a duplicate. docs/adr/001:46 and docs/architecture.md:182 and :523 call the resumed INSERT
  IGNORE idempotent; of the rows it is, of the rejections, the progress and the result it is not.
* `StatusAgreesWithSearch` (`analysis.task`): a task is COMPLETED, with counts, before its rows are committed
  (`pipeline_service.py:49`, `pipeline_task.py:31`), and while it is PROCESSING it shows the progress of phases
  of which no search finds anything.
* `WalkIsComplete`: the cursor of GET /rejections leads nowhere. The reply is always built by
  `PageApiResponse.of`, so it has no `next_after`, and says page 1 (`routers.py:104`), although the
  description of the endpoint offers cursor paging (`routers.py:89`).
* `WalkIsComplete` (`AtInexactBound`): `min_confidence=0.9` misses rows of 0.9, which the FLOAT column
  holds as a little less; the same for temperatures.
* `WalkRepeatsNothing`, `ShownMatches` (`Tangled`): the join and the subquery compare videos, not
  tasks (`query_builder.py:57`, `:73`). When another task tagged a video anew, a selection comes
  twice, and the tag it shows need not be the one that matched.
* `EachDefectReported` ("stops"): some wrong cells fail the whole task instead of being rejected,
  although the refiners' docstrings (`label_refiner.py:12`) and README.md:169 say that every error becomes a
  rejection: an odd tag or
  label with video id 0, an odd tag with id 0, a confidence above 1, an `obj_count` of nan or inf, a
  `sourcePath` that is a number, an empty or overlong `source_id`. The instances say which. The property
  asks that an analysis fails only because of such a row, not that it does.
* `EachDefectReported` (`Coarse`): README.md:184 calls a missing required field `missing_required_field` in
  every stage. The code does so for the texts of an odd tag, the class of a label and the switches of a
  selection; every other absent field (`id`, `recordedAt`, `video_id`, `obj_count`, `labeled_at` and so on) is
  `invalid_format`. The property does not tell the two reasons apart.
* `NoRowVanishes`: `rejected` counts rejections, not rows. A row with two defects counts twice, and all
  duplicates of a chunk are one rejection, although `_build_duplicate_rejections` promises as many as were ignored
  (`phase_runners.py:138`). So the property asks for some rejections when there are duplicates, and not more
  than these, and percent need not be 100 for a COMPLETED task with two of them.
* `NoRowVanishes`: duplicates of selections are reported as `duplicate_label`, which README.md:199 gives
  to labels only; the property asks for the right reason of odd tags and labels.
* `RefusedForAReason`: a path longer than its column is stored without its `.mp4`, and every page
  with that selection is answered with 400.

## Not modelled, and why

* Redis as a broker beyond "delivers at least once": its visibility timeout (a job that runs longer is
  delivered twice, while `retry` countdowns stay far below it), prefetching, and an error of
  `self.retry` when it publishes.
* InnoDB beyond locks on unique keys: gap locks, the shared lock an INSERT IGNORE takes on a duplicate, and the
  deadlocks that come of them. Like a lock wait timeout they are an error of the call (`InfraError`).
* Clocks: `datetime.now()` of several hosts, and ties in `created_at`.
* Pool limits of the database drivers, MongoDB's limits on a transaction (60 s, size).
* `delete_by_task`, `find_by_statuses`, `drop_tables`, `get_redis`, the single-row finders of the MySQL
  repositories, and the predicates of the domain objects (`is_hazardous`, `is_reliable`, ...): no
  caller in `src/app`.
* Of times, anything but their order (time zones, the fraction a DATETIME column drops); rounding
  of a half to the even neighbour; numbers beyond the enumerated cells.
* Files of several chunks in `DataPath`: `Pipeline` has them. `MySQL` without strict mode, or with a
  collation that makes different ids equal.
* The texts of errors, the request ids and time stamps of replies, GET /analyze/{task_id} for a
  task that does not exist.
* Resolving a file loader by its suffix: the three names are constants.
* Dependency wiring, the ports, the Redis client, the id generator: no state of their own. The data
  analysis notebook is no part of the server.

## Plan

1. What is left of `ResultIsTrue` for a task of which two jobs overlap: that its records, if not its counts,
   are those of one run.
2. `WaitingInv` of the outbox with overlapping relays: which settled messages can go back.
