---------------------------- MODULE Submission ----------------------------
(***************************************************************************)
(* POST /analyze: AnalysisService.submit() under @transactional            *)
(* (app/application/analysis_service.py, decorators.py, data_ingestor.py,  *)
(* app/adapter/outbound/mongodb/transaction.py), by several request        *)
(* threads.  submit() reads the three files, writes their chunks, checks   *)
(* that no task is active and writes the task and its outbox message, all  *)
(* in one MongoDB transaction.                                             *)
(*                                                                         *)
(* A transaction reads the snapshot its first operation takes, together    *)
(* with its own writes, and its writes become visible at the commit.       *)
(* Two transactions only conflict when they write the same document, and   *)
(* every request writes under a task_id of its own: a request is named by  *)
(* the task it creates.                                                    *)
(***************************************************************************)
EXTENDS Naturals, FiniteSets

CONSTANTS
  Requests,   \* requests, and the tasks they create
  Chunks      \* source -> number of chunks its file is read in

Sources == 1 .. 3      \* selections.json, odds.csv, labels.csv, in this order

ASSUME SubmissionAssumption == Chunks \in [Sources -> Nat]

VARIABLES
  tasks,     \* analyze_tasks: task -> [status, total]
  outbox,    \* the tasks with a message in the outbox
  raw,       \* raw_data: task -> source -> number of chunks stored
  req,       \* request -> the local variables of submit()
  tx,        \* request -> what its transaction has seen and written
  reply      \* request -> HTTP status of the answer, 0 for none

vars == <<tasks, outbox, raw, req, tx, reply>>

Statuses == {"pending", "processing", "completed", "failed"}
Active == {"pending", "processing"}
NoRaw == [s \in Sources |-> 0]
NoTask == [status |-> "none", total |-> NoRaw]

\* AnalyzeTask.create_new: PENDING, with the counts of the ingestion as totals.
CreateNew(counts) == [status |-> "pending", total |-> counts]

ActiveTasks == {t \in Requests : tasks[t].status \in Active}

-----------------------------------------------------------------------------
Init ==
  /\ tasks = [t \in Requests |-> NoTask]
  /\ outbox = {}
  /\ raw = [t \in Requests |-> NoRaw]
  /\ req = [r \in Requests |-> [pc |-> "new", source |-> 1, counts |-> NoRaw]]
  /\ tx = [r \in Requests |->
            [open |-> FALSE, active |-> {}, raw |-> NoRaw, task |-> NoTask, event |-> FALSE]]
  /\ reply = [r \in Requests |-> 0]

\* A request arrives: start_session, start_transaction, generate the task_id.
Begin(r) ==
  /\ req[r].pc = "new"
  /\ req' = [req EXCEPT ![r].pc = "ingest"]
  /\ UNCHANGED <<tasks, outbox, raw, tx, reply>>

\* The first operation of the transaction takes its snapshot.
Seen(r) == IF tx[r].open THEN tx[r].active ELSE ActiveTasks

\* Mutation: a repository that does not pass get_current_session().
SaveChunkOutside(r) ==
  LET s == req[r].source
  IN /\ req[r].pc = "ingest"
     /\ req[r].counts[s] < Chunks[s]
     /\ raw' = [raw EXCEPT ![r][s] = @ + 1]
     /\ req' = [req EXCEPT ![r].counts[s] = @ + 1]
     /\ UNCHANGED <<tasks, outbox, tx, reply>>

\* Mutation: a loop that goes on after the last chunk.
SaveChunkPastEnd(r) ==
  LET s == req[r].source
  IN /\ req[r].pc = "ingest"
     /\ req[r].counts[s] <= Chunks[s]
     /\ tx' = [tx EXCEPT ![r].open = TRUE, ![r].active = Seen(r), ![r].raw[s] = @ + 1]
     /\ req' = [req EXCEPT ![r].counts[s] = @ + 1]
     /\ UNCHANGED <<tasks, outbox, raw, reply>>

\* _load_and_save: one chunk of the current file.
SaveChunk(r) ==
  LET s == req[r].source
  IN /\ req[r].pc = "ingest"
     /\ req[r].counts[s] < Chunks[s]
     /\ tx' = [tx EXCEPT ![r].open = TRUE, ![r].active = Seen(r), ![r].raw[s] = @ + 1]
     /\ req' = [req EXCEPT ![r].counts[s] = @ + 1]
     /\ UNCHANGED <<tasks, outbox, raw, reply>>

\* The file is read: the next one, or create_if_not_active.
EndFile(r) ==
  LET s == req[r].source
  IN /\ req[r].pc = "ingest"
     /\ req[r].counts[s] = Chunks[s]
     /\ req' = [req EXCEPT ![r].pc = IF s = 3 THEN "check" ELSE @,
                           ![r].source = IF s = 3 THEN @ ELSE s + 1]
     /\ UNCHANGED <<tasks, outbox, raw, tx, reply>>

\* The transaction is given up and the request answered.
Abort(r, code) ==
  /\ req' = [req EXCEPT ![r].pc = "done"]
  /\ reply' = [reply EXCEPT ![r] = code]
  /\ UNCHANGED <<tasks, outbox, raw, tx>>

\* A loader raises InvalidFormatError or DataNotFoundError, at any place of a file.
FileError(r) == req[r].pc = "ingest" /\ Abort(r, 400)

\* create_if_not_active finds an active task: ConflictError.
Conflict(r) == req[r].pc = "check" /\ Seen(r) # {} /\ Abort(r, 409)

\* create_if_not_active finds none: find_one takes the snapshot at the latest,
\* task_repo.save writes.
CreateTask(r) ==
  /\ req[r].pc = "check"
  /\ Seen(r) = {}
  /\ tx' = [tx EXCEPT ![r].open = TRUE, ![r].active = Seen(r),
                      ![r].task = CreateNew(req[r].counts)]
  /\ req' = [req EXCEPT ![r].pc = "event"]
  /\ UNCHANGED <<tasks, outbox, raw, reply>>

\* Mutation: an outbox repository that does not pass get_current_session().
SaveEventOutside(r) ==
  /\ req[r].pc = "event"
  /\ outbox' = outbox \union {r}
  /\ req' = [req EXCEPT ![r].pc = "commit"]
  /\ UNCHANGED <<tasks, raw, tx, reply>>

\* outbox_repo.save(create_analyze_event).
SaveEvent(r) ==
  /\ req[r].pc = "event"
  /\ tx' = [tx EXCEPT ![r].event = TRUE]
  /\ req' = [req EXCEPT ![r].pc = "commit"]
  /\ UNCHANGED <<tasks, outbox, raw, reply>>

\* What a transaction has written becomes visible.
Apply(r) ==
  /\ tasks' = [tasks EXCEPT ![r] = tx[r].task]
  /\ outbox' = IF tx[r].event THEN outbox \union {r} ELSE outbox
  /\ raw' = [raw EXCEPT ![r] = [s \in Sources |-> @[s] + tx[r].raw[s]]]

\* Mutation: 202 before the transaction is committed.
AcceptBeforeCommit(r) ==
  /\ req[r].pc = "commit"
  /\ reply[r] = 0
  /\ reply' = [reply EXCEPT ![r] = 202]
  /\ UNCHANGED <<tasks, outbox, raw, req, tx>>

\* The end of the with block commits, then submit() returns: 202.
Commit(r) ==
  /\ req[r].pc = "commit"
  /\ Apply(r)
  /\ req' = [req EXCEPT ![r].pc = "done"]
  /\ reply' = [reply EXCEPT ![r] = 202]
  /\ UNCHANGED tx

\* MongoDB fails: 500; a commit may have been applied all the same.
InfraError(r) ==
  /\ req[r].pc \in {"ingest", "check", "event", "commit"}
  /\ req' = [req EXCEPT ![r].pc = "done"]
  /\ reply' = [reply EXCEPT ![r] = 500]
  /\ \/ UNCHANGED <<tasks, outbox, raw>>
     \/ req[r].pc = "commit" /\ Apply(r)
  /\ UNCHANGED tx

\* The API process dies: the server aborts the transaction, nobody is answered.
Crash(r) == req[r].pc \notin {"new", "done"} /\ Abort(r, 0)

\* The pipeline moves the status of a task it was handed (PipelineService.execute):
\* back to PROCESSING by a retry or a second delivery, from COMPLETED to FAILED when the
\* save of COMPLETED was applied and raised all the same.
RunTask(t, status) ==
  /\ t \in outbox
  /\ \/ status = "processing"
     \/ tasks[t].status # "pending" /\ status \in {"completed", "failed"}
  /\ tasks' = [tasks EXCEPT ![t].status = status]
  /\ UNCHANGED <<outbox, raw, req, tx, reply>>

Next ==
  \E r \in Requests :
    \/ Begin(r) \/ SaveChunk(r) \/ EndFile(r) \/ FileError(r)
    \/ Conflict(r) \/ CreateTask(r) \/ SaveEvent(r) \/ Commit(r)
    \/ InfraError(r) \/ Crash(r)
    \/ \E status \in Statuses : RunTask(r, status)

Spec == Init /\ [][Next]_vars

-----------------------------------------------------------------------------
Counts == {f \in [Sources -> Nat] : \A s \in Sources : f[s] <= Chunks[s]}
TaskDocs == [status : Statuses \union {"none"}, total : Counts]
Locals == [pc : {"new", "ingest", "check", "event", "commit", "done"},
           source : Sources, counts : Counts]
Transactions == [open : BOOLEAN, active : SUBSET Requests, raw : Counts,
                 task : TaskDocs, event : BOOLEAN]

\* The types of the state; no counter passes the number of chunks of its file.
TypeOK ==
  /\ tasks \in [Requests -> TaskDocs]
  /\ outbox \subseteq Requests
  /\ raw \in [Requests -> Counts]
  /\ req \in [Requests -> Locals]
  /\ tx \in [Requests -> Transactions]
  /\ reply \in [Requests -> {0, 202, 400, 409, 500}]

\* All or nothing (@transactional): a task is stored with its event and with every
\* chunk of its three files, which its totals count; without it nothing is stored,
\* wherever the request failed.
AcceptedIsWhole ==
  \A t \in Requests :
    IF tasks[t].status = "none"
    THEN t \notin outbox /\ raw[t] = NoRaw
    ELSE t \in outbox /\ raw[t] = Chunks /\ tasks[t].total = Chunks

\* The answer is true: 202 only for a task that is stored, 400 and 409 only when
\* nothing was; 500 may mean either.
ReplyIsKept ==
  \A r \in Requests :
    /\ reply[r] = 202 => tasks[r].status # "none"
    /\ reply[r] \in {400, 409} => tasks[r].status = "none"

\* A task is created only while no other task is active (create_if_not_active).
CreatedOnlyWhenIdle ==
  [][\A t \in Requests :
       tasks[t].status = "none" /\ tasks'[t].status # "none" => ActiveTasks = {}]_vars
=============================================================================
