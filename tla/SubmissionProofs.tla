-------------------------- MODULE SubmissionProofs --------------------------
(***************************************************************************)
(* Theorems about Submission, for any number of concurrent requests and    *)
(* files of any length, with every failure the model has.                  *)
(***************************************************************************)
EXTENDS Submission, TLAPS

\* Where a request stands in submit(): the files before the current one are read,
\* after the ingestion all of them; the transaction holds exactly what was read.
Progress(r) ==
  /\ req[r].pc \in {"new", "ingest"} =>
       \A s \in Sources : s < req[r].source => req[r].counts[s] = Chunks[s]
  /\ req[r].pc = "new" => req[r].counts = NoRaw
  /\ req[r].pc \in {"check", "event", "commit"} => req[r].counts = Chunks
  /\ req[r].pc # "done" => tx[r].raw = req[r].counts
  /\ req[r].pc \in {"event", "commit"} => tx[r].task = CreateNew(Chunks)
  /\ req[r].pc = "commit" => tx[r].event

\* Until the request is over, nothing of it is visible and nobody is answered.
Hidden(r) ==
  req[r].pc # "done" =>
    tasks[r].status = "none" /\ r \notin outbox /\ raw[r] = NoRaw /\ reply[r] = 0

Whole(t) ==
  IF tasks[t].status = "none"
  THEN t \notin outbox /\ raw[t] = NoRaw
  ELSE t \in outbox /\ raw[t] = Chunks /\ tasks[t].total = Chunks
Kept(r) ==
  /\ reply[r] = 202 => tasks[r].status # "none"
  /\ reply[r] \in {400, 409} => tasks[r].status = "none"

RInv(r) == Progress(r) /\ Hidden(r) /\ Whole(r) /\ Kept(r)
IInv == TypeOK /\ \A r \in Requests : RInv(r)

-----------------------------------------------------------------------------
\* The counters of a request, and those of the totals, have these ranges.
LEMMA CountsFacts ==
  /\ NoRaw \in Counts /\ Chunks \in Counts /\ NoTask \in TaskDocs
  /\ \A c \in Counts : CreateNew(c) \in TaskDocs
  /\ CreateNew(Chunks).status = "pending" /\ CreateNew(Chunks).total = Chunks
  /\ [s \in Sources |-> NoRaw[s] + Chunks[s]] = Chunks
<1>1. NoRaw \in Counts /\ Chunks \in Counts
  BY SubmissionAssumption DEF NoRaw, Counts
<1>2. NoTask \in TaskDocs /\ \A c \in Counts : CreateNew(c) \in TaskDocs
  BY <1>1 DEF NoTask, TaskDocs, CreateNew, Statuses
<1>3. CreateNew(Chunks).status = "pending" /\ CreateNew(Chunks).total = Chunks
  BY DEF CreateNew
<1>4. [s \in Sources |-> NoRaw[s] + Chunks[s]] = Chunks
  BY SubmissionAssumption DEF NoRaw
<1> QED BY <1>1, <1>2, <1>3, <1>4

\* The first state satisfies the invariant.
LEMMA IInvInit == Init => IInv
<1> SUFFICES ASSUME Init PROVE IInv
  OBVIOUS
<1>1. TypeOK
  BY CountsFacts DEF Init, TypeOK, Sources, Locals, Transactions
<1>2. ASSUME NEW r \in Requests PROVE RInv(r)
  <2>1. Progress(r)
    BY DEF Init, Progress, Sources
  <2>2. Hidden(r) /\ Whole(r) /\ Kept(r)
    BY DEF Init, Hidden, Whole, Kept, NoTask
  <2> QED BY <2>1, <2>2 DEF RInv
<1> QED BY <1>1, <1>2 DEF IInv

-----------------------------------------------------------------------------
\* A step that changes nothing of a request keeps what RInv says of it.
LEMMA Untouched ==
  ASSUME NEW q \in Requests, RInv(q),
         tasks'[q] = tasks[q], (q \in outbox') <=> (q \in outbox), raw'[q] = raw[q],
         req'[q] = req[q], tx'[q] = tx[q], reply'[q] = reply[q]
  PROVE  RInv(q)'
BY DEF RInv, Progress, Hidden, Whole, Kept

\* What a step of one request leaves alone.
SameRest(r) ==
  \A q \in Requests \ {r} :
    /\ tasks'[q] = tasks[q] /\ ((q \in outbox') <=> (q \in outbox)) /\ raw'[q] = raw[q]
    /\ req'[q] = req[q] /\ tx'[q] = tx[q] /\ reply'[q] = reply[q]

\* The types of one request.
LEMMA Fields ==
  ASSUME TypeOK, NEW r \in Requests
  PROVE  /\ req[r] \in Locals /\ tx[r] \in Transactions
         /\ req[r].source \in Sources /\ req[r].counts \in Counts
         /\ tx[r].active \subseteq Requests /\ Seen(r) \subseteq Requests
<1>1. req[r] \in Locals /\ tx[r] \in Transactions
  BY DEF TypeOK
<1>2. req[r].source \in Sources /\ req[r].counts \in Counts
  BY <1>1 DEF Locals
<1>3. tx[r].active \subseteq Requests
  BY <1>1 DEF Transactions
<1>4. Seen(r) \subseteq Requests
  BY <1>3, Zenon DEF Seen, ActiveTasks
<1> QED BY <1>1, <1>2, <1>3, <1>4

\* The writes of a transaction, field by field.
LEMMA Writes ==
  ASSUME NEW A, NEW B, NEW C, NEW D, NEW E,
         NEW t \in [open : A, active : B, raw : C, task : D, event : E],
         NEW a \in A, NEW b \in B, NEW c \in C, NEW d \in D, NEW e \in E
  PROVE  /\ [t EXCEPT !.open = a, !.active = b, !.raw = c]
               \in [open : A, active : B, raw : C, task : D, event : E]
         /\ [t EXCEPT !.open = a, !.active = b, !.task = d]
               \in [open : A, active : B, raw : C, task : D, event : E]
         /\ [t EXCEPT !.event = e]
               \in [open : A, active : B, raw : C, task : D, event : E]
OBVIOUS

\* What SaveChunk, CreateTask and SaveEvent write has the type of a transaction.
LEMMA TransactionWrites ==
  ASSUME NEW t \in Transactions, NEW b \in SUBSET Requests,
         NEW c \in Counts, NEW d \in TaskDocs
  PROVE  /\ [t EXCEPT !.open = TRUE, !.active = b, !.raw = c] \in Transactions
         /\ [t EXCEPT !.open = TRUE, !.active = b, !.task = d] \in Transactions
         /\ [t EXCEPT !.event = TRUE] \in Transactions
<1>1. TRUE \in BOOLEAN
  OBVIOUS
<1> QED BY <1>1, Writes, Zenon DEF Transactions

\* A step inside submit(): new local variables, new writes under the transaction.
LEMMA InnerStep ==
  ASSUME TypeOK, NEW r \in Requests, NEW l \in Locals, NEW t \in Transactions,
         req' = [req EXCEPT ![r] = l], tx' = [tx EXCEPT ![r] = t],
         UNCHANGED <<tasks, outbox, raw, reply>>
  PROVE  TypeOK' /\ SameRest(r) /\ req'[r] = l /\ tx'[r] = t
BY DEF TypeOK, SameRest

\* Begin: the request is at its first file, and has read nothing of it.
LEMMA BeginKeeps ==
  ASSUME TypeOK, NEW r \in Requests, RInv(r), Begin(r)
  PROVE  TypeOK' /\ RInv(r)' /\ SameRest(r)
<1>1. TypeOK'
  BY DEF TypeOK, Locals, Begin
<1>2. SameRest(r)
  BY DEF TypeOK, Locals, Begin, SameRest
<1>3. RInv(r)'
  BY DEF TypeOK, Locals, Transactions, Begin, RInv, Progress, Hidden, Whole, Kept
<1> QED BY <1>1, <1>2, <1>3

\* One more chunk, read and written under the transaction.
LEMMA SaveChunkKeeps ==
  ASSUME TypeOK, NEW r \in Requests, RInv(r), SaveChunk(r)
  PROVE  TypeOK' /\ RInv(r)' /\ SameRest(r)
<1> DEFINE s == req[r].source
<1> DEFINE more == [req[r].counts EXCEPT ![s] = @ + 1]
<1>1. s \in Sources /\ req[r].counts \in Counts /\ req[r].counts[s] < Chunks[s]
  BY Fields DEF SaveChunk
<1>2. tx[r].raw = req[r].counts
  BY DEF SaveChunk, RInv, Progress
<1>3. more \in Counts
  BY <1>1, SubmissionAssumption DEF Counts
<1> DEFINE l == [req[r] EXCEPT !.counts = more]
<1> DEFINE t == [tx[r] EXCEPT !.open = TRUE, !.active = Seen(r), !.raw = more]
<1>5. /\ req' = [req EXCEPT ![r] = l] /\ tx' = [tx EXCEPT ![r] = t]
      /\ UNCHANGED <<tasks, outbox, raw, reply>>
  BY <1>2 DEF SaveChunk
<1> HIDE DEF more, s
<1>6. l \in Locals /\ t \in Transactions
  <2>1. l \in Locals
    BY <1>3, Fields DEF Locals
  <2>2. t \in Transactions
    BY <1>3, Fields, CountsFacts, TransactionWrites
  <2> QED BY <2>1, <2>2
<1>6a. /\ l.pc = req[r].pc /\ l.source = s /\ l.counts = more /\ t.raw = more
       /\ req[r].pc = "ingest"
  BY Fields DEF Locals, Transactions, SaveChunk, s
<1> HIDE DEF l, t
<1>7. TypeOK' /\ SameRest(r) /\ req'[r] = l /\ tx'[r] = t
  BY <1>5, <1>6, InnerStep
<1>8. /\ req'[r].pc = "ingest" /\ req[r].pc = "ingest" /\ req'[r].source = s
      /\ req'[r].counts = more /\ tx'[r].raw = more
  BY <1>6a, <1>7
<1>9. \A i \in Sources : i < s => more[i] = Chunks[i]
  BY <1>1, <1>8 DEF RInv, Progress, more, Counts, s, Sources
<1>10. Progress(r)'
  BY <1>8, <1>9 DEF Progress
<1>11. Hidden(r)' /\ Whole(r)' /\ Kept(r)'
  BY <1>5, <1>8 DEF RInv, Hidden, Whole, Kept
<1> QED BY <1>7, <1>10, <1>11 DEF RInv

\* The next file, or, after the third, the check with everything read.
LEMMA EndFileKeeps ==
  ASSUME TypeOK, NEW r \in Requests, RInv(r), EndFile(r)
  PROVE  TypeOK' /\ RInv(r)' /\ SameRest(r)
<1> DEFINE s == req[r].source
<1>1. s \in Sources /\ req[r].counts \in Counts /\ req[r].counts[s] = Chunks[s]
  BY Fields DEF EndFile
<1>2. \A i \in Sources : i <= s => req[r].counts[i] = Chunks[i]
  BY <1>1 DEF EndFile, RInv, Progress, Sources
<1>3. s = 3 => req[r].counts = Chunks
  BY <1>1, <1>2, SubmissionAssumption DEF Counts, Sources
<1> DEFINE l == [req[r] EXCEPT !.pc = IF s = 3 THEN "check" ELSE @,
                               !.source = IF s = 3 THEN @ ELSE s + 1]
<1>4. /\ req[r].pc = "ingest" /\ l.counts = req[r].counts
      /\ s = 3 => l.pc = "check" /\ l.source = s
      /\ s # 3 => l.pc = "ingest" /\ l.source = s + 1
  BY Fields DEF EndFile, Locals
<1>5. l \in Locals
  <2>1. s # 3 => s + 1 \in Sources
    BY <1>1 DEF Sources
  <2>2. (IF s = 3 THEN "check" ELSE req[r].pc) \in {"check", "ingest"}
    BY <1>4
  <2>3. (IF s = 3 THEN req[r].source ELSE s + 1) \in Sources
    BY <1>1, <2>1
  <2> QED BY <2>2, <2>3, Fields DEF Locals
<1>6. req' = [req EXCEPT ![r] = l] /\ UNCHANGED <<tasks, outbox, raw, tx, reply>>
  BY Zenon DEF EndFile
<1>7. /\ TypeOK' /\ SameRest(r) /\ req'[r] = l
      /\ tx'[r] = tx[r] /\ tx'[r].raw = l.counts
  <2> HIDE DEF l
  <2>1. tx' = [tx EXCEPT ![r] = tx[r]]
    BY <1>6 DEF TypeOK
  <2>2. tx[r].raw = l.counts
    BY <1>4 DEF RInv, Progress
  <2> QED BY <1>5, <1>6, <2>1, <2>2, Fields, InnerStep
<1> HIDE DEF l
<1>8. Progress(r)'
  <2>1. CASE s = 3
    BY <1>3, <1>4, <1>7, <2>1 DEF Progress
  <2>2. CASE s # 3
    BY <1>1, <1>2, <1>4, <1>7, <2>2 DEF Progress, Sources
  <2> QED BY <2>1, <2>2
<1>9. Hidden(r)' /\ Whole(r)' /\ Kept(r)'
  BY <1>4, <1>6, <1>7 DEF RInv, Hidden, Whole, Kept
<1> QED BY <1>7, <1>8, <1>9 DEF RInv

\* A transaction given up leaves nothing behind.
LEMMA AbortKeeps ==
  ASSUME TypeOK, NEW r \in Requests, RInv(r), NEW code \in {0, 400, 409, 500},
         req[r].pc # "done", Abort(r, code)
  PROVE  TypeOK' /\ RInv(r)' /\ SameRest(r)
<1>1. TypeOK' /\ SameRest(r)
  BY DEF TypeOK, Locals, Abort, SameRest
<1>2. RInv(r)'
  BY DEF TypeOK, Locals, Transactions, Abort, RInv, Progress, Hidden, Whole, Kept
<1> QED BY <1>1, <1>2

\* create_if_not_active writes the task with the counts of all three files.
LEMMA CreateTaskKeeps ==
  ASSUME TypeOK, NEW r \in Requests, RInv(r), CreateTask(r)
  PROVE  TypeOK' /\ RInv(r)' /\ SameRest(r)
<1>1. req[r].pc = "check" /\ req[r].counts = Chunks /\ tx[r].raw = Chunks
  BY DEF CreateTask, RInv, Progress
<1>2. CreateNew(req[r].counts) \in TaskDocs /\ CreateNew(req[r].counts) = CreateNew(Chunks)
  BY <1>1, CountsFacts
<1> DEFINE l == [req[r] EXCEPT !.pc = "event"]
<1> DEFINE t == [tx[r] EXCEPT !.open = TRUE, !.active = Seen(r),
                              !.task = CreateNew(req[r].counts)]
<1>3. req' = [req EXCEPT ![r] = l] /\ tx' = [tx EXCEPT ![r] = t]
  BY DEF CreateTask
<1>4. l \in Locals /\ t \in Transactions
  <2>1. l \in Locals
    BY Fields DEF Locals
  <2>2. t \in Transactions
    BY <1>2, Fields, CountsFacts, TransactionWrites
  <2> QED BY <2>1, <2>2
<1>5. /\ l.pc = "event" /\ l.counts = Chunks
      /\ t.raw = Chunks /\ t.task = CreateNew(Chunks)
  BY <1>1, <1>2, Fields DEF Locals, Transactions
<1> HIDE DEF l, t
<1>6. TypeOK' /\ SameRest(r) /\ req'[r] = l /\ tx'[r] = t
  BY <1>3, <1>4, InnerStep DEF CreateTask
<1>7. RInv(r)'
  BY <1>1, <1>5, <1>6 DEF CreateTask, RInv, Progress, Hidden, Whole, Kept
<1> QED BY <1>6, <1>7

\* outbox_repo.save writes the event of that task.
LEMMA SaveEventKeeps ==
  ASSUME TypeOK, NEW r \in Requests, RInv(r), SaveEvent(r)
  PROVE  TypeOK' /\ RInv(r)' /\ SameRest(r)
<1> DEFINE l == [req[r] EXCEPT !.pc = "commit"]
<1> DEFINE t == [tx[r] EXCEPT !.event = TRUE]
<1>1. /\ req[r].pc = "event" /\ req[r].counts = Chunks
      /\ tx[r].raw = Chunks /\ tx[r].task = CreateNew(Chunks)
  BY DEF SaveEvent, RInv, Progress
<1>2. req' = [req EXCEPT ![r] = l] /\ tx' = [tx EXCEPT ![r] = t]
  BY DEF SaveEvent
<1>3. l \in Locals /\ t \in Transactions
  <2>1. l \in Locals
    BY Fields DEF Locals
  <2>2. t \in Transactions
    BY Fields, CountsFacts, TransactionWrites
  <2> QED BY <2>1, <2>2
<1>4. /\ l.pc = "commit" /\ l.counts = Chunks
      /\ t.raw = Chunks /\ t.task = CreateNew(Chunks) /\ t.event
  BY <1>1, Fields DEF Locals, Transactions
<1> HIDE DEF l, t
<1>5. TypeOK' /\ SameRest(r) /\ req'[r] = l /\ tx'[r] = t
  BY <1>2, <1>3, InnerStep DEF SaveEvent
<1>6. RInv(r)'
  BY <1>1, <1>4, <1>5 DEF SaveEvent, RInv, Progress, Hidden, Whole, Kept
<1> QED BY <1>5, <1>6

\* The commit makes the task, its event and all of its chunks visible at once.
LEMMA ApplyKeeps ==
  ASSUME TypeOK, NEW r \in Requests, RInv(r), req[r].pc = "commit", Apply(r),
         NEW code \in {202, 500}, UNCHANGED tx,
         req' = [req EXCEPT ![r].pc = "done"], reply' = [reply EXCEPT ![r] = code]
  PROVE  TypeOK' /\ RInv(r)' /\ SameRest(r)
<1>1. /\ tx[r].raw = Chunks /\ tx[r].task = CreateNew(Chunks) /\ tx[r].event
      /\ raw[r] = NoRaw
  BY DEF RInv, Progress, Hidden
<1>2. /\ tasks' = [tasks EXCEPT ![r] = CreateNew(Chunks)]
      /\ outbox' = outbox \union {r}
      /\ raw' = [raw EXCEPT ![r] = Chunks]
  <2>1. [s \in Sources |-> raw[r][s] + tx[r].raw[s]] = Chunks
    BY <1>1, CountsFacts
  <2>2. raw' = [raw EXCEPT ![r] = [s \in Sources |-> raw[r][s] + tx[r].raw[s]]]
    BY DEF Apply
  <2> QED BY <1>1, <2>1, <2>2 DEF Apply
<1>3. TypeOK'
  BY <1>2, CountsFacts DEF TypeOK, Locals
<1>4. SameRest(r)
  BY <1>2 DEF TypeOK, SameRest
<1>5. /\ tasks'[r] = CreateNew(Chunks) /\ r \in outbox' /\ raw'[r] = Chunks
      /\ req'[r].pc = "done" /\ reply'[r] = code
  BY <1>2 DEF TypeOK
<1>6. RInv(r)'
  BY <1>5, CountsFacts DEF RInv, Progress, Hidden, Whole, Kept
<1> QED BY <1>3, <1>4, <1>6

\* The pipeline only moves the status of a task that is stored.
LEMMA RunTaskKeeps ==
  ASSUME TypeOK, NEW r \in Requests, RInv(r), NEW status \in Statuses, RunTask(r, status)
  PROVE  TypeOK' /\ RInv(r)' /\ SameRest(r)
<1>1. /\ tasks'[r].status \in Statuses /\ tasks'[r].total = tasks[r].total
      /\ UNCHANGED <<outbox, raw, req, tx, reply>> /\ r \in outbox
  BY DEF TypeOK, TaskDocs, RunTask, Statuses
<1>2. tasks[r].status # "none" /\ "none" \notin Statuses
  BY <1>1 DEF RInv, Whole, Statuses
<1>3. TypeOK'
  BY DEF TypeOK, TaskDocs, RunTask, Statuses
<1>4. SameRest(r)
  BY DEF TypeOK, RunTask, SameRest
<1>5. Progress(r)' /\ Hidden(r)'
  BY <1>1, <1>2 DEF RInv, Progress, Hidden
<1>6. Whole(r)' /\ Kept(r)'
  BY <1>1, <1>2 DEF RInv, Whole, Kept, Hidden
<1> QED BY <1>3, <1>4, <1>5, <1>6 DEF RInv

\* Every step keeps the invariant.
LEMMA IInvNext == IInv /\ [Next]_vars => IInv'
<1> SUFFICES ASSUME IInv, [Next]_vars PROVE IInv'
  OBVIOUS
<1>0. TypeOK /\ \A q \in Requests : RInv(q)
  BY DEF IInv
<1>1. ASSUME NEW r \in Requests, TypeOK' /\ RInv(r)' /\ SameRest(r) PROVE IInv'
  BY <1>0, <1>1, Untouched DEF IInv, SameRest
<1>2. ASSUME NEW r \in Requests, Begin(r) PROVE IInv'
  BY <1>0, <1>1, <1>2, BeginKeeps
<1>3. ASSUME NEW r \in Requests, SaveChunk(r) PROVE IInv'
  BY <1>0, <1>1, <1>3, SaveChunkKeeps
<1>4. ASSUME NEW r \in Requests, EndFile(r) PROVE IInv'
  BY <1>0, <1>1, <1>4, EndFileKeeps
<1>5. ASSUME NEW r \in Requests, FileError(r) PROVE IInv'
  BY <1>0, <1>1, <1>5, AbortKeeps DEF FileError
<1>6. ASSUME NEW r \in Requests, Conflict(r) PROVE IInv'
  BY <1>0, <1>1, <1>6, AbortKeeps DEF Conflict
<1>7. ASSUME NEW r \in Requests, CreateTask(r) PROVE IInv'
  BY <1>0, <1>1, <1>7, CreateTaskKeeps
<1>8. ASSUME NEW r \in Requests, SaveEvent(r) PROVE IInv'
  BY <1>0, <1>1, <1>8, SaveEventKeeps
<1>9. ASSUME NEW r \in Requests, Commit(r) PROVE IInv'
  BY <1>0, <1>1, <1>9, ApplyKeeps DEF Commit
<1>10. ASSUME NEW r \in Requests, InfraError(r) PROVE IInv'
  <2>1. CASE UNCHANGED <<tasks, outbox, raw>>
    <3>1. req[r].pc # "done" /\ Abort(r, 500)
      BY <1>10, <2>1 DEF InfraError, Abort
    <3> QED BY <1>0, <1>1, <3>1, AbortKeeps
  <2>2. CASE req[r].pc = "commit" /\ Apply(r)
    BY <1>0, <1>1, <1>10, <2>2, ApplyKeeps DEF InfraError
  <2> QED BY <1>10, <2>1, <2>2 DEF InfraError
<1>11. ASSUME NEW r \in Requests, Crash(r) PROVE IInv'
  BY <1>0, <1>1, <1>11, AbortKeeps DEF Crash
<1>12. ASSUME NEW r \in Requests, NEW status \in Statuses, RunTask(r, status) PROVE IInv'
  BY <1>0, <1>1, <1>12, RunTaskKeeps
<1>13. ASSUME UNCHANGED vars PROVE IInv'
  <2>1. TypeOK'
    BY <1>0, <1>13 DEF TypeOK, vars
  <2>2. \A q \in Requests : RInv(q)'
    BY <1>0, <1>13, Untouched DEF vars
  <2> QED BY <2>1, <2>2 DEF IInv
<1> QED
  BY <1>2, <1>3, <1>4, <1>5, <1>6, <1>7, <1>8, <1>9, <1>10, <1>11, <1>12, <1>13 DEF Next

-----------------------------------------------------------------------------
\* The state has its types, and no counter passes its file.
THEOREM TypeCorrect == Spec => []TypeOK
<1>1. IInv => TypeOK
  BY DEF IInv
<1> QED BY <1>1, IInvInit, IInvNext, PTL DEF Spec

\* submit() is all or nothing, wherever and however often requests fail and
\* whatever other requests do meanwhile.
THEOREM SubmissionIsAtomic == Spec => []AcceptedIsWhole
<1>1. IInv => AcceptedIsWhole
  BY DEF IInv, RInv, Whole, AcceptedIsWhole
<1> QED BY <1>1, IInvInit, IInvNext, PTL DEF Spec

\* A client that is told 202 has a stored task, one that is told 400 or 409 none.
THEOREM AnswersAreTrue == Spec => []ReplyIsKept
<1>1. IInv => ReplyIsKept
  BY DEF IInv, RInv, Kept, ReplyIsKept
<1> QED BY <1>1, IInvInit, IInvNext, PTL DEF Spec
=============================================================================
