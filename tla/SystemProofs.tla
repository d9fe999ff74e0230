---------------------------- MODULE SystemProofs ----------------------------
(***************************************************************************)
(* Theorems about System, for any number of requests, messages and jobs,   *)
(* and any errors and crashes.  What Submission guarantees of its own      *)
(* documents is taken over from SubmissionProofs: every step of System is  *)
(* a step of Submission or leaves its variables alone.                     *)
(***************************************************************************)
EXTENDS System, TLAPS

Sp == INSTANCE SubmissionProofs

\* The messages and jobs of a task follow from what submit() has committed.
Handed ==
  /\ \A t \in Requests : t \in outbox <=> events[t] # "none"
  /\ \A t \in Requests : deliveries[t] >= 1 => t \in outbox
  /\ \A t \in Requests : events[t] = "done" => deliveries[t] >= 1
  /\ \A j \in Jobs : jobs[j].state # "absent" => deliveries[j[1]] >= 1

\* A job that has saved PROCESSING has begun its task, and so has one that has stored records;
\* no task becomes PENDING again.
BegunStatuses == {"processing", "completed", "failed"}
HasBegun ==
  /\ \A j \in Jobs : jobs[j].state \in {"begun", "completed"} => tasks[j[1]].status \in BegunStatuses
  /\ \A t \in Requests : stored[t] => tasks[t].status \in BegunStatuses

\* An active task that was dispatched has a job that will still save a status, or one whose
\* last run ended by an error the task was not told of.
Unsettled == {"queued", "running", "begun"}
Attended(t) == \E j \in Jobs : j[1] = t /\ (jobs[j].state \in Unsettled \/ j \in unrecorded)
Watched == \A t \in Requests : Active(t) /\ deliveries[t] >= 1 => Attended(t)

OwnTypes ==
  /\ events \in [Requests -> {"none", "accepted", "done", "dead"}]
  /\ deliveries \in [Requests -> 0 .. Budget]
  /\ stored \in [Requests -> BOOLEAN]
  /\ jobs \in [Jobs -> [state : Job!JobStates, retries : 0 .. MaxRetries]]
  /\ faults \in 0 .. MaxFaults
  /\ unrecorded \subseteq Jobs

SInv == Sp!IInv /\ OwnTypes /\ Handed /\ HasBegun /\ Watched

-----------------------------------------------------------------------------
(***************************************************************************)
(* Submission inside System.                                               *)
(***************************************************************************)
LEMMA SubInit == Sp!Init => Sp!IInv
BY SystemAssumption, Sp!IInvInit DEF SystemAssumption, Sp!SubmissionAssumption, Sp!Sources

LEMMA SubStep == Sp!IInv /\ [Sp!Next]_(Sp!vars) => Sp!IInv'
BY SystemAssumption, Sp!IInvNext DEF SystemAssumption, Sp!SubmissionAssumption, Sp!Sources

\* System names Submission Sub.
LEMMA SameInit == Sub!Init <=> Sp!Init
BY DEF Sub!Init, Sp!Init, Sub!NoTask, Sp!NoTask, Sub!NoRaw, Sp!NoRaw, Sub!Sources, Sp!Sources

LEMMA SameTypes == Sub!TypeOK <=> Sp!TypeOK
BY DEF Sub!TypeOK, Sp!TypeOK, Sub!TaskDocs, Sp!TaskDocs, Sub!Counts, Sp!Counts, Sub!Sources,
   Sp!Sources, Sub!Statuses, Sp!Statuses, Sub!Locals, Sp!Locals, Sub!Transactions, Sp!Transactions

LEMMA SameActions ==
  ASSUME NEW r
  PROVE  /\ Sub!Begin(r) <=> Sp!Begin(r)
         /\ Sub!SaveChunk(r) <=> Sp!SaveChunk(r)
         /\ Sub!EndFile(r) <=> Sp!EndFile(r)
         /\ Sub!Conflict(r) <=> Sp!Conflict(r)
         /\ Sub!CreateTask(r) <=> Sp!CreateTask(r)
         /\ Sub!SaveEvent(r) <=> Sp!SaveEvent(r)
         /\ Sub!Commit(r) <=> Sp!Commit(r)
         /\ Sub!FileError(r) <=> Sp!FileError(r)
         /\ Sub!InfraError(r) <=> Sp!InfraError(r)
         /\ Sub!Crash(r) <=> Sp!Crash(r)
         /\ \A s : Sub!RunTask(r, s) <=> Sp!RunTask(r, s)
<1>1. Sub!Seen(r) = Sp!Seen(r)
  BY DEF Sub!Seen, Sp!Seen, Sub!ActiveTasks, Sp!ActiveTasks, Sub!Active, Sp!Active
<1>2. \A code : Sub!Abort(r, code) <=> Sp!Abort(r, code)
  BY DEF Sub!Abort, Sp!Abort
<1>3. Sub!Apply(r) <=> Sp!Apply(r)
  BY DEF Sub!Apply, Sp!Apply, Sub!Sources, Sp!Sources
<1>4. Sub!Begin(r) <=> Sp!Begin(r)
  BY DEF Sub!Begin, Sp!Begin
<1>5. Sub!SaveChunk(r) <=> Sp!SaveChunk(r)
  BY <1>1 DEF Sub!SaveChunk, Sp!SaveChunk
<1>6. Sub!EndFile(r) <=> Sp!EndFile(r)
  BY DEF Sub!EndFile, Sp!EndFile
<1>7. Sub!Conflict(r) <=> Sp!Conflict(r)
  BY <1>1, <1>2 DEF Sub!Conflict, Sp!Conflict
<1>8. Sub!CreateTask(r) <=> Sp!CreateTask(r)
  BY <1>1 DEF Sub!CreateTask, Sp!CreateTask, Sub!CreateNew, Sp!CreateNew
<1>9. Sub!SaveEvent(r) <=> Sp!SaveEvent(r)
  BY DEF Sub!SaveEvent, Sp!SaveEvent
<1>10. Sub!Commit(r) <=> Sp!Commit(r)
  BY <1>3 DEF Sub!Commit, Sp!Commit
<1>11. Sub!FileError(r) <=> Sp!FileError(r)
  BY <1>2 DEF Sub!FileError, Sp!FileError
<1>12. Sub!InfraError(r) <=> Sp!InfraError(r)
  BY <1>3 DEF Sub!InfraError, Sp!InfraError
<1>13. Sub!Crash(r) <=> Sp!Crash(r)
  BY <1>2 DEF Sub!Crash, Sp!Crash
<1>14. \A s : Sub!RunTask(r, s) <=> Sp!RunTask(r, s)
  BY DEF Sub!RunTask, Sp!RunTask
<1> QED BY <1>4, <1>5, <1>6, <1>7, <1>8, <1>9, <1>10, <1>11, <1>12, <1>13, <1>14

-----------------------------------------------------------------------------
(***************************************************************************)
(* What the steps of System do to the documents.                           *)
(***************************************************************************)
LEMMA JobTask ==
  ASSUME NEW j \in Jobs
  PROVE  TaskOf[j] = j[1] /\ j[1] \in Requests
BY DEF Jobs, TaskOf

\* submit() leaves the task and outbox documents alone, or stores a new task as PENDING
\* together with its message.
Stores(r) ==
  /\ r \notin outbox /\ outbox' = outbox \union {r}
  /\ \A t \in Requests \ {r} : tasks'[t] = tasks[t]
  /\ tasks[r].status = "none" /\ tasks'[r].status = "pending"
  /\ Del!Accept(r)

LEMMA ApplyStores ==
  ASSUME Sp!IInv, NEW r \in Requests, req[r].pc = "commit", Sp!Apply(r)
  PROVE  /\ r \notin outbox /\ outbox' = outbox \union {r}
         /\ \A t \in Requests \ {r} : tasks'[t] = tasks[t]
         /\ tasks[r].status = "none" /\ tasks'[r].status = "pending"
<1>1. Sp!Progress(r) /\ Sp!Hidden(r) /\ tasks \in [Requests -> Sp!TaskDocs]
  BY DEF Sp!IInv, Sp!RInv, Sp!TypeOK
<1>2. /\ tx[r].task = Sp!CreateNew(Chunks) /\ tx[r].event
      /\ tasks[r].status = "none" /\ r \notin outbox
  BY <1>1 DEF Sp!Progress, Sp!Hidden
<1>3. tasks' = [tasks EXCEPT ![r] = tx[r].task] /\ outbox' = outbox \union {r}
  BY <1>2 DEF Sp!Apply
<1> QED BY <1>1, <1>2, <1>3 DEF Sp!CreateNew

LEMMA SubmitEffect ==
  ASSUME SInv, NEW r \in Requests, Submit(r)
  PROVE  /\ Sp!IInv' /\ stored' = stored /\ jobs' = jobs /\ unrecorded' = unrecorded
         /\ faults' \in 0 .. MaxFaults
         /\ \/ tasks' = tasks /\ outbox' = outbox /\ events' = events /\ deliveries' = deliveries
            \/ Stores(r)
<1>1. \/ Sp!Begin(r) \/ Sp!SaveChunk(r) \/ Sp!EndFile(r) \/ Sp!Conflict(r) \/ Sp!CreateTask(r)
      \/ Sp!SaveEvent(r) \/ Sp!Commit(r) \/ Sp!FileError(r) \/ Sp!InfraError(r) \/ Sp!Crash(r)
  BY SameActions DEF Submit
<1>2. Sp!IInv'
  <2>1. Sp!Next
    BY <1>1 DEF Sp!Next
  <2> QED BY <2>1, SubStep DEF SInv
<1>3. /\ stored' = stored /\ jobs' = jobs /\ unrecorded' = unrecorded
      /\ faults' = faults \/ (faults < MaxFaults /\ faults' = faults + 1)
      /\ IF outbox' = outbox THEN UNCHANGED <<events, deliveries>> ELSE Del!Accept(r)
  BY DEF Submit, jobVars, delVars
<1>4. faults' \in 0 .. MaxFaults
  BY <1>3, SystemAssumption DEF SystemAssumption, SInv, OwnTypes
<1>5. \/ tasks' = tasks /\ outbox' = outbox
      \/ req[r].pc = "commit" /\ Sp!Apply(r)
  BY <1>1 DEF Sp!Begin, Sp!SaveChunk, Sp!EndFile, Sp!Conflict, Sp!CreateTask, Sp!SaveEvent,
     Sp!Commit, Sp!FileError, Sp!InfraError, Sp!Crash, Sp!Abort
<1>6. CASE tasks' = tasks /\ outbox' = outbox
  BY <1>2, <1>3, <1>4, <1>6
<1>7. CASE req[r].pc = "commit" /\ Sp!Apply(r)
  <2>1. /\ r \notin outbox /\ outbox' = outbox \union {r}
        /\ \A t \in Requests \ {r} : tasks'[t] = tasks[t]
        /\ tasks[r].status = "none" /\ tasks'[r].status = "pending"
    BY <1>7, ApplyStores DEF SInv
  <2>2. Del!Accept(r)
    BY <1>3, <2>1
  <2> QED BY <1>2, <1>3, <1>4, <2>1, <2>2 DEF Stores
<1> QED BY <1>5, <1>6, <1>7

\* A step that is not one of submit() writes no more than the status of a stored task.
LEMMA PipelineEffect ==
  ASSUME SInv, NEW t, PipelineSaves(t)
  PROVE  Sp!IInv' /\ outbox' = outbox
<1>1. CASE UNCHANGED subVars
  BY <1>1, SubStep DEF SInv, subVars, Sp!vars
<1>2. CASE \E s \in Job!Statuses : Sub!RunTask(t, s)
  <2>1. PICK s : Sp!RunTask(t, s)
    BY <1>2, SameActions
  <2>2. t \in outbox /\ s \in Sp!Statuses /\ outbox' = outbox
    BY <2>1 DEF Sp!RunTask, Sp!Statuses
  <2>3. t \in Requests
    BY <2>2 DEF SInv, Sp!IInv, Sp!TypeOK
  <2>4. Sp!Next
    BY <2>1, <2>2, <2>3 DEF Sp!Next
  <2> QED BY <2>2, <2>4, SubStep DEF SInv
<1> QED BY <1>1, <1>2 DEF PipelineSaves

-----------------------------------------------------------------------------
\* A job moves; the others, and the documents of other tasks, stay as they are.
JobMoves(j) ==
  /\ jobs[j].state # "absent" /\ jobs'[j].state # "absent"
  /\ \A i \in Jobs \ {j} : jobs'[i] = jobs[i] /\ (i \in unrecorded' <=> i \in unrecorded)
  /\ \A t \in Requests \ {j[1]} : tasks'[t].status = tasks[t].status /\ stored'[t] = stored[t]
  /\ outbox' = outbox /\ events' = events /\ deliveries' = deliveries

LEMMA JobMovesKeeps ==
  ASSUME SInv, NEW j \in Jobs, JobMoves(j), Sp!IInv', OwnTypes',
         tasks[j[1]].status \in BegunStatuses => tasks'[j[1]].status \in BegunStatuses,
         jobs'[j].state \in {"begun", "completed"} => tasks'[j[1]].status \in BegunStatuses,
         stored'[j[1]] => stored[j[1]] \/ tasks'[j[1]].status \in BegunStatuses,
         \/ jobs'[j].state \in Unsettled
         \/ j \in unrecorded'
         \/ tasks'[j[1]].status \notin {"pending", "processing"}
         \/ /\ tasks'[j[1]].status = tasks[j[1]].status
            /\ jobs[j].state \notin Unsettled /\ j \notin unrecorded
  PROVE  SInv'
<1>1. /\ jobs[j].state # "absent" /\ jobs'[j].state # "absent"
      /\ \A i \in Jobs \ {j} : jobs'[i] = jobs[i] /\ (i \in unrecorded' <=> i \in unrecorded)
      /\ \A t \in Requests \ {j[1]} : tasks'[t].status = tasks[t].status /\ stored'[t] = stored[t]
      /\ outbox' = outbox /\ events' = events /\ deliveries' = deliveries
      /\ j[1] \in Requests
  BY JobTask DEF JobMoves
<1>2. Handed'
  BY <1>1 DEF SInv, Handed
<1>3. HasBegun'
  <2>1. ASSUME NEW i \in Jobs, jobs'[i].state \in {"begun", "completed"}
        PROVE  tasks'[i[1]].status \in BegunStatuses
    BY <1>1, <2>1, JobTask DEF SInv, HasBegun
  <2>2. ASSUME NEW t \in Requests, stored'[t] PROVE tasks'[t].status \in BegunStatuses
    BY <1>1, <2>2 DEF SInv, HasBegun
  <2> QED BY <2>1, <2>2 DEF HasBegun
<1>4. ASSUME NEW t \in Requests, tasks'[t].status \in {"pending", "processing"}, deliveries'[t] >= 1
      PROVE  \E i \in Jobs : i[1] = t /\ (jobs'[i].state \in Unsettled \/ i \in unrecorded')
  <2>1. tasks[t].status \in {"pending", "processing"} =>
          \E i \in Jobs : i[1] = t /\ (jobs[i].state \in Unsettled \/ i \in unrecorded)
    BY <1>1, <1>4 DEF SInv, Watched, Attended, Active
  <2> QED BY <1>1, <1>4, <2>1
<1>5. Watched'
  BY <1>4 DEF Watched, Attended, Active
<1> QED BY <1>2, <1>3, <1>5 DEF SInv

-----------------------------------------------------------------------------
(***************************************************************************)
(* The steps of a job, read off AnalysisJob.                               *)
(***************************************************************************)
Messages == [state : Job!JobStates, retries : 0 .. MaxRetries]

Goes(j, from, to) ==
  /\ jobs[j].state = from /\ jobs'[j].state = to
  /\ jobs' \in [Jobs -> Messages] /\ \A i \in Jobs \ {j} : jobs'[i] = jobs[i]

KeepsStatus == \A t \in Requests : tasks'[t].status = tasks[t].status
SavesStatus(j, s) ==
  /\ tasks'[j[1]].status = s
  /\ \A t \in Requests \ {j[1]} : tasks'[t].status = tasks[t].status

KeepsStored == stored' = stored
AddsStored(j) ==
  /\ stored' \in [Requests -> BOOLEAN]
  /\ \A t \in Requests \ {j[1]} : stored'[t] = stored[t]

LEMMA GotoEffect ==
  ASSUME SInv, NEW j \in Jobs, NEW to \in Job!JobStates, Job!Goto(j, to)
  PROVE  Goes(j, jobs[j].state, to)
<1>1. jobs \in [Jobs -> Messages]
  BY DEF SInv, OwnTypes, Messages
<1>2. jobs' = [jobs EXCEPT ![j].state = to]
  BY DEF Job!Goto
<1> QED BY <1>1, <1>2 DEF Goes, Messages

LEMMA MoveEffect ==
  ASSUME SInv, NEW j \in Jobs, NEW from, NEW to \in Job!JobStates, Job!Move(j, from, to)
  PROVE  Goes(j, from, to)
BY GotoEffect DEF Job!Move

LEMMA StatusEffect ==
  ASSUME NEW j \in Jobs
  PROVE  /\ [t \in Requests |-> tasks'[t].status] = [t \in Requests |-> tasks[t].status] =>
              KeepsStatus
         /\ \A s : Job!Save(j, s) => SavesStatus(j, s)
<1>1. ASSUME [t \in Requests |-> tasks'[t].status] = [t \in Requests |-> tasks[t].status]
      PROVE  KeepsStatus
  <2> DEFINE new == [t \in Requests |-> tasks'[t].status]
             old == [t \in Requests |-> tasks[t].status]
  <2>1. \A t \in Requests : new[t] = tasks'[t].status /\ old[t] = tasks[t].status
    OBVIOUS
  <2>2. new = old
    BY <1>1
  <2> HIDE DEF new, old
  <2> QED BY <2>1, <2>2 DEF KeepsStatus
<1>2. ASSUME NEW s, Job!Save(j, s) PROVE SavesStatus(j, s)
  <2> DEFINE new == [t \in Requests |-> tasks'[t].status]
             old == [t \in Requests |-> tasks[t].status]
  <2>1. /\ \A t \in Requests : new[t] = tasks'[t].status /\ old[t] = tasks[t].status
        /\ DOMAIN old = Requests
    OBVIOUS
  <2>2. new = [old EXCEPT ![j[1]] = s]
    BY <1>2, JobTask DEF Job!Save
  <2> HIDE DEF new, old
  <2> QED BY <2>1, <2>2, JobTask DEF SavesStatus
<1> QED BY <1>1, <1>2

\* The broker never has a job of a task that is not stored.
LEMMA JobIsStored ==
  ASSUME SInv, NEW j \in Jobs, jobs[j].state # "absent"
  PROVE  tasks[j[1]].status # "none" /\ raw[j[1]] = Chunks
<1>1. j[1] \in Requests /\ j[1] \in outbox
  BY JobTask DEF SInv, Handed
<1> QED BY <1>1 DEF SInv, Sp!IInv, Sp!RInv, Sp!Whole

\* The calls of a job that succeed.
LEMMA WorkEffect ==
  ASSUME SInv, NEW j \in Jobs, Job!Work(j)
  PROVE  \/ Goes(j, "queued", "running") /\ KeepsStatus /\ KeepsStored
         \/ \E from \in {"running", "begun"} :
              Goes(j, from, "begun") /\ SavesStatus(j, "processing") /\ KeepsStored
         \/ Goes(j, "begun", "completed") /\ SavesStatus(j, "completed") /\ KeepsStored
         \/ Goes(j, "completed", "over") /\ KeepsStatus /\ AddsStored(j)
         \/ Goes(j, "begun", "over") /\ SavesStatus(j, "failed") /\ KeepsStored
         \/ \E to \in {"queued", "gone"} : Goes(j, "over", to) /\ KeepsStatus /\ KeepsStored
<1>0. {"running", "begun", "completed", "over", "queued", "gone"} \subseteq Job!JobStates
  BY DEF Job!JobStates, Job!Held
<1>1. CASE Job!Take(j)
  <2>1. Goes(j, "queued", "running")
    BY <1>0, <1>1, MoveEffect DEF Job!Take
  <2> QED BY <1>1, <2>1, StatusEffect DEF Job!Take, KeepsStored
<1>2. CASE Job!Missing(j)
  <2>1. jobs[j].state = "running" /\ tasks[j[1]].status = "none"
    BY <1>2, JobTask DEF Job!Missing, Job!Move
  <2> QED BY <2>1, JobIsStored
<1>3. CASE Job!Begin(j)
  <2>1. Goes(j, "running", "begun") /\ SavesStatus(j, "processing")
    BY <1>0, <1>3, MoveEffect, StatusEffect DEF Job!Begin
  <2> QED BY <1>3, <2>1 DEF Job!Begin, KeepsStored
<1>4. CASE Job!Checkpoint(j)
  <2>1. SavesStatus(j, "processing") /\ jobs[j].state = "begun" /\ stored' = stored /\ jobs' = jobs
    BY <1>4, StatusEffect DEF Job!Checkpoint
  <2>2. Goes(j, "begun", "begun")
    BY <2>1 DEF Goes, SInv, OwnTypes, Messages
  <2> QED BY <2>1, <2>2 DEF KeepsStored
<1>5. CASE Job!Complete(j)
  <2>1. Goes(j, "begun", "completed") /\ SavesStatus(j, "completed")
    BY <1>0, <1>5, MoveEffect, StatusEffect DEF Job!Complete
  <2> QED BY <1>5, <2>1 DEF Job!Complete, KeepsStored
<1>6. CASE Job!Store(j)
  <2>1. Goes(j, "completed", "over")
    BY <1>0, <1>6, MoveEffect DEF Job!Store
  <2>2. KeepsStatus
    BY <1>6, StatusEffect DEF Job!Store
  <2>3. PICK found \in BOOLEAN : stored' = [stored EXCEPT ![j[1]] = @ \/ found]
    BY <1>6, JobTask DEF Job!Store
  <2>4. stored \in [Requests -> BOOLEAN] /\ (stored[j[1]] \/ found) \in BOOLEAN
    BY JobTask DEF SInv, OwnTypes
  <2>5. AddsStored(j)
    BY <2>3, <2>4, JobTask DEF AddsStored
  <2> QED BY <2>1, <2>2, <2>5
<1>7. CASE Job!Fail(j)
  <2>1. Goes(j, "begun", "over") /\ SavesStatus(j, "failed")
    BY <1>0, <1>7, MoveEffect, StatusEffect DEF Job!Fail
  <2> QED BY <1>7, <2>1 DEF Job!Fail, KeepsStored
<1>8. CASE Job!Retry(j)
  <2>1. /\ jobs[j].state = "over" /\ jobs[j].retries < MaxRetries
        /\ jobs' = [jobs EXCEPT ![j] = [state |-> "queued", retries |-> jobs[j].retries + 1]]
        /\ jobs \in [Jobs -> Messages] /\ stored' = stored
    BY <1>8 DEF Job!Retry, SInv, OwnTypes, Messages
  <2>2. [state |-> "queued", retries |-> jobs[j].retries + 1] \in Messages
    BY <1>0, <2>1, SystemAssumption DEF SystemAssumption, Messages
  <2>3. Goes(j, "over", "queued")
    BY <2>1, <2>2 DEF Goes
  <2>4. KeepsStatus
    BY <1>8, StatusEffect DEF Job!Retry
  <2> QED BY <2>1, <2>3, <2>4 DEF KeepsStored
<1>9. CASE Job!End(j)
  <2>1. Goes(j, "over", "gone")
    BY <1>0, <1>9, MoveEffect DEF Job!End
  <2> QED BY <1>9, <2>1, StatusEffect DEF Job!End, KeepsStored
<1> QED BY <1>1, <1>2, <1>3, <1>4, <1>5, <1>6, <1>7, <1>8, <1>9 DEF Job!Work

\* The faults of a job.
LEMMA FaultEffect ==
  ASSUME SInv, NEW j \in Jobs,
         Job!Break(j) \/ Job!SetupError(j) \/ Job!Crash(j) \/ Job!Kill(j)
  PROVE  /\ KeepsStored
         /\ \/ /\ Job!Break(j) \/ Job!SetupError(j)
               /\ \/ Goes(j, "running", "over") /\ (KeepsStatus \/ SavesStatus(j, "processing"))
                  \/ Goes(j, "begun", "begun") /\ SavesStatus(j, "completed")
                  \/ \E from \in {"begun", "completed"} : Goes(j, from, "over") /\ KeepsStatus
                  \/ Goes(j, "running", "gone") /\ KeepsStatus
            \/ /\ Job!Crash(j) /\ jobs[j].state \in Job!Held
               /\ Goes(j, jobs[j].state, "queued") /\ KeepsStatus
            \/ /\ Job!Kill(j) /\ jobs[j].state \in Job!Held
               /\ Goes(j, jobs[j].state, "gone") /\ KeepsStatus
<1>0. {"running", "begun", "completed", "over", "queued", "gone"} \subseteq Job!JobStates
  BY DEF Job!JobStates, Job!Held
<1>1. CASE Job!Break(j)
  <2>1. CASE /\ Job!Move(j, "running", "over")
             /\ \/ UNCHANGED <<[t \in Requests |-> tasks[t].status], stored>>
                \/ Job!Save(j, "processing") /\ UNCHANGED stored
    <3>1. Goes(j, "running", "over")
      BY <1>0, <2>1, MoveEffect
    <3> QED BY <1>1, <2>1, <3>1, StatusEffect DEF KeepsStored
  <2>2. CASE /\ jobs[j].state = "begun"
             /\ Job!Save(j, "completed")
             /\ UNCHANGED <<stored, jobs>>
    <3>1. Goes(j, "begun", "begun")
      BY <2>2 DEF Goes, SInv, OwnTypes, Messages
    <3> QED BY <1>1, <2>2, <3>1, StatusEffect DEF KeepsStored
  <2>3. CASE /\ Job!Move(j, "begun", "over") \/ Job!Move(j, "completed", "over")
             /\ UNCHANGED <<[t \in Requests |-> tasks[t].status], stored>>
    <3>1. \E from \in {"begun", "completed"} : Goes(j, from, "over")
      BY <1>0, <2>3, MoveEffect
    <3> QED BY <1>1, <2>3, <3>1, StatusEffect DEF KeepsStored
  <2> QED BY <1>1, <2>1, <2>2, <2>3 DEF Job!Break
<1>2. CASE Job!SetupError(j)
  <2>1. Goes(j, "running", "gone")
    BY <1>0, <1>2, MoveEffect DEF Job!SetupError
  <2> QED BY <1>2, <2>1, StatusEffect DEF Job!SetupError, KeepsStored
<1>3. CASE Job!Crash(j)
  <2>1. Goes(j, jobs[j].state, "queued") /\ jobs[j].state \in Job!Held
    BY <1>0, <1>3, GotoEffect DEF Job!Crash
  <2> QED BY <1>3, <2>1, StatusEffect DEF Job!Crash, KeepsStored
<1>4. CASE Job!Kill(j)
  <2>1. Goes(j, jobs[j].state, "gone") /\ jobs[j].state \in Job!Held
    BY <1>0, <1>4, GotoEffect DEF Job!Kill
  <2> QED BY <1>4, <2>1, StatusEffect DEF Job!Kill, KeepsStored
<1> QED BY <1>1, <1>2, <1>3, <1>4

\* A move of a job keeps the types and whatever it is not about.
LEMMA GoesMoves ==
  ASSUME SInv, NEW j \in Jobs, NEW from, NEW to, Goes(j, from, to),
         from # "absent", to # "absent",
         KeepsStatus \/ \E s : SavesStatus(j, s), KeepsStored \/ AddsStored(j),
         outbox' = outbox, events' = events, deliveries' = deliveries,
         unrecorded' \in {unrecorded, unrecorded \ {j}, unrecorded \union {j}},
         faults' \in 0 .. MaxFaults
  PROVE  JobMoves(j) /\ OwnTypes'
<1>1. \A t \in Requests \ {j[1]} : tasks'[t].status = tasks[t].status /\ stored'[t] = stored[t]
  BY DEF KeepsStatus, SavesStatus, KeepsStored, AddsStored
<1>2. JobMoves(j)
  BY <1>1 DEF JobMoves, Goes
<1>3. OwnTypes'
  BY DEF Goes, Messages, SInv, OwnTypes, KeepsStored, AddsStored
<1> QED BY <1>2, <1>3

LEMMA RunKeeps ==
  ASSUME SInv, NEW j \in Jobs, Run(j)
  PROVE  SInv'
<1>1. /\ Sp!IInv' /\ outbox' = outbox /\ events' = events /\ deliveries' = deliveries
      /\ Job!Work(j) /\ faults' \in 0 .. MaxFaults
      /\ unrecorded' = IF jobs'[j].state = "running" THEN unrecorded \ {j} ELSE unrecorded
  BY PipelineEffect DEF Run, delVars, SInv, OwnTypes
<1>2. tasks[j[1]].status \in BegunStatuses \/ jobs[j].state \notin {"begun", "completed"}
  BY DEF SInv, HasBegun
<1>3. stored[j[1]] => tasks[j[1]].status \in BegunStatuses
  BY JobTask DEF SInv, HasBegun
<1>4. CASE Goes(j, "queued", "running") /\ KeepsStatus /\ KeepsStored
  <2>1. JobMoves(j) /\ OwnTypes'
    BY <1>1, <1>4, GoesMoves
  <2>2. jobs'[j].state = "running" /\ tasks'[j[1]].status = tasks[j[1]].status /\ stored' = stored
    BY <1>4, JobTask DEF Goes, KeepsStatus, KeepsStored
  <2> QED BY <1>1, <1>3, <2>1, <2>2, JobMovesKeeps DEF Unsettled
<1>5. ASSUME NEW from \in {"running", "begun"},
             Goes(j, from, "begun") /\ SavesStatus(j, "processing") /\ KeepsStored
      PROVE  SInv'
  <2>1. JobMoves(j) /\ OwnTypes'
    BY <1>1, <1>5, GoesMoves
  <2>2. jobs'[j].state = "begun" /\ tasks'[j[1]].status = "processing"
    BY <1>5 DEF Goes, SavesStatus
  <2> QED BY <1>1, <2>1, <2>2, JobMovesKeeps DEF Unsettled, BegunStatuses
<1>6. CASE Goes(j, "begun", "completed") /\ SavesStatus(j, "completed") /\ KeepsStored
  <2>1. JobMoves(j) /\ OwnTypes'
    BY <1>1, <1>6, GoesMoves
  <2>2. tasks'[j[1]].status = "completed"
    BY <1>6 DEF SavesStatus
  <2> QED BY <1>1, <2>1, <2>2, JobMovesKeeps DEF BegunStatuses
<1>7. CASE Goes(j, "completed", "over") /\ KeepsStatus /\ AddsStored(j)
  <2>1. JobMoves(j) /\ OwnTypes'
    BY <1>1, <1>7, GoesMoves
  <2>2. /\ jobs'[j].state = "over" /\ jobs[j].state = "completed"
        /\ tasks'[j[1]].status = tasks[j[1]].status /\ unrecorded' = unrecorded
    BY <1>1, <1>7, JobTask DEF Goes, KeepsStatus
  <2> QED BY <1>1, <1>2, <2>1, <2>2, JobMovesKeeps DEF Unsettled
<1>8. CASE Goes(j, "begun", "over") /\ SavesStatus(j, "failed") /\ KeepsStored
  <2>1. JobMoves(j) /\ OwnTypes'
    BY <1>1, <1>8, GoesMoves
  <2>2. tasks'[j[1]].status = "failed"
    BY <1>8 DEF SavesStatus
  <2> QED BY <1>1, <2>1, <2>2, JobMovesKeeps DEF BegunStatuses
<1>9. ASSUME NEW to \in {"queued", "gone"}, Goes(j, "over", to) /\ KeepsStatus /\ KeepsStored
      PROVE  SInv'
  <2>1. JobMoves(j) /\ OwnTypes'
    BY <1>1, <1>9, GoesMoves
  <2>2. /\ jobs'[j].state = to /\ jobs[j].state = "over" /\ stored' = stored
        /\ tasks'[j[1]].status = tasks[j[1]].status /\ unrecorded' = unrecorded
    BY <1>1, <1>9, JobTask DEF Goes, KeepsStatus, KeepsStored
  <2> QED BY <1>1, <1>3, <2>1, <2>2, JobMovesKeeps DEF Unsettled
<1> QED BY <1>1, <1>4, <1>5, <1>6, <1>7, <1>8, <1>9, WorkEffect

LEMMA FaultKeeps ==
  ASSUME SInv, NEW j \in Jobs, Fault(j)
  PROVE  SInv'
<1>1. /\ Sp!IInv' /\ outbox' = outbox /\ events' = events /\ deliveries' = deliveries
      /\ \/ /\ Job!Break(j) \/ Job!SetupError(j)
            /\ unrecorded' = IF jobs'[j].state = "begun" THEN unrecorded
                             ELSE unrecorded \union {j}
         \/ Job!Crash(j) /\ unrecorded' = unrecorded
         \/ /\ Job!Kill(j)
            /\ unrecorded' = IF jobs[j].state \in {"running", "begun"}
                             THEN unrecorded \union {j} ELSE unrecorded
      /\ faults < MaxFaults /\ faults' = faults + 1
  BY PipelineEffect DEF Fault, delVars
<1>2. faults' \in 0 .. MaxFaults /\ unrecorded' \in {unrecorded, unrecorded \union {j}}
  BY <1>1, SystemAssumption DEF SystemAssumption, SInv, OwnTypes
<1>3. stored[j[1]] => tasks[j[1]].status \in BegunStatuses
  BY JobTask DEF SInv, HasBegun
<1>4. KeepsStored
  BY <1>1, FaultEffect
<1>5. CASE /\ Goes(j, "running", "over") /\ (KeepsStatus \/ SavesStatus(j, "processing"))
           /\ unrecorded' = IF jobs'[j].state = "begun" THEN unrecorded
                            ELSE unrecorded \union {j}
  <2>1. JobMoves(j) /\ OwnTypes'
    BY <1>1, <1>2, <1>4, <1>5, GoesMoves
  <2>2. /\ jobs'[j].state = "over" /\ j \in unrecorded' /\ stored' = stored
        /\ tasks'[j[1]].status \in {tasks[j[1]].status, "processing"}
    BY <1>4, <1>5, JobTask DEF Goes, KeepsStatus, SavesStatus, KeepsStored
  <2> QED BY <1>1, <1>3, <2>1, <2>2, JobMovesKeeps DEF BegunStatuses
<1>6. CASE Goes(j, "begun", "begun") /\ SavesStatus(j, "completed")
  <2>1. JobMoves(j) /\ OwnTypes'
    BY <1>1, <1>2, <1>4, <1>6, GoesMoves
  <2>2. tasks'[j[1]].status = "completed"
    BY <1>6 DEF SavesStatus
  <2> QED BY <1>1, <2>1, <2>2, JobMovesKeeps DEF BegunStatuses
<1>7. ASSUME NEW from \in Job!Held, NEW to \in {"over", "gone"},
             Goes(j, from, to) /\ KeepsStatus,
             unrecorded' = IF jobs'[j].state = "begun" THEN unrecorded
                           ELSE unrecorded \union {j}
      PROVE  SInv'
  <2>1. JobMoves(j) /\ OwnTypes'
    BY <1>1, <1>2, <1>4, <1>7, GoesMoves DEF Job!Held
  <2>2. /\ jobs'[j].state = to /\ j \in unrecorded' /\ stored' = stored
        /\ tasks'[j[1]].status = tasks[j[1]].status
    BY <1>4, <1>7, JobTask DEF Goes, KeepsStatus, KeepsStored
  <2> QED BY <1>1, <1>3, <2>1, <2>2, JobMovesKeeps
<1>8. CASE jobs[j].state \in Job!Held /\ Goes(j, jobs[j].state, "queued") /\ KeepsStatus
  <2>1. JobMoves(j) /\ OwnTypes'
    BY <1>1, <1>2, <1>4, <1>8, GoesMoves DEF Job!Held
  <2>2. /\ jobs'[j].state = "queued" /\ stored' = stored
        /\ tasks'[j[1]].status = tasks[j[1]].status
    BY <1>4, <1>8, JobTask DEF Goes, KeepsStatus, KeepsStored
  <2> QED BY <1>1, <1>3, <2>1, <2>2, JobMovesKeeps DEF Unsettled
<1>9. CASE Job!Crash(j) /\ unrecorded' = unrecorded
  <2>1. jobs[j].state \in Job!Held /\ jobs'[j].state = "queued"
    BY <1>9 DEF Job!Crash, Job!Goto, SInv, OwnTypes
  <2>2. Goes(j, jobs[j].state, "queued") /\ KeepsStatus
    BY <1>9, <2>1, FaultEffect DEF Goes
  <2> QED BY <1>8, <2>1, <2>2
<1>10. CASE /\ Job!Break(j) \/ Job!SetupError(j)
            /\ unrecorded' = IF jobs'[j].state = "begun" THEN unrecorded
                             ELSE unrecorded \union {j}
  BY <1>5, <1>6, <1>7, <1>8, <1>10, FaultEffect DEF Job!Held
<1>11. CASE /\ Job!Kill(j)
            /\ unrecorded' = IF jobs[j].state \in {"running", "begun"}
                             THEN unrecorded \union {j} ELSE unrecorded
  <2>1. jobs[j].state \in Job!Held /\ Goes(j, jobs[j].state, "gone") /\ KeepsStatus
    <3>1. "gone" \in Job!JobStates
      BY DEF Job!JobStates
    <3> QED BY <1>11, <3>1, GotoEffect, StatusEffect DEF Job!Kill
  <2>2. JobMoves(j) /\ OwnTypes'
    BY <1>1, <1>2, <1>4, <2>1, GoesMoves DEF Job!Held
  <2>3. /\ jobs'[j].state = "gone" /\ stored' = stored
        /\ tasks'[j[1]].status = tasks[j[1]].status
        /\ jobs[j].state \in Unsettled => j \in unrecorded'
    BY <1>4, <1>11, <2>1, JobTask DEF Goes, KeepsStatus, KeepsStored, Unsettled, Job!Held
  <2> QED BY <1>1, <1>3, <2>2, <2>3, JobMovesKeeps
<1> QED BY <1>1, <1>9, <1>10, <1>11

-----------------------------------------------------------------------------
(***************************************************************************)
(* The steps of submit() and of the outbox.                                *)
(***************************************************************************)
LEMMA SubmitKeeps ==
  ASSUME SInv, NEW r \in Requests, Submit(r)
  PROVE  SInv'
<1>1. /\ Sp!IInv' /\ stored' = stored /\ jobs' = jobs /\ unrecorded' = unrecorded
      /\ faults' \in 0 .. MaxFaults
  BY SubmitEffect
<1>2. CASE tasks' = tasks /\ outbox' = outbox /\ events' = events /\ deliveries' = deliveries
  <2>1. OwnTypes' /\ Handed' /\ HasBegun'
    BY <1>1, <1>2 DEF SInv, OwnTypes, Handed, HasBegun
  <2>2. Watched'
    BY <1>1, <1>2 DEF SInv, Watched, Attended, Active
  <2> QED BY <1>1, <2>1, <2>2 DEF SInv
<1>3. CASE Stores(r)
  <2>1. /\ r \notin outbox /\ outbox' = outbox \union {r}
        /\ \A t \in Requests \ {r} : tasks'[t] = tasks[t]
        /\ tasks[r].status = "none" /\ deliveries' = deliveries
        /\ events' = [events EXCEPT ![r] = "accepted"]
    BY <1>3 DEF Stores, Del!Accept
  <2>2. OwnTypes'
    BY <1>1, <2>1 DEF SInv, OwnTypes
  <2>3. Handed'
    BY <1>1, <2>1 DEF SInv, OwnTypes, Handed
  <2>4. HasBegun'
    <3>1. \A j \in Jobs : jobs[j].state \in {"begun", "completed"} => j[1] # r
      BY <2>1 DEF SInv, HasBegun, BegunStatuses
    <3>2. ~stored[r]
      BY <2>1 DEF SInv, HasBegun, BegunStatuses
    <3> QED BY <1>1, <2>1, <3>1, <3>2, JobTask DEF SInv, HasBegun
  <2>5. Watched'
    <3>1. ~(deliveries[r] >= 1)
      BY <2>1 DEF SInv, Handed
    <3> QED BY <1>1, <2>1, <3>1 DEF SInv, Watched, Attended, Active
  <2> QED BY <1>1, <2>2, <2>3, <2>4, <2>5 DEF SInv
<1> QED BY <1>2, <1>3, SubmitEffect

LEMMA DispatchKeeps ==
  ASSUME SInv, NEW t \in Requests, Dispatch(t)
  PROVE  SInv'
<1> DEFINE job == <<t, deliveries'[t]>>
<1>1. /\ tasks' = tasks /\ outbox' = outbox /\ events' = events /\ faults' = faults
      /\ unrecorded' = unrecorded /\ events[t] # "none" /\ deliveries[t] < Budget
      /\ deliveries' = [deliveries EXCEPT ![t] = @ + 1]
      /\ jobs[job].state = "absent" /\ jobs' = [jobs EXCEPT ![job].state = "queued"]
      /\ stored' = stored
  BY DEF Dispatch, subVars, history, Del!Deliver, Job!Arrive, Job!Move, Job!Goto
<1>2. Sp!IInv'
  BY SubStep DEF Dispatch, subVars, Sp!vars, SInv
<1>3. /\ deliveries[t] \in Nat /\ Budget \in Nat /\ deliveries'[t] = deliveries[t] + 1
      /\ \A u \in Requests \ {t} : deliveries'[u] = deliveries[u]
      /\ deliveries' \in [Requests -> 0 .. Budget]
  BY <1>1, SystemAssumption DEF SystemAssumption, SInv, OwnTypes
<1>4. job \in Jobs /\ job[1] = t
  BY <1>1, <1>3 DEF Jobs
<1> HIDE DEF job
<1>5. /\ jobs' \in [Jobs -> [state : Job!JobStates, retries : 0 .. MaxRetries]]
      /\ jobs'[job].state = "queued" /\ \A j \in Jobs \ {job} : jobs'[j] = jobs[j]
  <2>1. "queued" \in Job!JobStates
    BY DEF Job!JobStates
  <2> QED BY <1>1, <1>4, <2>1 DEF SInv, OwnTypes
<1>6. OwnTypes'
  BY <1>1, <1>3, <1>5 DEF SInv, OwnTypes
<1>7. Handed'
  <2>1. \A u \in Requests : deliveries'[u] >= 1 => u \in outbox
    BY <1>1, <1>3 DEF SInv, Handed
  <2>2. \A u \in Requests : deliveries[u] >= 1 => deliveries'[u] >= 1
    BY <1>3
  <2>3. \A j \in Jobs : jobs'[j].state # "absent" => deliveries'[j[1]] >= 1
    <3>1. deliveries'[t] >= 1
      BY <1>3
    <3> QED BY <1>4, <1>5, <2>2, <3>1, JobTask DEF SInv, Handed
  <2> QED BY <1>1, <2>1, <2>2, <2>3 DEF SInv, Handed
<1>8. HasBegun'
  BY <1>1, <1>5 DEF SInv, HasBegun
<1>9. ASSUME NEW u \in Requests, tasks'[u].status \in {"pending", "processing"}, deliveries'[u] >= 1
      PROVE  \E j \in Jobs : j[1] = u /\ (jobs'[j].state \in Unsettled \/ j \in unrecorded')
  <2>1. CASE u = t
    BY <1>4, <1>5, <2>1 DEF Unsettled
  <2>2. CASE u # t
    <3>1. PICK j \in Jobs : j[1] = u /\ (jobs[j].state \in Unsettled \/ j \in unrecorded)
      BY <1>1, <1>3, <1>9, <2>2 DEF SInv, Watched, Attended, Active
    <3> QED BY <1>1, <1>4, <1>5, <2>2, <3>1
  <2> QED BY <2>1, <2>2
<1>10. Watched'
  BY <1>9 DEF Watched, Attended, Active
<1> QED BY <1>2, <1>6, <1>7, <1>8, <1>10 DEF SInv

LEMMA SettleKeeps ==
  ASSUME SInv, NEW t \in Requests, Settle(t)
  PROVE  SInv'
<1>1. /\ tasks' = tasks /\ outbox' = outbox /\ deliveries' = deliveries /\ faults' = faults
      /\ unrecorded' = unrecorded /\ jobs' = jobs /\ stored' = stored
      /\ events[t] = "accepted"
      /\ \/ deliveries[t] >= 1 /\ events' = [events EXCEPT ![t] = "done"]
         \/ events' = [events EXCEPT ![t] = "dead"]
  BY DEF Settle, subVars, jobVars, history, Del!Settle, Del!GiveUp
<1>2. Sp!IInv'
  BY SubStep DEF Settle, subVars, Sp!vars, SInv
<1>3. OwnTypes'
  BY <1>1 DEF SInv, OwnTypes
<1>4. Handed'
  BY <1>1 DEF SInv, OwnTypes, Handed
<1>5. HasBegun' /\ Watched'
  BY <1>1 DEF SInv, HasBegun, Watched, Attended, Active
<1> QED BY <1>2, <1>3, <1>4, <1>5 DEF SInv

-----------------------------------------------------------------------------
LEMMA SInvInit == Init => SInv
<1> SUFFICES ASSUME Init PROVE SInv
  OBVIOUS
<1>1. Sp!IInv
  BY SameInit, SubInit DEF Init
<1>2. /\ outbox = {} /\ tasks = [t \in Requests |-> Sp!NoTask]
  BY SameInit DEF Init, Sp!Init
<1>3. /\ events = [t \in Requests |-> "none"] /\ deliveries = [t \in Requests |-> 0]
      /\ stored = [t \in Requests |-> FALSE] /\ faults = 0 /\ unrecorded = {}
      /\ \A j \in Jobs : jobs[j].state = "absent"
  BY DEF Init, Del!Init, Job!Init
<1>4. jobs \in [Jobs -> [state : Job!JobStates, retries : 0 .. MaxRetries]]
  BY SystemAssumption DEF SystemAssumption, Init, Job!Init, Job!JobStates
<1>5. OwnTypes
  BY <1>3, <1>4, SystemAssumption DEF SystemAssumption, OwnTypes
<1>6. Handed /\ HasBegun
  BY <1>2, <1>3 DEF Handed, HasBegun
<1>7. Watched
  BY <1>3 DEF Watched
<1> QED BY <1>1, <1>5, <1>6, <1>7 DEF SInv

LEMMA SInvNext == SInv /\ [Next]_vars => SInv'
<1> SUFFICES ASSUME SInv, [Next]_vars PROVE SInv'
  OBVIOUS
<1>1. CASE UNCHANGED vars
  <2>1. Sp!IInv'
    BY <1>1, SubStep DEF vars, subVars, Sp!vars, SInv
  <2>2. OwnTypes' /\ Handed' /\ HasBegun' /\ Watched'
    BY <1>1 DEF vars, subVars, delVars, jobVars, history, SInv, OwnTypes, Handed, HasBegun,
       Watched, Attended, Active
  <2> QED BY <2>1, <2>2 DEF SInv
<1> QED BY <1>1, SubmitKeeps, DispatchKeeps, SettleKeeps, RunKeeps, FaultKeeps DEF Next

LEMMA SystemInvariant == Spec => []SInv
BY SInvInit, SInvNext, PTL DEF Spec

\* The documents of submit() keep their types in the whole system, no message is dispatched
\* more than Budget times, and no job retried more than MaxRetries times.
THEOREM TypeCorrect == Spec => []TypeOK
<1>1. SInv => TypeOK
  BY SameTypes DEF SInv, OwnTypes, TypeOK, Sp!IInv
<1> QED BY <1>1, SystemInvariant, PTL

\* Whatever is dispatched was committed by submit() as a whole, with all its raw data: a job
\* never finds its task missing; and records are stored only for a task that has begun.
THEOREM OnlyAcceptedTasksRun == Spec => []OnlyAcceptedRuns
<1>1. SInv => OnlyAcceptedRuns
  <2> SUFFICES ASSUME SInv, NEW t \in Requests
               PROVE  /\ (\E j \in Jobs : TaskOf[j] = t /\ jobs[j].state # "absent") =>
                           tasks[t].status # "none" /\ raw[t] = Chunks
                      /\ stored[t] => tasks[t].status \in {"processing", "completed", "failed"}
    BY DEF OnlyAcceptedRuns
  <2>1. stored[t] => tasks[t].status \in {"processing", "completed", "failed"}
    BY DEF SInv, HasBegun, BegunStatuses
  <2> QED BY <2>1, JobTask, JobIsStored
<1> QED BY <1>1, SystemInvariant, PTL

\* No ghost blocks the server: an active task, because of which submit() answers 409, has its
\* message in the outbox or a job that is alive, unless the outbox gave up its message or the
\* last run of a job of it ended by an error that nobody told the task of.
THEOREM NoGhostBlocks == Spec => []NoGhost
<1>1. SInv => NoGhost
  <2> SUFFICES ASSUME SInv, NEW t \in Requests, Active(t)
               PROVE  events[t] = "accepted" \/ LiveJobs(t) # {} \/ Excused(t)
    BY DEF NoGhost
  <2>1. events[t] # "none"
    <3>1. tasks[t].status # "none"
      BY DEF Active
    <3> QED BY <3>1 DEF SInv, Sp!IInv, Sp!RInv, Sp!Whole, Handed
  <2>2. CASE deliveries[t] >= 1
    <3>1. PICK j \in Jobs : j[1] = t /\ (jobs[j].state \in Unsettled \/ j \in unrecorded)
      BY <2>2 DEF SInv, Watched, Attended
    <3>2. TaskOf[j] = t
      BY <3>1, JobTask
    <3>3. jobs[j].state \in Unsettled => j \in LiveJobs(t)
      BY <3>2 DEF LiveJobs, Live, Unsettled, Job!Held
    <3>4. j \in unrecorded => Excused(t)
      BY <3>2, Zenon DEF Excused
    <3> QED BY <3>1, <3>3, <3>4
  <2>3. CASE ~(deliveries[t] >= 1)
    <3>1. events[t] \in {"accepted", "dead"}
      BY <2>1, <2>3 DEF SInv, OwnTypes, Handed
    <3> QED BY <3>1 DEF Excused
  <2> QED BY <2>2, <2>3
<1> QED BY <1>1, SystemInvariant, PTL
=============================================================================
