---------------------------- MODULE AnalysisJob ----------------------------
(***************************************************************************)
(* What the pipeline shows of itself to the rest of the system: the status *)
(* of its tasks, whether a task has records a search can find, and how far *)
(* its jobs are.  Phases, rows and sessions are left out; Pipeline is      *)
(* shown to implement this specification.  A task may have several jobs,   *)
(* and several of them may run at once: the outbox delivers at least once. *)
(***************************************************************************)
EXTENDS Naturals

CONSTANTS
  Tasks,       \* analysis tasks
  Jobs,        \* process_analysis messages
  TaskOf,      \* job -> its task_id
  MaxRetries   \* max_retries of the Celery task

VARIABLES
  status,   \* task -> its status in MongoDB, "none" before it is stored
  stored,   \* task -> whether MySQL holds records of it
  jobs      \* job -> [state, retries]

jvars == <<status, stored, jobs>>

(***************************************************************************)
(* States of a job: absent (not in the broker yet), queued, running (taken *)
(* by a worker, nothing saved), begun (PROCESSING saved), completed        *)
(* (COMPLETED saved, session not committed), over (acknowledgement or      *)
(* self.retry() comes next), gone.                                         *)
(***************************************************************************)
Held == {"running", "begun", "completed", "over"}
JobStates == Held \union {"absent", "queued", "gone"}
Statuses == {"none", "pending", "processing", "completed", "failed"}

Init ==
  /\ status \in [Tasks -> {"none", "pending"}]
  /\ stored = [t \in Tasks |-> FALSE]
  /\ \E waiting \in SUBSET Jobs :
       jobs = [j \in Jobs |->
                [state |-> IF j \in waiting THEN "queued" ELSE "absent", retries |-> 0]]

Save(j, s) == status' = [status EXCEPT ![TaskOf[j]] = s]
Goto(j, s) == jobs' = [jobs EXCEPT ![j].state = s]
Move(j, from, to) == jobs[j].state = from /\ Goto(j, to)

\* submit() stores a task.
Create(t) ==
  /\ status[t] = "none"
  /\ status' = [status EXCEPT ![t] = "pending"]
  /\ UNCHANGED <<stored, jobs>>

\* The dispatcher hands a message to the broker.
Arrive(j) == Move(j, "absent", "queued") /\ UNCHANGED <<status, stored>>

Take(j) == Move(j, "queued", "running") /\ UNCHANGED <<status, stored>>

\* find_by_id finds no such task: None has no start_processing(), an AttributeError.
Missing(j) ==
  /\ status[TaskOf[j]] = "none"
  /\ Move(j, "running", "over")
  /\ UNCHANGED <<status, stored>>

\* PROCESSING is saved, whatever the status was.
Begin(j) ==
  /\ status[TaskOf[j]] # "none"
  /\ Move(j, "running", "begun")
  /\ Save(j, "processing")
  /\ UNCHANGED stored

\* A checkpoint is saved: PROCESSING again, also when another job has settled the task.
Checkpoint(j) ==
  /\ jobs[j].state = "begun"
  /\ Save(j, "processing")
  /\ UNCHANGED <<stored, jobs>>

Complete(j) ==
  /\ Move(j, "begun", "completed")
  /\ Save(j, "completed")
  /\ UNCHANGED stored

\* The session is committed: with records, if any row was accepted.
Store(j) ==
  /\ Move(j, "completed", "over")
  /\ \E found \in BOOLEAN : stored' = [stored EXCEPT ![TaskOf[j]] = @ \/ found]
  /\ UNCHANGED status

\* Mutation: an except clause that does not save the task.
FailUnsaved(j) ==
  /\ Move(j, "begun", "over")
  /\ UNCHANGED <<status, stored>>

\* FAILED is saved after an exception.
Fail(j) ==
  /\ Move(j, "begun", "over")
  /\ Save(j, "failed")
  /\ UNCHANGED stored

\* Mutation: one retry too many.
RetryOnceMore(j) ==
  /\ jobs[j].state = "over"
  /\ jobs[j].retries <= MaxRetries
  /\ jobs' = [jobs EXCEPT ![j] = [state |-> "queued", retries |-> @.retries + 1]]
  /\ UNCHANGED <<status, stored>>

\* self.retry().
Retry(j) ==
  /\ jobs[j].state = "over"
  /\ jobs[j].retries < MaxRetries
  /\ jobs' = [jobs EXCEPT ![j] = [state |-> "queued", retries |-> @.retries + 1]]
  /\ UNCHANGED <<status, stored>>

\* The job is acknowledged.
End(j) == Move(j, "over", "gone") /\ UNCHANGED <<status, stored>>

\* The calls of a job, in the order a worker makes them.
Work(j) ==
  \/ Take(j) \/ Missing(j) \/ Begin(j) \/ Checkpoint(j)
  \/ Complete(j) \/ Store(j) \/ Fail(j) \/ Retry(j) \/ End(j)

(***************************************************************************)
(* Faults.  An error of a call: the run is over (or goes on to save        *)
(* FAILED), and the write it was about may have been applied.  An error    *)
(* before the try block of process_analysis is not retried.  The whole     *)
(* worker dies: the broker delivers the message again (acks_late).  Only   *)
(* the pool process that runs the job is killed: Celery acknowledges the   *)
(* message (WorkerLostError; task_reject_on_worker_lost is not set), and   *)
(* nothing tells the task.                                                 *)
(***************************************************************************)
Break(j) ==
  \/ /\ Move(j, "running", "over")
     /\ \/ UNCHANGED <<status, stored>>
        \/ status[TaskOf[j]] # "none" /\ Save(j, "processing") /\ UNCHANGED stored
  \/ /\ jobs[j].state = "begun"
     /\ Save(j, "completed")
     /\ UNCHANGED <<stored, jobs>>
  \/ /\ Move(j, "begun", "over")
     /\ UNCHANGED <<status, stored>>
  \/ /\ Move(j, "completed", "over")
     /\ UNCHANGED <<status, stored>>

SetupError(j) == Move(j, "running", "gone") /\ UNCHANGED <<status, stored>>

Crash(j) ==
  /\ jobs[j].state \in Held
  /\ Goto(j, "queued")
  /\ UNCHANGED <<status, stored>>

Kill(j) ==
  /\ jobs[j].state \in Held
  /\ Goto(j, "gone")
  /\ UNCHANGED <<status, stored>>

Next ==
  \/ \E t \in Tasks : Create(t)
  \/ \E j \in Jobs : Arrive(j) \/ Work(j) \/ Break(j) \/ SetupError(j) \/ Crash(j) \/ Kill(j)

Spec == Init /\ [][Next]_jvars
=============================================================================
