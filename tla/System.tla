------------------------------- MODULE System -------------------------------
(***************************************************************************)
(* The whole server: POST /analyze (Submission), the outbox and the        *)
(* pipeline, over the task and outbox documents they share.  The outbox    *)
(* and the pipeline are represented by what they promise, EventDelivery    *)
(* and AnalysisJob, which Outbox and Pipeline implement: a stored message  *)
(* is dispatched up to Budget times, and every dispatch is a job.  Job     *)
(* <<t, n>> comes from the n-th dispatch of the message of task t.         *)
(*                                                                         *)
(* Every action is a step of one component, together with the step another *)
(* component takes because of it.                                          *)
(***************************************************************************)
EXTENDS Naturals, FiniteSetsExt

CONSTANTS
  Requests,     \* requests, and the tasks they create
  Chunks,       \* source -> number of chunks of its file
  Budget,       \* dispatches of one message, at most
  MaxRetries,   \* max_retries of the Celery task
  MaxJobs,      \* bound on the dispatches of all messages in one behaviour
  MaxFaults     \* bound on the errors and crashes in one behaviour

Jobs == Requests \X (1 .. Budget)
TaskOf == [j \in Jobs |-> j[1]]

ASSUME SystemAssumption ==
  /\ {Budget, MaxRetries, MaxJobs, MaxFaults} \subseteq Nat
  /\ Chunks \in [1 .. 3 -> Nat]

VARIABLES
  tasks, outbox, raw, req, tx, reply,   \* Submission
  events, deliveries,                   \* EventDelivery: what happened to a message
  stored, jobs,                         \* AnalysisJob
  faults,                               \* errors and crashes so far
  unrecorded                            \* jobs whose last run ended without its task being told

subVars == <<tasks, outbox, raw, req, tx, reply>>
delVars == <<events, deliveries>>
jobVars == <<stored, jobs>>
history == <<faults, unrecorded>>
vars == <<subVars, delVars, jobVars, history>>

Sub == INSTANCE Submission
Del == INSTANCE EventDelivery WITH Events <- Requests, state <- events
Job == INSTANCE AnalysisJob WITH Tasks <- Requests,
                                 status <- [t \in Requests |-> tasks[t].status]

Active(t) == tasks[t].status \in {"pending", "processing"}
Live(j) == jobs[j].state \in Job!Held \union {"queued"}
LiveJobs(t) == {j \in Jobs : TaskOf[j] = t /\ Live(j)}

-----------------------------------------------------------------------------
Init ==
  /\ Sub!Init
  /\ Del!Init
  /\ Job!Init
  /\ \A j \in Jobs : jobs[j].state = "absent"
  /\ faults = 0
  /\ unrecorded = {}

\* A call of submit(); a message that becomes visible in the outbox is accepted.
Submit(r) ==
  /\ \/ /\ \/ Sub!Begin(r) \/ Sub!SaveChunk(r) \/ Sub!EndFile(r) \/ Sub!Conflict(r)
           \/ Sub!CreateTask(r) \/ Sub!SaveEvent(r) \/ Sub!Commit(r)
        /\ UNCHANGED faults
     \/ /\ Sub!FileError(r) \/ Sub!InfraError(r) \/ Sub!Crash(r)
        /\ faults < MaxFaults
        /\ faults' = faults + 1
  /\ IF outbox' = outbox THEN UNCHANGED delVars ELSE Del!Accept(r)
  /\ UNCHANGED <<jobVars, unrecorded>>

DispatchesLeft == MapThenSumSet(LAMBDA t : deliveries[t], Requests) < MaxJobs

\* CeleryTaskDispatcher.dispatch: the message is a job of the broker now.
Dispatch(t) ==
  /\ DispatchesLeft
  /\ UNCHANGED <<subVars, history>>
  /\ Del!Deliver(t)
  /\ Job!Arrive(<<t, deliveries'[t]>>)

\* The outbox is done with a message: PUBLISHED, or FAILED after the last attempt.
Settle(t) == (Del!Settle(t) \/ Del!GiveUp(t)) /\ UNCHANGED <<subVars, jobVars, history>>

\* Statuses the pipeline saves reach the documents submit() reads.
PipelineSaves(t) == UNCHANGED subVars \/ \E s \in Job!Statuses : Sub!RunTask(t, s)

\* A call of process_analysis succeeds.
Run(j) ==
  /\ PipelineSaves(TaskOf[j])
  /\ Job!Work(j)
  /\ unrecorded' = IF jobs'[j].state = "running" THEN unrecorded \ {j} ELSE unrecorded
  /\ UNCHANGED <<delVars, faults>>

\* A call raises, a worker dies or a pool process is killed.  An error that ends the run
\* leaves the task as it is when the MySQL setup, find_by_id or a save raises: nothing
\* tells the task.  Nor does anything when the process is killed before it has saved
\* COMPLETED or FAILED.
Fault(j) ==
  /\ faults < MaxFaults
  /\ faults' = faults + 1
  /\ PipelineSaves(TaskOf[j])
  /\ \/ /\ Job!Break(j) \/ Job!SetupError(j)
        /\ unrecorded' = IF jobs'[j].state = "begun" THEN unrecorded
                         ELSE unrecorded \union {j}
     \/ Job!Crash(j) /\ UNCHANGED unrecorded
     \/ /\ Job!Kill(j)
        /\ unrecorded' = IF jobs[j].state \in {"running", "begun"} THEN unrecorded \union {j}
                         ELSE unrecorded
  /\ UNCHANGED delVars

Next ==
  \/ \E r \in Requests : Submit(r) \/ Dispatch(r) \/ Settle(r)
  \/ \E j \in Jobs : Run(j) \/ Fault(j)

\* Every message is settled (Outbox!EverySettles) and every job ends
\* (Pipeline!EveryJobEnds); requests may stop anywhere.
Fairness ==
  /\ \A t \in Requests : WF_vars(Settle(t))
  /\ \A j \in Jobs : WF_vars(Run(j))

Spec == Init /\ [][Next]_vars /\ Fairness

-----------------------------------------------------------------------------
TypeOK ==
  /\ Sub!TypeOK
  /\ events \in [Requests -> {"none", "accepted", "done", "dead"}]
  /\ deliveries \in [Requests -> 0 .. Budget]
  /\ stored \in [Requests -> BOOLEAN]
  /\ jobs \in [Jobs -> [state : Job!JobStates, retries : 0 .. MaxRetries]]
  /\ faults \in 0 .. MaxFaults
  /\ unrecorded \subseteq Jobs

\* A job never finds its task or its raw data missing, and records appear only for a
\* task the pipeline has begun: what is dispatched was committed by submit() as a whole.
OnlyAcceptedRuns ==
  \A t \in Requests :
    /\ (\E j \in Jobs : TaskOf[j] = t /\ jobs[j].state # "absent") =>
         tasks[t].status # "none" /\ raw[t] = Chunks
    /\ stored[t] => tasks[t].status \in {"processing", "completed", "failed"}

\* Why a task may be active for ever: the outbox has given its message up, or the last
\* run of one of its jobs ended by an error, or with its process, and nothing told the task.
Excused(t) == events[t] = "dead" \/ \E j \in unrecorded : TaskOf[j] = t

\* An active task, which makes every other request end with 409, is one somebody still
\* works for: its message waits in the outbox or one of its jobs is alive.
NoGhost ==
  \A t \in Requests :
    Active(t) => events[t] = "accepted" \/ LiveJobs(t) # {} \/ Excused(t)

\* Every accepted analysis is COMPLETED or FAILED in the end, and stays so, although
\* retries and second deliveries take a settled task back to PROCESSING.
AcceptedSettles == <>[](\A t \in Requests : ~Active(t) \/ Excused(t))
=============================================================================
