------------------------- MODULE PipelineRefinement -------------------------
(***************************************************************************)
(* Pipeline implements AnalysisJob, for all values of the constants: the   *)
(* steps of a worker are mapped to steps of the job it holds, or to none.  *)
(***************************************************************************)
EXTENDS PipelineProofs

\* The state of AnalysisJob in a state of Pipeline.
ShownStatus == [t \in Tasks |-> tasks[t].status]
ShownStored == [t \in Tasks |-> RecordsOf(t) # {}]
ShownJobs == [j \in Jobs |-> [state |-> JobState(j), retries |-> jobs[j].retries]]

\* How far a job is whose worker makes the call pc next.
ShownAt(pc) ==
  CASE pc \in {"setup", "find", "start"} -> "running"
    [] pc \in {"phase", "ids", "result", "complete", "failed"} -> "begun"
    [] pc = "commit" -> "completed"
    [] pc \in {"rollback", "ack"} -> "over"

LEMMA ShownAtCalls ==
  /\ ShownAt("setup") = "running" /\ ShownAt("find") = "running" /\ ShownAt("start") = "running"
  /\ ShownAt("phase") = "begun" /\ ShownAt("ids") = "begun" /\ ShownAt("result") = "begun"
  /\ ShownAt("complete") = "begun" /\ ShownAt("failed") = "begun"
  /\ ShownAt("commit") = "completed"
  /\ ShownAt("rollback") = "over" /\ ShownAt("ack") = "over"
BY DEF ShownAt

\* The worker JobState chooses is the one that holds the message.
WorkersShow ==
  \A w \in Workers :
    Busy(w) => wk[w].job \in Jobs /\ JobState(wk[w].job) = ShownAt(wk[w].pc)

LEMMA WorkerShows == TInv => WorkersShow
<1> SUFFICES ASSUME TInv, NEW w \in Workers, Busy(w)
             PROVE  wk[w].job \in Jobs /\ JobState(wk[w].job) = ShownAt(wk[w].pc)
  BY DEF WorkersShow
<1>1. wk[w].job \in Jobs /\ jobs[wk[w].job].state = "running"
  BY DEF TInv, TypeOK, Busy
<1>2. \A v \in Workers : wk[v].job = wk[w].job => v = w
  BY <1>1, PipelineAssumption DEF TInv, Reserved, Idle, PipelineAssumption
<1>3. (CHOOSE v \in Workers : wk[v].job = wk[w].job) = w
  BY <1>2
<1> QED BY <1>1, <1>3 DEF JobState, ShownAt

\* The two ways a step moves a job: its worker goes on, or leaves it.
LEMMA GoesOnShown ==
  ASSUME TInv, TInv', NEW w \in Workers, NEW p, GoesOn(w, p)
  PROVE  /\ wk[w].job \in Jobs /\ ShownJobs[wk[w].job].state = ShownAt(wk[w].pc)
         /\ ShownJobs' = [ShownJobs EXCEPT ![wk[w].job].state = ShownAt(p)]
<1>1. WorkersShow /\ WorkersShow'
  BY WorkerShows, PTL
<1>2. PICK k \in Jobs : k = wk[w].job
  BY <1>1 DEF WorkersShow, GoesOn
<1>3. JobState(k) = ShownAt(wk[w].pc)
  BY <1>1, <1>2 DEF WorkersShow, GoesOn
<1>4. JobState(k)' = ShownAt(p)
  <2>1. Busy(w)' /\ wk'[w].job = k /\ wk'[w].pc = p
    BY <1>2 DEF GoesOn, Busy
  <2> QED BY <1>1, <2>1 DEF WorkersShow
<1>5. ASSUME NEW j \in Jobs, j # k PROVE JobState(j)' = JobState(j)
  <2>1. jobs' = jobs
    BY DEF GoesOn
  <2>2. CASE jobs[j].state # "running"
    BY <2>1, <2>2 DEF JobState
  <2>3. CASE jobs[j].state = "running"
    <3>1. PICK v \in Workers : Busy(v) /\ wk[v].job = j
      BY <2>3 DEF TInv, Reserved
    <3>2. wk'[v] = wk[v] /\ Busy(v)'
      BY <1>2, <1>5, <3>1 DEF GoesOn, Frame, Busy
    <3> QED BY <1>1, <3>1, <3>2 DEF WorkersShow
  <2> QED BY <2>2, <2>3
<1>6. jobs' = jobs
  BY DEF GoesOn
<1> QED BY <1>2, <1>3, <1>4, <1>5, <1>6 DEF ShownJobs

LEMMA LeavesShown ==
  ASSUME TInv, TInv', NEW w \in Workers, NEW job, Leaves(w, job)
  PROVE  /\ wk[w].job \in Jobs /\ ShownJobs[wk[w].job].state = ShownAt(wk[w].pc)
         /\ ShownJobs[wk[w].job].retries = jobs[wk[w].job].retries
         /\ ShownJobs' = [ShownJobs EXCEPT ![wk[w].job] =
                            [state |-> job.state, retries |-> job.retries]]
<1>1. WorkersShow /\ WorkersShow'
  BY WorkerShows, PTL
<1>2. PICK k \in Jobs : k = wk[w].job
  BY <1>1 DEF WorkersShow, Leaves
<1>3. JobState(k) = ShownAt(wk[w].pc)
  BY <1>1, <1>2 DEF WorkersShow, Leaves
<1>4. jobs' = [jobs EXCEPT ![k] = job] /\ jobs \in [Jobs -> Messages]
      /\ job.state \in {"queued", "gone"}
  BY <1>2 DEF Leaves, TInv, TypeOK
<1>5. JobState(k)' = job.state
  BY <1>4 DEF JobState
<1>6. ASSUME NEW j \in Jobs, j # k PROVE JobState(j)' = JobState(j)
  <2>1. jobs'[j] = jobs[j]
    BY <1>4, <1>6
  <2>2. CASE jobs[j].state # "running"
    BY <2>1, <2>2 DEF JobState
  <2>3. CASE jobs[j].state = "running"
    <3>1. PICK v \in Workers : Busy(v) /\ wk[v].job = j
      BY <2>3 DEF TInv, Reserved
    <3>2. wk'[v] = wk[v] /\ Busy(v)'
      BY <1>2, <1>6, <3>1 DEF Leaves, Frame, Busy
    <3> QED BY <1>1, <3>1, <3>2 DEF WorkersShow
  <2> QED BY <2>2, <2>3
<1> QED BY <1>2, <1>3, <1>4, <1>5, <1>6 DEF ShownJobs

\* What a save and a commit show.
LEMMA SavesShown ==
  ASSUME TInv, NEW w \in Workers, NEW doc, Saves(w, doc)
  PROVE  ShownStatus' = [ShownStatus EXCEPT ![TaskId(w)] = doc.status]
<1>1. tasks \in [Tasks -> TaskDocs] /\ tasks' = [tasks EXCEPT ![TaskId(w)] = doc]
  BY DEF TInv, TypeOK, Saves
<1> QED BY <1>1 DEF ShownStatus

LEMMA SameTablesShown ==
  ASSUME db' = db
  PROVE  ShownStored' = ShownStored
BY DEF ShownStored, RecordsOf

LEMMA CommitsShown ==
  ASSUME TInv, DInv, NEW w \in Workers, Busy(w), Commits(w)
  PROVE  \E found \in BOOLEAN :
           ShownStored' = [ShownStored EXCEPT ![TaskId(w)] = @ \/ found]
<1>1. PICK t \in Tasks : t = TaskId(w)
  BY Typed
<1>2. \A rec \in sess[w].rows : rec.task = t
  BY <1>1 DEF DInv, Placed
<1>3. db' = db \union sess[w].rows
  BY DEF Commits
<1>4. RecordsOf(t)' # {} <=> RecordsOf(t) # {} \/ sess[w].rows # {}
  BY <1>2, <1>3 DEF RecordsOf
<1>5. \A u \in Tasks \ {t} : (RecordsOf(u)' # {}) = (RecordsOf(u) # {})
  BY <1>2, <1>3 DEF RecordsOf
<1>6. ShownStored' = [ShownStored EXCEPT ![t] = @ \/ (sess[w].rows # {})]
  BY <1>4, <1>5 DEF ShownStored
<1> QED BY <1>1, <1>6

-----------------------------------------------------------------------------
\* A step that shows nothing.
Shows == <<ShownStatus, ShownStored, ShownJobs>>

LEMMA Stutters ==
  ASSUME TInv, TInv', NEW w \in Workers, NEW p, GoesOn(w, p), ShownAt(p) = ShownAt(wk[w].pc),
         tasks' = tasks, db' = db
  PROVE  UNCHANGED Shows
<1>1. PICK k \in Jobs : k = wk[w].job
  BY GoesOnShown
<1>2. /\ ShownJobs[k].state = ShownAt(p)
      /\ ShownJobs' = [ShownJobs EXCEPT ![k].state = ShownAt(p)]
  BY <1>1, GoesOnShown
<1>3. ShownJobs' = ShownJobs
  <2>1. ShownJobs \in [Jobs -> [state : {JobState(j) : j \in Jobs}, retries : {jobs[j].retries : j \in Jobs}]]
    BY DEF ShownJobs
  <2> QED BY <1>2, <2>1
<1>4. ShownStored' = ShownStored
  BY SameTablesShown
<1>5. ShownStatus' = ShownStatus
  BY DEF ShownStatus
<1> QED BY <1>3, <1>4, <1>5 DEF Shows

\* The worker leaves its message in a state, and the databases as they are.
LeavesAs(w, state) ==
  /\ Busy(w) /\ Release(w, [jobs[wk[w].job] EXCEPT !.state = state])
  /\ tasks' = tasks /\ SameTables /\ overlapped' = overlapped

LEMMA JobInit == Init => Job!Init
<1> SUFFICES ASSUME Init PROVE Job!Init
  OBVIOUS
<1>1. ShownStatus \in [Tasks -> {"none", "pending"}]
  BY DEF Init, ShownStatus, CreateNew
<1>2. ShownStored = [t \in Tasks |-> FALSE]
  BY DEF Init, ShownStored, RecordsOf
<1>3. ShownJobs = [j \in Jobs |->
                    [state |-> IF j \in Jobs THEN "queued" ELSE "absent", retries |-> 0]]
  BY DEF Init, ShownJobs, JobState
<1> QED BY <1>1, <1>2, <1>3 DEF Job!Init, ShownStatus, ShownStored, ShownJobs

\* Every step of a worker is a step of its job, or none.
LEMMA JobStep == TInv /\ TInv' /\ DInv /\ [Next]_vars => [Job!Next]_(Job!jvars)
<1> SUFFICES ASSUME TInv, TInv', DInv, [Next]_vars PROVE [Job!Next]_(Job!jvars)
  OBVIOUS
<1> USE ShownAtCalls
<1>0. \A w \in Workers : Placed(w)
  BY DEF DInv
<1>1. ASSUME NEW w \in Workers, NEW j \in Jobs, Take(w, j) PROVE Job!Take(j)
  <2>1. /\ Frame(w) /\ wk'[w].pc = "setup" /\ wk'[w].job = j /\ jobs[j].state = "queued"
        /\ jobs' = [jobs EXCEPT ![j] = [jobs[j] EXCEPT !.state = "running"]]
        /\ tasks' = tasks /\ db' = db
    BY <1>1, TakeEffect DEF SameTables
  <2>2. jobs \in [Jobs -> Messages] /\ WorkersShow /\ WorkersShow'
    BY WorkerShows, PTL DEF TInv, TypeOK
  <2>3. JobState(j) = "queued"
    BY <2>1 DEF JobState
  <2>4. JobState(j)' = "running"
    BY <2>1, <2>2 DEF WorkersShow, Busy
  <2>5. jobs'[j].retries = jobs[j].retries
    BY <2>1, <2>2 DEF Messages
  <2>6. ASSUME NEW i \in Jobs, i # j
        PROVE  JobState(i)' = JobState(i) /\ jobs'[i].retries = jobs[i].retries
    <3>1. jobs'[i] = jobs[i]
      BY <2>1, <2>2, <2>6
    <3>2. CASE jobs[i].state # "running"
      BY <3>1, <3>2 DEF JobState
    <3>3. CASE jobs[i].state = "running"
      <4>1. PICK v \in Workers : Busy(v) /\ wk[v].job = i
        BY <3>3 DEF TInv, Reserved
      <4>2. wk'[v] = wk[v] /\ Busy(v)'
        BY <2>1, <2>6, <4>1, <1>1, TakeEffect DEF Frame, Busy
      <4> QED BY <2>2, <3>1, <4>1, <4>2 DEF WorkersShow
    <3> QED BY <3>1, <3>2, <3>3
  <2>7. ShownJobs' = [ShownJobs EXCEPT ![j].state = "running"]
    BY <2>3, <2>4, <2>5, <2>6 DEF ShownJobs
  <2>8. ShownStored' = ShownStored /\ ShownStatus' = ShownStatus
    BY <2>1, SameTablesShown DEF ShownStatus
  <2>9. ShownJobs[j].state = "queued"
    BY <2>3 DEF ShownJobs
  <2> QED BY <2>7, <2>8, <2>9 DEF Job!Take, Job!Move, Job!Goto, ShownStatus, ShownStored, ShownJobs
<1>2. ASSUME NEW w \in Workers, NEW p, GoesOn(w, p), ShownAt(p) = ShownAt(wk[w].pc),
             tasks' = tasks, db' = db
      PROVE  UNCHANGED Job!jvars
  <2>1. UNCHANGED Shows
    BY <1>2, Stutters
  <2> QED BY <2>1 DEF Shows, Job!jvars, ShownStatus, ShownStored, ShownJobs
<1>3. ASSUME NEW w \in Workers,
             Setup(w) \/ FindTask(w) \/ RunChunk(w) \/ RaiseInChunk(w) \/ ReadIds(w)
               \/ BuildResult(w) \/ InsertRow(w) \/ Deadlock(w)
      PROVE  UNCHANGED Job!jvars
  <2>1. CASE Setup(w)
    BY <1>2, <2>1, SetupEffect DEF SameTables
  <2>2. CASE FindTask(w)
    BY <1>2, <2>2, FindTaskEffect DEF SameTables
  <2>3. CASE RunChunk(w)
    BY <1>2, <2>3, RunChunkEffect DEF SameTables
  <2>4. CASE RaiseInChunk(w)
    BY <1>2, <2>4, RaiseInChunkEffect DEF SameTables
  <2>5. CASE ReadIds(w)
    BY <1>2, <2>5, ReadIdsEffect DEF SameTables
  <2>6. CASE BuildResult(w)
    BY <1>2, <2>6, BuildResultEffect DEF SameTables
  <2>7. CASE InsertRow(w)
    BY <1>2, <2>7, InsertRowEffect DEF SameTables
  <2>8. CASE Deadlock(w)
    BY <1>2, <2>8, DeadlockEffect DEF SameTables
  <2> QED BY <1>3, <2>1, <2>2, <2>3, <2>4, <2>5, <2>6, <2>7, <2>8
<1>4. ASSUME NEW w \in Workers, SkipPhase(w) PROVE UNCHANGED Job!jvars
  <2>1. wk[w].cur \in TaskDocs /\ ShownAt(NextCall(wk[w].stage)) = "begun"
    BY Typed DEF NextCall
  <2>2. /\ GoesOn(w, NextCall(wk[w].stage)) /\ wk[w].pc = "phase" /\ tasks' = tasks /\ db' = db
    BY <1>4, <2>1, SkipPhaseEffect, AfterPhaseEffect DEF SameTables
  <2> QED BY <1>2, <2>1, <2>2

\* A step that saves a document, and moves the job or not.
<1>5. ASSUME NEW w \in Workers, NEW p, GoesOn(w, p), NEW doc, Saves(w, doc), SameTables
      PROVE  \E k \in Jobs :
               /\ k = wk[w].job /\ tasks[TaskOf[k]].status # "none" /\ TaskOf[k] \in Tasks
               /\ ShownJobs[k].state = ShownAt(wk[w].pc)
               /\ ShownJobs' = [ShownJobs EXCEPT ![k].state = ShownAt(p)]
               /\ ShownStatus' = [ShownStatus EXCEPT ![TaskOf[k]] = doc.status]
               /\ ShownStored' = ShownStored
  <2>1. PICK k \in Jobs : k = wk[w].job
    BY <1>5, GoesOnShown
  <2>2. TaskOf[k] = TaskId(w) /\ tasks[TaskOf[k]] \in TaskDocs /\ TaskOf[k] \in Tasks
    BY <1>5, <2>1, Typed DEF TaskId, GoesOn
  <2>3. tasks[TaskOf[k]].status # "none"
    BY <2>2 DEF TaskDocs
  <2>4. ShownStatus' = [ShownStatus EXCEPT ![TaskOf[k]] = doc.status]
    BY <1>5, <2>2, SavesShown
  <2>5. ShownStored' = ShownStored
    BY <1>5, SameTablesShown DEF SameTables
  <2> QED BY <1>5, <2>1, <2>2, <2>3, <2>4, <2>5, GoesOnShown
<1>6. ASSUME NEW w \in Workers, NEW p, GoesOn(w, p), SameTables, p = "phase" \/ p = "rollback",
             wk[w].pc = "start", Saves(w, wk[w].task)
      PROVE  \E j \in Jobs : Job!Begin(j) \/ Job!Break(j)
  <2>1. wk[w].task.status = "processing"
    BY <1>0, <1>6 DEF Placed
  <2>2. PICK k \in Jobs :
           /\ k = wk[w].job /\ tasks[TaskOf[k]].status # "none" /\ TaskOf[k] \in Tasks
           /\ ShownJobs[k].state = "running"
           /\ ShownJobs' = [ShownJobs EXCEPT ![k].state = ShownAt(p)]
           /\ ShownStatus' = [ShownStatus EXCEPT ![TaskOf[k]] = "processing"]
           /\ ShownStored' = ShownStored
    BY <1>5, <1>6, <2>1
  <2>3. ShownStatus[TaskOf[k]] # "none"
    BY <2>2 DEF ShownStatus
  <2>4. CASE p = "phase"
    <3>1. ShownJobs' = [ShownJobs EXCEPT ![k].state = "begun"]
      BY <2>2, <2>4
    <3>2. Job!Begin(k)
      BY <2>2, <2>3, <3>1
         DEF Job!Begin, Job!Move, Job!Goto, Job!Save, ShownStatus, ShownStored, ShownJobs
    <3> QED BY <3>2
  <2>5. CASE p = "rollback"
    <3>1. ShownJobs' = [ShownJobs EXCEPT ![k].state = "over"]
      BY <2>2, <2>5
    <3>2. Job!Break(k)
      BY <2>2, <2>3, <3>1
         DEF Job!Break, Job!Move, Job!Goto, Job!Save, ShownStatus, ShownStored, ShownJobs
    <3> QED BY <3>2
  <2> QED BY <1>6, <2>4, <2>5

\* A save in the middle of a run: of a checkpoint, or one whose answer was lost.
<1>7. ASSUME NEW w \in Workers, NEW p, GoesOn(w, p), SameTables, NEW doc, Saves(w, doc),
             ShownAt(wk[w].pc) = "begun", ShownAt(p) = "begun",
             doc.status \in {"processing", "completed"}
      PROVE  \E j \in Jobs : Job!Checkpoint(j) \/ Job!Break(j)
  <2>1. PICK k \in Jobs :
           /\ k = wk[w].job /\ ShownJobs[k].state = "begun"
           /\ ShownJobs' = [ShownJobs EXCEPT ![k].state = "begun"]
           /\ ShownStatus' = [ShownStatus EXCEPT ![TaskOf[k]] = doc.status]
           /\ ShownStored' = ShownStored
    BY <1>5, <1>7
  <2>2. ShownJobs' = ShownJobs
    <3>1. ShownJobs \in [Jobs -> [state : {JobState(j) : j \in Jobs},
                                  retries : {jobs[j].retries : j \in Jobs}]]
      BY DEF ShownJobs
    <3> QED BY <2>1, <3>1
  <2>3. CASE doc.status = "processing"
    <3>1. Job!Checkpoint(k)
      BY <2>1, <2>2, <2>3 DEF Job!Checkpoint, Job!Save, ShownStatus, ShownStored, ShownJobs
    <3> QED BY <3>1
  <2>4. CASE doc.status = "completed"
    <3>1. Job!Break(k)
      BY <2>1, <2>2, <2>4 DEF Job!Break, Job!Save, ShownStatus, ShownStored, ShownJobs
    <3> QED BY <3>1
  <2> QED BY <1>7, <2>3, <2>4
<1>8. ASSUME NEW w \in Workers, EndPhase(w)
      PROVE  \E j \in Jobs : Job!Checkpoint(j) \/ Job!Break(j)
  <2>1. /\ wk[w].pc = "phase" /\ GoesOn(w, NextCall(wk[w].stage))
        /\ Saves(w, Checkpoint(w)) /\ SameTables
    BY <1>8, EndPhaseEffect, AfterPhaseEffect
  <2>2. Checkpoint(w).status = "processing"
    BY <1>0, <2>1, CheckpointTyped DEF Placed
  <2>3. ShownAt(NextCall(wk[w].stage)) = "begun"
    BY DEF NextCall
  <2> QED BY <1>7, <2>1, <2>2, <2>3
<1>9. ASSUME NEW w \in Workers, Complete(w) PROVE \E j \in Jobs : Job!Complete(j)
  <2>1. /\ wk[w].pc = "complete" /\ GoesOn(w, "commit") /\ Saves(w, wk[w].task) /\ SameTables
        /\ wk[w].task.status = "completed"
    BY <1>0, <1>9, CompleteEffect DEF Placed
  <2>2. PICK k \in Jobs :
           /\ ShownJobs[k].state = "begun"
           /\ ShownJobs' = [ShownJobs EXCEPT ![k].state = "completed"]
           /\ ShownStatus' = [ShownStatus EXCEPT ![TaskOf[k]] = "completed"]
           /\ ShownStored' = ShownStored
    BY <1>5, <2>1
  <2>3. Job!Complete(k)
    BY <2>2 DEF Job!Complete, Job!Move, Job!Goto, Job!Save, ShownStatus, ShownStored, ShownJobs
  <2> QED BY <2>3
<1>10. ASSUME NEW w \in Workers, GoesOn(w, "rollback"), SameTables, wk[w].pc = "failed",
              Saves(w, FailWith(wk[w].task))
       PROVE  \E j \in Jobs : Job!Fail(j)
  <2>1. FailWith(wk[w].task).status = "failed"
    BY Typed, TaskWrites
  <2>2. PICK k \in Jobs :
           /\ ShownJobs[k].state = "begun"
           /\ ShownJobs' = [ShownJobs EXCEPT ![k].state = "over"]
           /\ ShownStatus' = [ShownStatus EXCEPT ![TaskOf[k]] = "failed"]
           /\ ShownStored' = ShownStored
    BY <1>5, <1>10, <2>1
  <2>3. Job!Fail(k)
    BY <2>2 DEF Job!Fail, Job!Move, Job!Goto, Job!Save, ShownStatus, ShownStored, ShownJobs
  <2> QED BY <2>3
<1>11. ASSUME NEW w \in Workers, NEW p, p \in {"ack", "rollback"}, GoesOn(w, p),
              wk[w].pc = "commit", Commits(w), tasks' = tasks
       PROVE  \E j \in Jobs : Job!Store(j)
  <2>1. PICK k \in Jobs :
          /\ k = wk[w].job /\ ShownJobs[k].state = "completed"
          /\ ShownJobs' = [ShownJobs EXCEPT ![k].state = "over"]
    <3>1. ShownAt(p) = "over"
      BY <1>11
    <3>2. PICK k \in Jobs : k = wk[w].job
      BY <1>11, GoesOnShown
    <3>3. /\ ShownJobs[k].state = ShownAt(wk[w].pc)
          /\ ShownJobs' = [ShownJobs EXCEPT ![k].state = ShownAt(p)]
      BY <1>11, <3>2, GoesOnShown
    <3> QED BY <1>11, <3>1, <3>2, <3>3
  <2>2. PICK found \in BOOLEAN :
          ShownStored' = [ShownStored EXCEPT ![TaskOf[k]] = @ \/ found]
    BY <1>11, <2>1, CommitsShown DEF GoesOn, TaskId
  <2>3. ShownStatus' = ShownStatus
    BY <1>11 DEF ShownStatus
  <2>4. Job!Store(k)
    BY <2>1, <2>2, <2>3 DEF Job!Store, Job!Move, Job!Goto, ShownStatus, ShownStored, ShownJobs
  <2> QED BY <2>4

\* The worker leaves the job.
<1>12. ASSUME NEW w \in Workers, NEW job, Leaves(w, job), tasks' = tasks, SameTables
       PROVE  \E k \in Jobs :
                /\ k = wk[w].job /\ ShownJobs[k].state = ShownAt(wk[w].pc)
                /\ ShownJobs[k].retries = jobs[k].retries
                /\ ShownJobs' = [ShownJobs EXCEPT ![k] = [state |-> job.state,
                                                          retries |-> job.retries]]
                /\ ShownStatus' = ShownStatus /\ ShownStored' = ShownStored
  <2>1. ShownStatus' = ShownStatus /\ ShownStored' = ShownStored
    BY <1>12, SameTablesShown DEF ShownStatus, SameTables
  <2> QED BY <1>12, <2>1, LeavesShown
<1>13. ASSUME NEW w \in Workers, NEW s \in {"queued", "gone"}, LeavesAs(w, s)
       PROVE  \E k \in Jobs :
                /\ k = wk[w].job /\ ShownJobs[k].state = ShownAt(wk[w].pc)
                /\ ShownJobs' = [ShownJobs EXCEPT ![k].state = s]
                /\ ShownStatus' = ShownStatus /\ ShownStored' = ShownStored
  <2> DEFINE job == [jobs[wk[w].job] EXCEPT !.state = s]
  <2>1. /\ job \in Messages /\ job.state = s /\ job.retries = jobs[wk[w].job].retries
    BY <1>13, Typed DEF Messages, LeavesAs
  <2>2. Leaves(w, job)
    <3> HIDE DEF job
    <3> QED BY <1>13, <2>1, ReleaseEffect DEF job, LeavesAs
  <2> HIDE DEF job
  <2>3. PICK k \in Jobs :
           /\ k = wk[w].job /\ ShownJobs[k].state = ShownAt(wk[w].pc)
           /\ ShownJobs[k].retries = jobs[k].retries
           /\ ShownJobs' = [ShownJobs EXCEPT ![k] = [state |-> job.state,
                                                     retries |-> job.retries]]
           /\ ShownStatus' = ShownStatus /\ ShownStored' = ShownStored
    BY <1>12, <1>13, <2>2 DEF LeavesAs
  <2>4. ShownJobs' = [ShownJobs EXCEPT ![k].state = s]
    <3>1. [ShownJobs[k] EXCEPT !.state = s] = [state |-> s, retries |-> jobs[k].retries]
      BY DEF ShownJobs
    <3> QED BY <2>1, <2>3, <3>1
  <2> QED BY <2>3, <2>4
<1>14. ASSUME NEW w \in Workers, Ack(w) PROVE \E j \in Jobs : Job!End(j)
  <2>1. wk[w].pc = "ack" /\ LeavesAs(w, "gone")
    BY <1>14 DEF Ack, Busy, SameTables, LeavesAs
  <2>2. PICK k \in Jobs :
           /\ ShownJobs[k].state = "over" /\ ShownJobs' = [ShownJobs EXCEPT ![k].state = "gone"]
           /\ ShownStatus' = ShownStatus /\ ShownStored' = ShownStored
    BY <1>13, <2>1
  <2>3. Job!End(k)
    BY <2>2 DEF Job!End, Job!Move, Job!Goto, ShownStatus, ShownStored, ShownJobs
  <2> QED BY <2>3
<1>15. ASSUME NEW w \in Workers, Rollback(w)
       PROVE  \E j \in Jobs : Job!End(j) \/ Job!Retry(j)
  <2> DEFINE again == [state |-> "queued", retries |-> jobs[wk[w].job].retries + 1]
  <2>1. /\ Busy(w) /\ wk[w].pc = "rollback" /\ tasks' = tasks /\ SameTables
        /\ overlapped' = overlapped
        /\ \/ LeavesAs(w, "gone")
           \/ jobs[wk[w].job].retries < MaxRetries /\ Release(w, again)
    BY <1>15 DEF Rollback, Busy, SameTables, LeavesAs
  <2>2. CASE LeavesAs(w, "gone")
    <3>1. PICK k \in Jobs :
             /\ ShownJobs[k].state = "over"
             /\ ShownJobs' = [ShownJobs EXCEPT ![k].state = "gone"]
             /\ ShownStatus' = ShownStatus /\ ShownStored' = ShownStored
      BY <1>13, <2>1, <2>2
    <3>2. Job!End(k)
      BY <3>1 DEF Job!End, Job!Move, Job!Goto, ShownStatus, ShownStored, ShownJobs
    <3> QED BY <3>2
  <2>3. CASE jobs[wk[w].job].retries < MaxRetries /\ Release(w, again)
    <3>1. again \in Messages /\ again.state = "queued"
      BY <2>1, <2>3, Typed, PipelineAssumption DEF Messages, PipelineAssumption
    <3>2. again.retries = jobs[wk[w].job].retries + 1
      OBVIOUS
    <3> HIDE DEF again
    <3>3. Leaves(w, again)
      BY <2>1, <2>3, <3>1, ReleaseEffect
    <3>4. PICK k \in Jobs :
             /\ k = wk[w].job /\ ShownJobs[k].state = "over"
             /\ ShownJobs[k].retries = jobs[k].retries
             /\ ShownJobs' = [ShownJobs EXCEPT ![k] = [state |-> again.state,
                                                       retries |-> again.retries]]
             /\ ShownStatus' = ShownStatus /\ ShownStored' = ShownStored
      BY <1>12, <2>1, <3>3
    <3>5. /\ ShownJobs[k].retries < MaxRetries
          /\ ShownJobs' = [ShownJobs EXCEPT ![k] = [state |-> "queued",
                                                    retries |-> @.retries + 1]]
      BY <2>3, <3>1, <3>2, <3>4
    <3>6. Job!Retry(k)
      BY <3>4, <3>5 DEF Job!Retry, ShownStatus, ShownStored, ShownJobs
    <3> QED BY <3>6
  <2> QED BY <2>1, <2>2, <2>3
<1>16. ASSUME NEW w \in Workers, SetupError(w) PROVE \E j \in Jobs : Job!SetupError(j)
  <2>1. wk[w].pc = "setup" /\ LeavesAs(w, "gone")
    BY <1>16 DEF SetupError, Busy, SameTables, LeavesAs
  <2>2. PICK k \in Jobs :
           /\ ShownJobs[k].state = "running"
           /\ ShownJobs' = [ShownJobs EXCEPT ![k].state = "gone"]
           /\ ShownStatus' = ShownStatus /\ ShownStored' = ShownStored
    BY <1>13, <2>1
  <2>3. Job!SetupError(k)
    BY <2>2 DEF Job!SetupError, Job!Move, Job!Goto, ShownStatus, ShownStored, ShownJobs
  <2> QED BY <2>3
<1>17. ASSUME NEW w \in Workers, Crash(w) PROVE \E j \in Jobs : Job!Crash(j)
  <2>1. Busy(w) /\ LeavesAs(w, "queued")
    BY <1>17 DEF Crash, Busy, SameTables, LeavesAs
  <2>2. PICK k \in Jobs :
           /\ ShownJobs[k].state = ShownAt(wk[w].pc)
           /\ ShownJobs' = [ShownJobs EXCEPT ![k].state = "queued"]
           /\ ShownStatus' = ShownStatus /\ ShownStored' = ShownStored
    BY <1>13, <2>1
  <2>3. ShownAt(wk[w].pc) \in {"running", "begun", "completed", "over"}
    BY <2>1, Typed DEF Pcs, Calls, Busy
  <2>4. Job!Crash(k)
    BY <2>2, <2>3 DEF Job!Crash, Job!Held, Job!Goto, ShownStatus, ShownStored, ShownJobs
  <2> QED BY <2>4
<1>18. ASSUME NEW w \in Workers, Kill(w) PROVE \E j \in Jobs : Job!Kill(j)
  <2>1. Busy(w) /\ LeavesAs(w, "gone")
    BY <1>18 DEF Kill, Busy, SameTables, LeavesAs
  <2>2. PICK k \in Jobs :
           /\ ShownJobs[k].state = ShownAt(wk[w].pc)
           /\ ShownJobs' = [ShownJobs EXCEPT ![k].state = "gone"]
           /\ ShownStatus' = ShownStatus /\ ShownStored' = ShownStored
    BY <1>13, <2>1
  <2>3. ShownAt(wk[w].pc) \in {"running", "begun", "completed", "over"}
    BY <2>1, Typed DEF Pcs, Calls, Busy
  <2>4. Job!Kill(k)
    BY <2>2, <2>3 DEF Job!Kill, Job!Held, Job!Goto, ShownStatus, ShownStored, ShownJobs
  <2> QED BY <2>4
<1>19. ASSUME NEW w \in Workers, InfraError(w)
       PROVE  \/ UNCHANGED Job!jvars
              \/ \E j \in Jobs : \/ Job!Begin(j) \/ Job!Checkpoint(j) \/ Job!Break(j)
                                 \/ Job!Fail(j) \/ Job!Store(j)
  <2> DEFINE p == IF wk[w].pc \in {"phase", "ids", "result", "complete"} THEN "failed"
                  ELSE "rollback"
  <2>1. /\ GoesOn(w, p) /\ wk[w].pc \in Calls \ {"setup"}
        /\ \/ SameTables /\ tasks' = tasks
           \/ SameTables /\ wk[w].pc = "phase" /\ Saves(w, Checkpoint(w))
           \/ SameTables /\ wk[w].pc \in {"start", "complete"} /\ Saves(w, wk[w].task)
           \/ SameTables /\ wk[w].pc = "failed" /\ Saves(w, FailWith(wk[w].task))
           \/ wk[w].pc = "commit" /\ Commits(w) /\ tasks' = tasks
    BY <1>19, InfraErrorEffect DEF PhaseIsOver, InPhase
  <2>2. /\ wk[w].pc \in {"phase", "ids", "result", "complete"} => p = "failed"
        /\ wk[w].pc \in {"find", "start", "commit", "failed"} => p = "rollback"
        /\ wk[w].pc \in {"phase", "ids", "result", "complete", "find", "start", "commit", "failed"}
    BY <2>1 DEF Calls
  <2> HIDE DEF p
  <2>3. CASE SameTables /\ tasks' = tasks
    <3>1. CASE wk[w].pc \in {"phase", "ids", "result", "complete"}
      <4>1. ShownAt(p) = ShownAt(wk[w].pc)
        BY <2>2, <3>1
      <4> QED BY <1>2, <2>1, <2>3, <4>1 DEF SameTables
    <3>2. CASE wk[w].pc \in {"find", "start", "commit", "failed"}
      <4>1. ShownAt(p) = "over" /\ ShownAt(wk[w].pc) \in {"running", "begun", "completed"}
        BY <2>2, <3>2
      <4>2. PICK k \in Jobs : k = wk[w].job
        BY <2>1, GoesOnShown
      <4>3. /\ ShownJobs[k].state = ShownAt(wk[w].pc)
            /\ ShownJobs' = [ShownJobs EXCEPT ![k].state = ShownAt(p)]
        BY <2>1, <4>2, GoesOnShown
      <4>4. ShownStatus' = ShownStatus /\ ShownStored' = ShownStored
        BY <2>3, SameTablesShown DEF ShownStatus, SameTables
      <4>5. /\ ShownJobs[k].state \in {"running", "begun", "completed"}
            /\ ShownJobs' = [ShownJobs EXCEPT ![k].state = "over"]
        BY <4>1, <4>3
      <4>6. Job!Break(k)
        BY <4>4, <4>5 DEF Job!Break, Job!Move, Job!Goto, ShownStatus, ShownStored, ShownJobs
      <4> QED BY <4>6
    <3> QED BY <2>2, <3>1, <3>2
  <2>4. CASE SameTables /\ wk[w].pc = "phase" /\ Saves(w, Checkpoint(w))
    <3>1. Checkpoint(w).status = "processing" /\ p = "failed"
      BY <1>0, <2>2, <2>4, CheckpointTyped DEF Placed
    <3>2. \E j \in Jobs : Job!Checkpoint(j) \/ Job!Break(j)
      BY <1>7, <2>1, <2>4, <3>1
    <3> QED BY <3>2
  <2>5. CASE SameTables /\ wk[w].pc = "complete" /\ Saves(w, wk[w].task)
    <3>1. wk[w].task.status = "completed" /\ p = "failed"
      BY <1>0, <2>2, <2>5 DEF Placed
    <3>2. \E j \in Jobs : Job!Checkpoint(j) \/ Job!Break(j)
      BY <1>7, <2>1, <2>5, <3>1
    <3> QED BY <3>2
  <2>6. CASE SameTables /\ wk[w].pc = "start" /\ Saves(w, wk[w].task)
    <3>1. \E j \in Jobs : Job!Begin(j) \/ Job!Break(j)
      BY <1>6, <2>1, <2>2, <2>6
    <3> QED BY <3>1
  <2>7. CASE SameTables /\ wk[w].pc = "failed" /\ Saves(w, FailWith(wk[w].task))
    <3>1. \E j \in Jobs : Job!Fail(j)
      BY <1>10, <2>1, <2>2, <2>7
    <3> QED BY <3>1
  <2>8. CASE wk[w].pc = "commit" /\ Commits(w) /\ tasks' = tasks
    <3>1. \E j \in Jobs : Job!Store(j)
      BY <1>11, <2>1, <2>2, <2>8
    <3> QED BY <3>1
  <2> QED BY <2>1, <2>3, <2>4, <2>5, <2>6, <2>7, <2>8
<1>20. ASSUME NEW w \in Workers, StartTask(w)
       PROVE  \E j \in Jobs : Job!Begin(j) \/ Job!Break(j)
  <2>1. GoesOn(w, "phase") /\ SameTables /\ wk[w].pc = "start" /\ Saves(w, wk[w].task)
    BY <1>20, StartTaskEffect
  <2> QED BY <1>6, <2>1
<1>21. ASSUME NEW w \in Workers, SaveFailed(w) PROVE \E j \in Jobs : Job!Fail(j)
  BY <1>10, <1>21, SaveFailedEffect
<1>22. ASSUME NEW w \in Workers, Commit(w) PROVE \E j \in Jobs : Job!Store(j)
  BY <1>11, <1>22, CommitEffect
<1>23. CASE UNCHANGED vars
  BY <1>23 DEF vars, Job!jvars, RecordsOf, JobState
<1>24. ASSUME \E j \in Jobs : \/ Job!Take(j) \/ Job!Begin(j) \/ Job!Checkpoint(j) \/ Job!Complete(j)
                               \/ Job!Store(j) \/ Job!Fail(j) \/ Job!Retry(j) \/ Job!End(j)
                               \/ Job!Break(j) \/ Job!SetupError(j) \/ Job!Crash(j)
                               \/ Job!Kill(j)
       PROVE  Job!Next
  BY <1>24 DEF Job!Next, Job!Work
<1> QED
  BY <1>1, <1>3, <1>4, <1>8, <1>9, <1>14, <1>15, <1>16, <1>17, <1>19, <1>20, <1>21, <1>22,
     <1>23, <1>24, <1>18 DEF Next, Step

\* Seen from outside, the pipeline is AnalysisJob: PROCESSING, then COMPLETED and only after it
\* the records, or FAILED; a message is redelivered or retried until its retries are used up,
\* and lost only with a killed pool process or an error outside the try block.  Nothing else
\* is ever shown, for any rows and chunks, any number of workers, any mix of errors, lost
\* answers, crashes and deadlocks, and also when several jobs of one task run at once.
THEOREM PipelineImplementsJob == Spec => ImplementsJob
BY TypeInit, TypeStep, PlacedInit, PlacedStep, JobInit, JobStep, PTL
   DEF Spec, ImplementsJob, Job!Spec
=============================================================================
