---------------------------- MODULE ResultProofs ----------------------------
(***************************************************************************)
(* Theorems about the tasks that end up COMPLETED: their results are true  *)
(* and their rows are in MySQL.  They hold while the only calls that fail  *)
(* are those after which execute() saves FAILED on a task object without   *)
(* checkpoints, or saves nothing: a retry then starts from the first phase *)
(* again, with an empty session.  Jobs of other tasks may do what they     *)
(* like, also select the same videos, and a task may be dispatched again   *)
(* once its job is over; only its own runs must not overlap.               *)
(***************************************************************************)
EXTENDS CheckpointProofs

\* The calls up to the last phase.  An error of a later one, or of the save of FAILED, or a
\* worker that dies leaves checkpoints behind whose rows are rolled back.
FailsEarly == Faults \subseteq {"setup", "find", "start", "phase", "ids"}

\* What MySQL holds of a task: nothing yet.
Untouched(recs, rejs) == recs = {} /\ \A s \in Stages : rejs[s] = 0

\* A StageProgress p says what a session ss holds of a stage.
Exact(p, ss, s) ==
  p.processed = Cardinality(InStage(ss.rows, s)) /\ p.rejected = ss.rejs[s]

\* A document with a full checkpoint that says what these records and rejections are.
Told(doc, recs, rejs) ==
  /\ doc.last = AutoLabeling
  /\ \A s \in Stages :
       doc.prog[s] = [processed |-> Cardinality(InStage(recs, s)), rejected |-> rejs[s]]

\* The result of a task with these records and rejections.
LinkedIn(recs) ==
  VideosOf(recs, Selection) \intersect VideosOf(recs, OddTagging)
                            \intersect VideosOf(recs, AutoLabeling)
ResultOf(recs, rejs) ==
  [stages |-> {<<s, [processed |-> Cardinality(InStage(recs, s)), rejected |-> rejs[s]]>> :
                 s \in Stages},
   linked |-> Cardinality(LinkedIn(recs)),
   partial |-> Cardinality(VideosOf(recs, Selection)) - Cardinality(LinkedIn(recs))]

\* What CompletedIsDurable says of a task with these records, in a table of such records.
Durable(t, recs, stored) ==
  LET ids == VideosOf(recs, Selection)
  IN /\ ids \subseteq Selected(t)
     /\ \A v \in Selected(t) : <<Selection, v>> \in Keys(stored)
     /\ \A s \in Stages \ {Selection} : InStage(recs, s) = Expected(ids, t, s)

\* A task whose rows are committed.
Known(t, doc, recs, rejs, stored) ==
  /\ Told(doc, recs, rejs)
  /\ doc.status = "completed" => doc.result = ResultOf(recs, rejs)
  /\ Durable(t, recs, stored)

-----------------------------------------------------------------------------
(***************************************************************************)
(* A worker with the local variables l, the session ss and the document    *)
(* doc is in a run that has nothing of an earlier one at hand, or it is in *)
(* a run after the commit, which skips every phase.                        *)
(***************************************************************************)
Counts(l, ss, doc) ==
  /\ l.pc # "ack"
  /\ l.pc \in {"setup", "find", "start", "rollback"} => doc.last = 0
  /\ l.pc \in {"start", "phase", "ids", "failed"} => l.task.last = 0
  /\ l.pc \in {"phase", "ids"} =>
       l.cur.last = l.stage - 1 /\ \A s \in Stages : Exact(ProgressSoFar(l, s), ss, s)
  /\ l.pc \in {"result", "complete", "commit"} => Told(l.task, ss.rows, ss.rejs)
  /\ l.pc \in {"complete", "commit"} => l.task.result = ResultOf(ss.rows, ss.rejs)
  /\ l.pc = "commit" => doc = l.task
  /\ doc.status = "completed" => l.pc = "commit"

\* The rows the phases have taken so far: all of them, those of the first chunks, none.
RowsBefore(t, s, c) ==
  {row \in Accepted(t, s) : \E i \in DOMAIN Raw[t][s] : i < c /\ row \in Raw[t][s][i]}
SoFar(t, l, s) ==
  IF l.pc \in {"result", "complete", "commit"} \/ s < l.stage THEN Accepted(t, s)
  ELSE IF s = l.stage THEN RowsBefore(t, s, l.chunk)
  ELSE {}

\* The records of the rows that have a selection, if there is any.
Recorded(ids, t, s, rows) ==
  {Record(t, s, row) : row \in {r \in rows : ids = {} \/ r.video \in ids}}

Loads(t, l, ss, stored) ==
  LET ids == VideosOf(ss.rows, Selection)
  IN /\ l.pc \in {"setup", "find", "start"} => l.ids = {}
     /\ l.pc = "phase" => l.ids = IF l.stage = Selection THEN {} ELSE ids
     /\ l.pc = "ids" => l.stage = OddTagging
     /\ l.pc \in {"phase", "ids", "result", "complete", "commit"} =>
          /\ ids \subseteq Selected(t)
          /\ \A row \in SoFar(t, l, Selection) :
               <<Selection, row.video>> \in Keys(stored \union ss.rows)
          /\ \A s \in Stages \ {Selection} :
               InStage(ss.rows, s) = Recorded(ids, t, s, SoFar(t, l, s))

Again(t, l, ss, recs, rejs) ==
  /\ ss.rows = {} /\ \A s \in Stages : ss.rejs[s] = 0
  /\ ss.read => {rec \in ss.snap : rec.task = t} = recs
  /\ l.pc \in {"start", "phase", "ids", "result", "complete", "failed"} => Told(l.task, recs, rejs)
  /\ l.pc \in {"phase", "ids"} => Told(l.cur, recs, rejs)
  /\ l.pc = "complete" => l.task.result = ResultOf(recs, rejs)

First(w) ==
  LET t == TaskId(w)
  IN /\ Untouched(RecordsOf(t), dbRejs[t])
     /\ Counts(wk[w], sess[w], tasks[t]) /\ Loads(t, wk[w], sess[w], db)
Later(w) ==
  LET t == TaskId(w)
  IN /\ Known(t, tasks[t], RecordsOf(t), dbRejs[t], db)
     /\ Again(t, wk[w], sess[w], RecordsOf(t), dbRejs[t])
Running(w) == First(w) \/ Later(w)

\* A task no worker runs.
Rest(t) ==
  \/ /\ Untouched(RecordsOf(t), dbRejs[t])
     /\ tasks[t].last = 0 /\ tasks[t].status # "completed"
  \/ Known(t, tasks[t], RecordsOf(t), dbRejs[t], db)
Resting(t) == \A w \in Workers : ~(Busy(w) /\ TaskId(w) = t)

RInv ==
  /\ \A t \in Tasks \ overlapped : Resting(t) => Rest(t)
  /\ \A w \in Workers : OnItsOwn(w) => Running(w)

-----------------------------------------------------------------------------
\* What others store leaves the rows of a task, and what is known of them, as they are.
LEMMA MoreStored ==
  ASSUME NEW A, NEW B, A \subseteq B
  PROVE  /\ Keys(A) \subseteq Keys(B)
         /\ \A t, recs : Durable(t, recs, A) => Durable(t, recs, B)
         /\ \A t, doc, recs, rejs : Known(t, doc, recs, rejs, A) => Known(t, doc, recs, rejs, B)
         /\ \A t, l, ss : Loads(t, l, ss, A) => Loads(t, l, ss, B)
<1>1. Keys(A) \subseteq Keys(B) /\ \A S : Keys(A \union S) \subseteq Keys(B \union S)
  BY DEF Keys
<1>2. \A t, recs : Durable(t, recs, A) => Durable(t, recs, B)
  BY <1>1 DEF Durable
<1>3. \A t, doc, recs, rejs : Known(t, doc, recs, rejs, A) => Known(t, doc, recs, rejs, B)
  BY <1>2 DEF Known
<1>4. ASSUME NEW t, NEW l, NEW ss, Loads(t, l, ss, A) PROVE Loads(t, l, ss, B)
  BY <1>1, <1>4 DEF Loads
<1> QED BY <1>1, <1>2, <1>3, <1>4

LEMMA StillAtRest ==
  ASSUME NEW t, tasks'[t] = tasks[t], RecordsOf(t)' = RecordsOf(t), dbRejs'[t] = dbRejs[t],
         db \subseteq db', Rest(t)
  PROVE  Rest(t)'
<1>1. \A doc, recs, rejs : Known(t, doc, recs, rejs, db) => Known(t, doc, recs, rejs, db')
  BY MoreStored
<1> QED BY <1>1 DEF Rest

LEMMA StillRunning ==
  ASSUME NEW v, NEW t, t = TaskId(v), wk'[v] = wk[v], sess'[v] = sess[v], tasks'[t] = tasks[t],
         RecordsOf(t)' = RecordsOf(t), dbRejs'[t] = dbRejs[t], db \subseteq db', Running(v)
  PROVE  Running(v)'
<1>1. /\ \A doc, recs, rejs : Known(t, doc, recs, rejs, db) => Known(t, doc, recs, rejs, db')
      /\ \A l, ss : Loads(t, l, ss, db) => Loads(t, l, ss, db')
  BY MoreStored
<1>2. TaskId(v)' = t
  BY DEF TaskId
<1> QED BY <1>1, <1>2 DEF Running, First, Later

\* The step of a worker is about its own task.
LEMMA OwnResults ==
  ASSUME TInv, DInv, RInv, NEW w \in Workers, Works(w), NEW mine, mine = TaskId(w),
         OnItsOwn(w) => IF Busy(w)' THEN Running(w)' ELSE Rest(mine)'
  PROVE  RInv'
<1>1. OnlyOwn(w) /\ Busy(w)
  BY WorksOnItsOwn DEF OnlyOwn
<1>2. /\ overlapped' = overlapped /\ db \subseteq db'
      /\ \A t \in Tasks \ {mine} :
           tasks'[t] = tasks[t] /\ RecordsOf(t)' = RecordsOf(t) /\ dbRejs'[t] = dbRejs[t]
      /\ \A v \in Workers \ {w} : /\ wk'[v] = wk[v] /\ sess'[v] = sess[v]
                                  /\ TaskId(v)' = TaskId(v) /\ (Busy(v)' <=> Busy(v))
      /\ Busy(w)' => TaskId(w)' = mine
  BY <1>1 DEF OnlyOwn, Frame, Busy, TaskId
<1>3. ASSUME NEW t \in Tasks \ overlapped', Resting(t)' PROVE Rest(t)'
  <2>1. CASE t = mine
    <3>1. ~Busy(w)' /\ OnItsOwn(w)
      BY <1>1, <1>2, <1>3, <2>1 DEF Resting, OnItsOwn
    <3> QED BY <2>1, <3>1
  <2>2. CASE t # mine
    <3>1. Resting(t)
      BY <1>2, <1>3, <2>2 DEF Resting
    <3>2. Rest(t)
      BY <1>2, <1>3, <3>1 DEF RInv
    <3> QED BY <1>2, <2>2, <3>2, StillAtRest
  <2> QED BY <2>1, <2>2
<1>4. ASSUME NEW v \in Workers, v # w, OnItsOwn(v)' PROVE Running(v)'
  <2>1. OnItsOwn(v) /\ Running(v)
    BY <1>2, <1>4 DEF OnItsOwn, RInv
  <2>2. TaskId(v) \in Tasks \ {mine}
    BY <1>1, <1>4, <2>1, OwnTask, Typed DEF OnItsOwn
  <2> QED BY <1>2, <1>4, <2>1, <2>2, StillRunning
<1>5. OnItsOwn(w)' => Running(w)'
  BY <1>1, <1>2 DEF OnItsOwn
<1> QED BY <1>3, <1>4, <1>5 DEF RInv

\* A worker takes the message of a task no other worker runs: the task is as it was left.
LEMMA TakesResults ==
  ASSUME TInv, DInv, RInv, NEW w \in Workers, NEW j \in Jobs, Take(w, j)
  PROVE  RInv'
<1> DEFINE mine == TaskOf[j]
<1>1. /\ ~Busy(w) /\ Frame(w) /\ sess' = sess /\ sess[w] = EmptySession
      /\ wk'[w].pc = "setup" /\ wk'[w].job = j /\ wk'[w].ids = {}
      /\ tasks' = tasks /\ SameTables /\ overlapped \subseteq overlapped'
      /\ \A v \in Workers : Busy(v) /\ TaskId(v) = mine => mine \in overlapped'
  BY TakeEffect DEF SamePlace, Idle
<1>2. mine \in Tasks
  BY PipelineAssumption DEF PipelineAssumption
<1>3. /\ db' = db /\ dbRejs' = dbRejs /\ \A t : RecordsOf(t)' = RecordsOf(t)
      /\ \A v \in Workers \ {w} : /\ wk'[v] = wk[v] /\ sess'[v] = sess[v]
                                  /\ TaskId(v)' = TaskId(v) /\ (Busy(v)' <=> Busy(v))
      /\ TaskId(w)' = mine /\ Busy(w)'
  BY <1>1 DEF SameTables, Frame, RecordsOf, Busy, TaskId
<1>4. ASSUME NEW t \in Tasks \ overlapped', Resting(t)' PROVE Rest(t)'
  <2>1. Resting(t) /\ t \notin overlapped
    BY <1>1, <1>3, <1>4 DEF Resting
  <2> QED BY <1>1, <1>3, <1>4, <2>1, StillAtRest DEF RInv
<1>5. ASSUME NEW v \in Workers, v # w, OnItsOwn(v)' PROVE Running(v)'
  <2>1. OnItsOwn(v) /\ Running(v)
    BY <1>1, <1>3, <1>5 DEF OnItsOwn, RInv
  <2> QED BY <1>1, <1>3, <1>5, <2>1, StillRunning
<1>6. ASSUME OnItsOwn(w)' PROVE Running(w)'
  <2>1. Resting(mine) /\ mine \notin overlapped
    BY <1>1, <1>3, <1>6 DEF Resting, OnItsOwn
  <2>2. Rest(mine)
    BY <1>2, <2>1 DEF RInv
  <2>3. CASE /\ Untouched(RecordsOf(mine), dbRejs[mine])
             /\ tasks[mine].last = 0 /\ tasks[mine].status # "completed"
    <3>1. Counts(wk'[w], sess'[w], tasks'[mine])
      BY <1>1, <2>3 DEF Counts
    <3>2. Loads(mine, wk'[w], sess'[w], db')
      BY <1>1 DEF Loads
    <3> QED BY <1>3, <2>3, <3>1, <3>2 DEF Running, First
  <2>4. CASE Known(mine, tasks[mine], RecordsOf(mine), dbRejs[mine], db)
    <3>1. Again(mine, wk'[w], sess'[w], RecordsOf(mine), dbRejs[mine])
      BY <1>1 DEF Again, EmptySession
    <3> QED BY <1>1, <1>3, <2>4, <3>1 DEF Running, Later
  <2> QED BY <2>2, <2>3, <2>4 DEF Rest
<1> QED BY <1>4, <1>5, <1>6 DEF RInv

-----------------------------------------------------------------------------
(***************************************************************************)
(* The first run.                                                          *)
(***************************************************************************)
\* What a step that writes no table leaves as it is.
LEMMA SameStored ==
  ASSUME TInv, NEW w \in Workers, NEW p, GoesOn(w, p), SameTables, NEW t, t = TaskId(w)
  PROVE  /\ t \in Tasks /\ TaskId(w)' = t /\ wk'[w].pc = p /\ Busy(w)' /\ db' = db
         /\ RecordsOf(t)' = RecordsOf(t) /\ dbRejs'[t] = dbRejs[t]
         /\ tasks' = tasks => tasks'[t] = tasks[t]
         /\ \A doc : Saves(w, doc) => tasks'[t] = doc
BY Typed DEF GoesOn, SameTables, TaskId, RecordsOf, Saves, TInv, TypeOK, Busy

LEMMA FirstGoesOn ==
  ASSUME TInv, NEW w \in Workers, NEW p, GoesOn(w, p), SameTables, NEW t, t = TaskId(w), First(w),
         Counts(wk'[w], sess'[w], tasks'[t]), Loads(t, wk'[w], sess'[w], db)
  PROVE  First(w)'
BY SameStored DEF First

LEMMA LaterGoesOn ==
  ASSUME TInv, NEW w \in Workers, NEW p, GoesOn(w, p), SameTables, NEW t, t = TaskId(w), Later(w),
         \/ tasks'[t] = tasks[t]
         \/ /\ Told(tasks'[t], RecordsOf(t), dbRejs[t])
            /\ tasks'[t].status = "completed" => tasks'[t].result = ResultOf(RecordsOf(t), dbRejs[t]),
         Again(t, wk'[w], sess'[w], RecordsOf(t), dbRejs[t])
  PROVE  Later(w)'
<1>1. Known(t, tasks'[t], RecordsOf(t), dbRejs[t], db)
  BY DEF Later, Known
<1> QED BY <1>1, SameStored DEF Later

\* The rows a chunk inserts are new to the session, so they are counted once.
LEMMA ChunkExact ==
  ASSUME TInv, NEW w \in Workers, OnItsOwn(w), First(w), RunChunk(w)
  PROVE  Counts(wk'[w], sess'[w], tasks'[TaskId(w)])
<1>0. PICK here \in Stages : here = wk[w].stage
  BY Typed
<1>1. /\ wk[w].pc = "phase" /\ wk'[w].pc = "phase" /\ ChunksLeft(w)
      /\ SameObjects(wk'[w], wk[w]) /\ wk'[w].stage = here
      /\ wk'[w].loaded = wk[w].loaded + Cardinality(Inserted(w))
      /\ wk'[w].rejected = wk[w].rejected + ChunkRejections(w)
      /\ sess'[w].rows = sess[w].rows \union Inserted(w)
      /\ sess'[w].rejs = [sess[w].rejs EXCEPT ![here] = @ + ChunkRejections(w)]
      /\ tasks' = tasks /\ Busy(w)
  BY <1>0, RunChunkEffect DEF GoesOn
<1>2. /\ Counts(wk[w], sess[w], tasks[TaskId(w)])
      /\ wk'[w].cur = wk[w].cur /\ wk'[w].task = wk[w].task
  BY <1>1 DEF SameObjects, First
<1>3. /\ sess[w].rejs \in [Stages -> Nat] /\ IsFiniteSet(sess[w].rows)
      /\ wk[w].loaded \in Nat /\ wk[w].rejected \in Nat
  BY Typed
<1>4. /\ Cardinality(Inserted(w)) \in Nat /\ ChunkRejections(w) \in Nat /\ IsFiniteSet(Inserted(w))
      /\ \A rec \in Inserted(w) : rec.stage = here
  BY <1>0, <1>1, ChunkWrites
<1>5. \A s \in Stages : Exact(ProgressSoFar(wk[w], s), sess[w], s)
  BY <1>1, <1>2 DEF Counts
<1>6. ASSUME NEW s \in Stages, s # here PROVE Exact(ProgressSoFar(wk'[w], s), sess'[w], s)
  <2>1. InStage(sess'[w].rows, s) = InStage(sess[w].rows, s) /\ sess'[w].rejs[s] = sess[w].rejs[s]
    BY <1>1, <1>3, <1>4, <1>6 DEF InStage
  <2>2. ProgressSoFar(wk'[w], s) = ProgressSoFar(wk[w], s)
    BY <1>0, <1>1, <1>2, <1>6 DEF ProgressSoFar
  <2> QED BY <1>5, <2>1, <2>2 DEF Exact
<1>7. Exact(ProgressSoFar(wk'[w], here), sess'[w], here)
  <2>1. /\ ProgressSoFar(wk[w], here) = [processed |-> wk[w].loaded, rejected |-> wk[w].rejected]
        /\ ProgressSoFar(wk'[w], here) = [processed |-> wk'[w].loaded, rejected |-> wk'[w].rejected]
    BY <1>0, <1>1 DEF ProgressSoFar, Stages, Selection, OddTagging, AutoLabeling
  <2> DEFINE old == InStage(sess[w].rows, here)
  <2>2. wk[w].loaded = Cardinality(old) /\ wk[w].rejected = sess[w].rejs[here]
    BY <1>5, <2>1 DEF Exact
  <2>3. IsFiniteSet(old) /\ old \intersect Inserted(w) = {}
    <3>1. \A rec \in Inserted(w) : rec \notin sess[w].rows
      BY DEF Inserted, Keys
    <3> QED BY <3>1, <1>3, FS_Subset DEF InStage
  <2>4. InStage(sess'[w].rows, here) = old \union Inserted(w)
    BY <1>1, <1>4 DEF InStage
  <2>5. Cardinality(old \union Inserted(w)) = Cardinality(old) + Cardinality(Inserted(w))
    <3> HIDE DEF old
    <3>1. Cardinality(old \union Inserted(w)) =
            Cardinality(old) + Cardinality(Inserted(w)) - Cardinality(old \intersect Inserted(w))
      BY <2>3, <1>4, FS_Union
    <3>2. Cardinality(old) \in Nat /\ Cardinality(old \intersect Inserted(w)) = 0
      BY <2>3, FS_EmptySet, FS_CardinalityType
    <3> QED BY <3>1, <3>2, <1>4
  <2>6. sess'[w].rejs[here] = wk'[w].rejected
    BY <1>1, <1>3, <2>2
  <2>7. wk'[w].loaded = Cardinality(InStage(sess'[w].rows, here))
    BY <1>1, <2>2, <2>4, <2>5
  <2> QED BY <2>1, <2>6, <2>7 DEF Exact
<1>8. \A s \in Stages : Exact(ProgressSoFar(wk'[w], s), sess'[w], s)
  BY <1>6, <1>7
<1> QED BY <1>0, <1>1, <1>2, <1>8 DEF Counts

\* The end of a phase leaves counters that agree with the session.
LEMMA PhaseExact ==
  ASSUME TInv, DInv, NEW w \in Workers, First(w), EndPhase(w)
  PROVE  Counts(wk'[w], sess'[w], tasks'[TaskId(w)])
<1>0. PICK here \in Stages : here = wk[w].stage
  BY Typed
<1>1. /\ wk[w].pc = "phase" /\ AfterPhase(w, Checkpoint(w)) /\ Checkpoint(w) \in TaskDocs
      /\ Busy(w) /\ jobs' = jobs /\ overlapped' = overlapped /\ sess' = sess
      /\ Saves(w, Checkpoint(w)) /\ SameTables
  BY EndPhaseEffect
<1>2. /\ GoesOn(w, NextCall(here)) /\ wk'[w].cur = Checkpoint(w)
      /\ wk'[w].loaded = 0 /\ wk'[w].rejected = 0
      /\ IF here = AutoLabeling THEN wk'[w].task = Checkpoint(w) /\ wk'[w].stage = here
         ELSE wk'[w].task = wk[w].task /\ wk'[w].stage = here + 1
  BY <1>0, <1>1, AfterPhaseEffect
<1>3. /\ wk'[w].pc = NextCall(here) /\ tasks'[TaskId(w)] = Checkpoint(w)
      /\ Checkpoint(w).status = "processing"
  <2>1. wk'[w].pc = NextCall(here) /\ tasks'[TaskId(w)] = Checkpoint(w)
    BY <1>1, <1>2, SameStored
  <2>2. Checkpoint(w).status = "processing"
    BY <1>1, CheckpointTyped DEF DInv, Placed
  <2> QED BY <2>1, <2>2
<1>4. /\ wk[w].task.last = 0 /\ \A s \in Stages : Exact(ProgressSoFar(wk[w], s), sess[w], s)
  BY <1>1 DEF First, Counts
<1>5. /\ Checkpoint(w).last = here /\ DOMAIN wk[w].cur.prog = Stages
      /\ Checkpoint(w).prog = [wk[w].cur.prog EXCEPT ![here] =
                                 [processed |-> wk[w].loaded, rejected |-> wk[w].rejected]]
  BY <1>0, CheckpointTyped, Typed DEF TaskDocs
<1>6. ASSUME NEW s \in Stages, s <= here PROVE Checkpoint(w).prog[s] = ProgressSoFar(wk[w], s)
  BY <1>0, <1>5, <1>6 DEF ProgressSoFar, Stages, Selection, OddTagging, AutoLabeling
<1>7. CASE here = AutoLabeling
  <2>1. wk'[w].pc = "result" /\ wk'[w].task = Checkpoint(w)
    BY <1>2, <1>3, <1>7 DEF NextCall, Selection, AutoLabeling
  <2>2. ASSUME NEW s \in Stages
        PROVE  Checkpoint(w).prog[s] = [processed |-> Cardinality(InStage(sess[w].rows, s)),
                                        rejected |-> sess[w].rejs[s]]
    <3>1. s <= here
      BY <1>7 DEF Stages, Selection, OddTagging, AutoLabeling
    <3>2. Exact(Checkpoint(w).prog[s], sess[w], s)
      BY <1>4, <1>6, <3>1
    <3>3. Checkpoint(w).prog[s] \in [processed : Nat, rejected : Nat]
      BY <1>1 DEF TaskDocs
    <3> QED BY <3>2, <3>3 DEF Exact
  <2>3. Told(Checkpoint(w), sess[w].rows, sess[w].rejs)
    BY <1>5, <1>7, <2>2 DEF Told
  <2> QED BY <1>1, <1>3, <2>1, <2>3 DEF Counts
<1>8. CASE here # AutoLabeling
  <2>1. /\ wk'[w].pc \in {"phase", "ids"} /\ wk'[w].stage = here + 1
        /\ wk'[w].task = wk[w].task /\ here \in Nat
    BY <1>2, <1>3, <1>8 DEF NextCall, Stages, Selection, OddTagging, AutoLabeling
  <2>2. ASSUME NEW s \in Stages PROVE ProgressSoFar(wk'[w], s) = ProgressSoFar(wk[w], s)
    <3>1. CASE s <= here
      BY <1>2, <1>6, <2>1, <3>1 DEF ProgressSoFar, Stages, Selection, OddTagging, AutoLabeling
    <3>2. CASE ~(s <= here)
      BY <1>0, <1>2, <2>1, <3>2
         DEF ProgressSoFar, NoProgress, Stages, Selection, OddTagging, AutoLabeling
    <3> QED BY <3>1, <3>2
  <2>3. \A s \in Stages : Exact(ProgressSoFar(wk'[w], s), sess'[w], s)
    BY <1>1, <1>4, <2>2
  <2>4. wk'[w].cur.last = wk'[w].stage - 1
    BY <1>2, <1>5, <2>1
  <2> QED BY <1>3, <1>4, <2>1, <2>3, <2>4 DEF Counts
<1> QED BY <1>7, <1>8

\* Before the commit, the videos a worker finds are those its own session has written.
LEMMA OwnVideos ==
  ASSUME TInv, DInv, KInv, NEW w \in Workers, RecordsOf(TaskId(w)) = {}
  PROVE  \A s : FindVideos(w, s, TaskId(w)) = VideosOf(sess[w].rows, s)
<1>1. Snapshot(w) \subseteq db
  BY DEF Snapshot, KInv
<1>2. \A rec \in Snapshot(w) : rec.task # TaskId(w)
  BY <1>1 DEF RecordsOf
<1>3. \A rec \in sess[w].rows : rec.task = TaskId(w)
  BY DEF DInv, Placed
<1> QED BY <1>2, <1>3 DEF FindVideos, VideosOf

\* The result of a document with exact progress, when the videos found are those of the records.
LEMMA ResultTold ==
  ASSUME NEW w, NEW recs, NEW rejs, Told(wk[w].task, recs, rejs),
         \A s : FindVideos(w, s, TaskId(w)) = VideosOf(recs, s)
  PROVE  Result(w) = ResultOf(recs, rejs)
<1> DEFINE stages == {<<s, wk[w].task.prog[s]>> : s \in Stages}
           counted == {<<s, [processed |-> Cardinality(InStage(recs, s)), rejected |-> rejs[s]]>> :
                         s \in Stages}
           found(s) == FindVideos(w, s, TaskId(w))
           linked == found(Selection) \intersect found(OddTagging) \intersect found(AutoLabeling)
<1>1. stages = counted
  BY DEF Told
<1>2. Result(w) = [stages |-> stages, linked |-> Cardinality(LinkedIn(recs)),
                   partial |-> Cardinality(VideosOf(recs, Selection)) - Cardinality(LinkedIn(recs))]
  <2>1. Result(w) = [stages |-> stages, linked |-> Cardinality(linked),
                     partial |-> Cardinality(found(Selection)) - Cardinality(linked)]
    BY DEF Result
  <2>2. /\ found(Selection) = VideosOf(recs, Selection)
        /\ found(OddTagging) = VideosOf(recs, OddTagging)
        /\ found(AutoLabeling) = VideosOf(recs, AutoLabeling)
    OBVIOUS
  <2>3. linked = LinkedIn(recs)
    BY <2>2 DEF LinkedIn
  <2> HIDE DEF found, linked, stages
  <2> QED BY <2>1, <2>2, <2>3
<1>3. ResultOf(recs, rejs) =
        [stages |-> counted, linked |-> Cardinality(LinkedIn(recs)),
         partial |-> Cardinality(VideosOf(recs, Selection)) - Cardinality(LinkedIn(recs))]
  BY DEF ResultOf
<1> HIDE DEF stages, counted
<1> QED BY <1>1, <1>2, <1>3

LEMMA ResultExact ==
  ASSUME TInv, DInv, KInv, NEW w \in Workers, First(w), BuildResult(w)
  PROVE  Counts(wk'[w], sess'[w], tasks'[TaskId(w)])
<1>1. /\ wk[w].pc = "result" /\ wk'[w].pc = "complete"
      /\ wk'[w].task = CompleteWith(wk[w].task, Result(w))
      /\ wk'[w].task.last = wk[w].task.last /\ wk'[w].task.prog = wk[w].task.prog
      /\ sess'[w].rows = sess[w].rows /\ sess'[w].rejs = sess[w].rejs /\ tasks' = tasks
  BY BuildResultEffect DEF GoesOn
<1>2. /\ Told(wk[w].task, sess[w].rows, sess[w].rejs) /\ RecordsOf(TaskId(w)) = {}
      /\ tasks[TaskId(w)].status # "completed"
  BY <1>1 DEF First, Counts, Untouched
<1>3. wk'[w].task.result = Result(w)
  BY <1>1, Typed DEF CompleteWith, TaskDocs
<1>4. Result(w) = ResultOf(sess[w].rows, sess[w].rejs)
  BY <1>2, OwnVideos, ResultTold
<1> QED BY <1>1, <1>2, <1>3, <1>4 DEF Counts, Told

-----------------------------------------------------------------------------
(***************************************************************************)
(* What the first run loads.  A row is ignored by an INSERT only if its    *)
(* key is stored: of a selection, whoever stored it; of an odd tag or a    *)
(* label, by the session itself.                                           *)
(***************************************************************************)
\* Two records with the same key are of the same stage and video, and only selections of
\* different tasks have the same key.
LEMMA KeysDetermine ==
  ASSUME NEW a \in Records, NEW b \in Records, KeyOf(a) = KeyOf(b)
  PROVE  /\ a.stage = b.stage /\ a.video = b.video
         /\ a.stage # Selection => a.task = b.task /\ a.class = b.class
<1>1. a.stage \in Stages /\ b.stage \in Stages
  BY DEF Records
<1>2. CASE a.stage = Selection /\ b.stage = Selection
  BY <1>2 DEF KeyOf
<1>3. CASE a.stage # Selection /\ b.stage # Selection
  BY <1>3 DEF KeyOf
<1>4. CASE a.stage = Selection /\ b.stage # Selection
  <2>1. Len(KeyOf(a)) = 2 /\ Len(KeyOf(b)) = 4
    BY <1>4 DEF KeyOf
  <2> QED BY <2>1
<1>5. CASE a.stage # Selection /\ b.stage = Selection
  <2>1. Len(KeyOf(a)) = 4 /\ Len(KeyOf(b)) = 2
    BY <1>5 DEF KeyOf
  <2> QED BY <2>1
<1> QED BY <1>2, <1>3, <1>4, <1>5

\* No row lies before the first chunk, all of them lie before the end.
LEMMA ChunkByChunk ==
  ASSUME NEW t \in Tasks, NEW s \in Stages, NEW c \in Nat \ {0}
  PROVE  /\ RowsBefore(t, s, 1) = {}
         /\ ~(c <= Len(Raw[t][s])) => RowsBefore(t, s, c) = Accepted(t, s)
         /\ c <= Len(Raw[t][s]) =>
              RowsBefore(t, s, c + 1) =
                RowsBefore(t, s, c) \union {r \in Raw[t][s][c] : r.errors = 0}
<1>1. DOMAIN Raw[t][s] = 1 .. Len(Raw[t][s]) /\ Len(Raw[t][s]) \in Nat
  BY PipelineAssumption DEF PipelineAssumption
<1>2. RowsBefore(t, s, 1) = {}
  BY <1>1 DEF RowsBefore
<1>3. ASSUME ~(c <= Len(Raw[t][s])) PROVE RowsBefore(t, s, c) = Accepted(t, s)
  BY <1>1, <1>3 DEF RowsBefore, Accepted, Rows
<1>4. ASSUME c <= Len(Raw[t][s])
      PROVE  RowsBefore(t, s, c + 1) =
               RowsBefore(t, s, c) \union {r \in Raw[t][s][c] : r.errors = 0}
  <2>1. c \in DOMAIN Raw[t][s]
    BY <1>1, <1>4
  <2>2. \A i \in DOMAIN Raw[t][s] : i < c + 1 <=> i < c \/ i = c
    BY <1>1
  <2>3. \A r \in Raw[t][s][c] : r \in Accepted(t, s) <=> r.errors = 0
    BY <2>1 DEF Accepted, Rows
  <2> QED BY <2>1, <2>2, <2>3 DEF RowsBefore
<1> QED BY <1>2, <1>3, <1>4

\* A row refine_single accepts has its key in a table or in the session, once its chunk is loaded.
LEMMA KeysAreStored ==
  ASSUME NEW w
  PROVE  \A rec \in ChunkRecords(w) : KeyOf(rec) \in Keys(db \union (sess[w].rows \union Inserted(w)))
BY DEF Inserted, Keys

\* An odd tag or label that INSERT IGNORE ignores has its record in the session.
LEMMA IgnoresKnown ==
  ASSUME TInv, DInv, NEW w \in Workers, First(w), Busy(w), ChunksLeft(w),
         wk[w].stage # Selection, NEW rec \in ChunkRecords(w), rec \notin Inserted(w)
  PROVE  rec \in sess[w].rows
<1>1. /\ rec \in Records /\ rec.task = TaskId(w) /\ rec.stage # Selection
      /\ db \subseteq Records /\ sess[w].rows \subseteq Records
  BY ChunkWrites, Typed DEF TInv, TypeOK
<1>2. PICK old \in db \union sess[w].rows : KeyOf(old) = KeyOf(rec)
  BY DEF Inserted, Keys
<1>3. /\ old \in Records /\ old.stage = rec.stage /\ old.video = rec.video
      /\ old.task = rec.task /\ old.class = rec.class
  BY <1>1, <1>2, KeysDetermine
<1>4. old = rec
  BY <1>1, <1>3 DEF Records
<1>5. rec \notin db
  BY <1>1 DEF First, Untouched, RecordsOf
<1> QED BY <1>2, <1>4, <1>5

\* A chunk of selections: their keys are stored, and the selected videos are accepted ones.
LEMMA SelectionLoads ==
  ASSUME TInv, DInv, NEW w \in Workers, OnItsOwn(w), First(w), RunChunk(w), wk[w].stage = Selection
  PROVE  Loads(TaskId(w), wk'[w], sess'[w], db)
<1>0. PICK t \in Tasks, c \in Nat \ {0} : t = TaskId(w) /\ c = wk[w].chunk
  BY Typed DEF OnItsOwn
<1>1. /\ wk[w].pc = "phase" /\ wk'[w].pc = "phase" /\ ChunksLeft(w) /\ Busy(w)
      /\ wk'[w].stage = Selection /\ wk'[w].ids = wk[w].ids /\ wk'[w].chunk = c + 1
      /\ sess'[w].rows = sess[w].rows \union Inserted(w)
  BY <1>0, RunChunkEffect DEF GoesOn, OnItsOwn
<1>2. /\ wk[w].ids = {} /\ VideosOf(sess[w].rows, Selection) \subseteq Selected(t)
      /\ \A row \in RowsBefore(t, Selection, c) :
           <<Selection, row.video>> \in Keys(db \union sess[w].rows)
      /\ \A s \in Stages \ {Selection} : InStage(sess[w].rows, s) = {}
  <2>1. Loads(t, wk[w], sess[w], db)
    BY <1>0 DEF First
  <2>2. /\ SoFar(t, wk[w], Selection) = RowsBefore(t, Selection, c)
        /\ \A s \in Stages \ {Selection} : SoFar(t, wk[w], s) = {}
    BY <1>0, <1>1 DEF SoFar, Stages, Selection, OddTagging, AutoLabeling
  <2> QED BY <1>1, <2>1, <2>2 DEF Loads, Recorded
<1>3. /\ c <= Len(Raw[t][Selection]) /\ Chunk(w) = Raw[t][Selection][c]
      /\ Chunk(w) \subseteq Rows(t, Selection)
  BY <1>0, <1>1, ChunkTyped DEF ChunksLeft, Chunk
<1>4. ValidRows(w) = {r \in Raw[t][Selection][c] : r.errors = 0}
  BY <1>2, <1>3 DEF ValidRows, Valid, Linked
<1>5. \A rec \in Inserted(w) : rec.stage = Selection /\ rec.video \in Selected(t)
  BY <1>0, <1>3, <1>4 DEF Inserted, ChunkRecords, Record, Selected, Accepted
<1>6. VideosOf(sess'[w].rows, Selection) \subseteq Selected(t)
  BY <1>1, <1>2, <1>5 DEF VideosOf
<1>7. ASSUME NEW row \in RowsBefore(t, Selection, c + 1)
      PROVE  <<Selection, row.video>> \in Keys(db \union sess'[w].rows)
  <2>1. CASE row \in RowsBefore(t, Selection, c)
    BY <1>1, <1>2, <2>1 DEF Keys
  <2>2. CASE row \in ValidRows(w)
    <3>1. Record(t, Selection, row) \in ChunkRecords(w)
      BY <1>0, <2>2 DEF ChunkRecords
    <3>2. KeyOf(Record(t, Selection, row)) = <<Selection, row.video>>
      BY DEF KeyOf, Record
    <3> QED BY <1>1, <3>1, <3>2, KeysAreStored
  <2>3. RowsBefore(t, Selection, c + 1) = RowsBefore(t, Selection, c) \union ValidRows(w)
    BY <1>3, <1>4, ChunkByChunk DEF Stages
  <2> QED BY <1>7, <2>1, <2>2, <2>3
<1>8. /\ SoFar(t, wk'[w], Selection) = RowsBefore(t, Selection, c + 1)
      /\ \A s \in Stages \ {Selection} : SoFar(t, wk'[w], s) = {}
  BY <1>1 DEF SoFar, Stages, Selection, OddTagging, AutoLabeling
<1>9. \A s \in Stages \ {Selection} : InStage(sess'[w].rows, s) = {}
  BY <1>1, <1>2, <1>5 DEF InStage
<1> QED BY <1>0, <1>1, <1>2, <1>6, <1>7, <1>8, <1>9 DEF Loads, Recorded

\* A chunk of odd tags or labels: the records of its acceptable rows that have a selection.
LEMMA TagsLoad ==
  ASSUME TInv, DInv, NEW w \in Workers, OnItsOwn(w), First(w), RunChunk(w), wk[w].stage # Selection
  PROVE  Loads(TaskId(w), wk'[w], sess'[w], db)
<1>0. PICK here \in Stages \ {Selection}, t \in Tasks, c \in Nat \ {0} :
        here = wk[w].stage /\ t = TaskId(w) /\ c = wk[w].chunk
  BY Typed DEF OnItsOwn
<1> DEFINE ids == VideosOf(sess[w].rows, Selection)
<1>1. /\ wk[w].pc = "phase" /\ wk'[w].pc = "phase" /\ ChunksLeft(w) /\ Busy(w)
      /\ wk'[w].stage = here /\ wk'[w].ids = wk[w].ids /\ wk'[w].chunk = c + 1
      /\ sess'[w].rows = sess[w].rows \union Inserted(w)
  BY <1>0, RunChunkEffect DEF GoesOn, OnItsOwn
<1>2. Loads(t, wk[w], sess[w], db)
  BY <1>0 DEF First
<1>3. /\ \A s \in Stages : s # here => SoFar(t, wk'[w], s) = SoFar(t, wk[w], s)
      /\ SoFar(t, wk[w], here) = RowsBefore(t, here, c)
      /\ SoFar(t, wk'[w], here) = RowsBefore(t, here, c + 1)
  BY <1>0, <1>1 DEF SoFar, Stages, Selection, OddTagging, AutoLabeling
<1>4. /\ c <= Len(Raw[t][here]) /\ Chunk(w) = Raw[t][here][c]
  BY <1>0, <1>1 DEF ChunksLeft, Chunk
<1> DEFINE sound == {r \in Raw[t][here][c] : r.errors = 0}
<1>5. RowsBefore(t, here, c + 1) = RowsBefore(t, here, c) \union sound
  BY <1>4, ChunkByChunk
<1>6. ChunkRecords(w) = Recorded(ids, t, here, sound)
  <2>1. wk[w].ids = ids
    BY <1>0, <1>1, <1>2 DEF Loads
  <2>2. ValidRows(w) = {r \in sound : ids = {} \/ r.video \in ids}
    BY <1>4, <2>1 DEF ValidRows, Valid, Linked
  <2> HIDE DEF ids, sound
  <2> QED BY <1>0, <2>2 DEF ChunkRecords, Recorded
<1>7. /\ \A rec \in ChunkRecords(w) : rec.stage = here
      /\ Inserted(w) \subseteq ChunkRecords(w)
      /\ \A rec \in ChunkRecords(w) : rec \notin Inserted(w) => rec \in sess[w].rows
  BY <1>0, <1>1, ChunkWrites, IgnoresKnown
<1>8. VideosOf(sess'[w].rows, Selection) = ids
  BY <1>0, <1>1, <1>7 DEF VideosOf
<1>9. InStage(sess'[w].rows, here) = Recorded(ids, t, here, RowsBefore(t, here, c + 1))
  <2>1. InStage(sess'[w].rows, here) = InStage(sess[w].rows, here) \union ChunkRecords(w)
    BY <1>1, <1>7 DEF InStage
  <2>2. InStage(sess[w].rows, here) = Recorded(ids, t, here, RowsBefore(t, here, c))
    BY <1>0, <1>1, <1>2, <1>3 DEF Loads
  <2>3. Recorded(ids, t, here, RowsBefore(t, here, c) \union sound) =
          Recorded(ids, t, here, RowsBefore(t, here, c)) \union Recorded(ids, t, here, sound)
    <3> HIDE DEF ids, sound
    <3> QED BY DEF Recorded
  <2> HIDE DEF ids, sound
  <2> QED BY <1>5, <1>6, <2>1, <2>2, <2>3
<1>10. ASSUME NEW s \in Stages \ {Selection}
       PROVE  InStage(sess'[w].rows, s) = Recorded(ids, t, s, SoFar(t, wk'[w], s))
  <2>1. CASE s = here
    BY <1>3, <1>9, <2>1
  <2>2. CASE s # here
    <3>1. InStage(sess'[w].rows, s) = InStage(sess[w].rows, s)
      BY <1>1, <1>7, <2>2 DEF InStage
    <3> QED BY <1>1, <1>2, <1>3, <2>2, <3>1 DEF Loads
  <2> QED BY <2>1, <2>2
<1>11. ASSUME NEW row \in SoFar(t, wk'[w], Selection)
       PROVE  <<Selection, row.video>> \in Keys(db \union sess'[w].rows)
  <2>1. row \in SoFar(t, wk[w], Selection)
    BY <1>0, <1>3, <1>11 DEF Stages
  <2>2. <<Selection, row.video>> \in Keys(db \union sess[w].rows)
    BY <1>1, <1>2, <2>1 DEF Loads
  <2> QED BY <1>1, <2>2 DEF Keys
<1>12. ids \subseteq Selected(t) /\ wk'[w].ids = ids
  BY <1>0, <1>1, <1>2 DEF Loads
<1> HIDE DEF ids
<1> QED BY <1>0, <1>1, <1>8, <1>10, <1>11, <1>12 DEF Loads

\* After the last chunk of a phase, all of its stage is taken.
LEMMA PhaseLoads ==
  ASSUME TInv, NEW w \in Workers, OnItsOwn(w), First(w), EndPhase(w)
  PROVE  Loads(TaskId(w), wk'[w], sess'[w], db)
<1>0. PICK here \in Stages, t \in Tasks, c \in Nat \ {0} :
        here = wk[w].stage /\ t = TaskId(w) /\ c = wk[w].chunk
  BY Typed DEF OnItsOwn
<1>1. /\ wk[w].pc = "phase" /\ PhaseIsOver(w) /\ AfterPhase(w, Checkpoint(w))
      /\ Checkpoint(w) \in TaskDocs /\ Busy(w) /\ jobs' = jobs /\ overlapped' = overlapped
      /\ sess' = sess
  BY EndPhaseEffect
<1>2. /\ GoesOn(w, NextCall(here)) /\ wk'[w].chunk = 1 /\ wk'[w].ids = wk[w].ids
      /\ wk'[w].stage = IF here = AutoLabeling THEN here ELSE here + 1
  BY <1>0, <1>1, AfterPhaseEffect
<1>3. wk'[w].pc = NextCall(here)
  BY <1>2 DEF GoesOn
<1>4. Loads(t, wk[w], sess[w], db)
  BY <1>0 DEF First
<1>5. RowsBefore(t, here, c) = Accepted(t, here)
  BY <1>0, <1>1, ChunkByChunk DEF PhaseIsOver, ChunksLeft
<1>6. ASSUME NEW s \in Stages PROVE SoFar(t, wk'[w], s) = SoFar(t, wk[w], s)
  <2>1. RowsBefore(t, s, 1) = {}
    BY ChunkByChunk
  <2>2. SoFar(t, wk[w], s) = IF s <= here THEN Accepted(t, s) ELSE {}
    BY <1>0, <1>1, <1>5 DEF SoFar, Stages, Selection, OddTagging, AutoLabeling
  <2>3. CASE here = AutoLabeling
    BY <1>3, <2>2, <2>3 DEF SoFar, NextCall, Stages, Selection, OddTagging, AutoLabeling
  <2>4. CASE here # AutoLabeling
    <3>1. wk'[w].pc \in {"ids", "phase"} /\ wk'[w].stage = here + 1
      BY <1>2, <1>3, <2>4 DEF NextCall
    <3> QED BY <1>2, <2>1, <2>2, <3>1 DEF SoFar, Stages, Selection, OddTagging, AutoLabeling
  <2> QED BY <2>3, <2>4
<1>7. /\ wk'[w].pc \in {"ids", "phase", "result"}
      /\ wk'[w].pc = "ids" => wk'[w].stage = OddTagging
      /\ wk'[w].pc = "phase" => here # Selection /\ wk'[w].stage # Selection
  BY <1>2, <1>3 DEF NextCall, Stages, Selection, OddTagging, AutoLabeling
<1>8. SoFar(t, wk'[w], Selection) = SoFar(t, wk[w], Selection)
  BY <1>6 DEF Stages
<1> QED BY <1>0, <1>1, <1>2, <1>4, <1>6, <1>7, <1>8 DEF Loads

-----------------------------------------------------------------------------
\* No phase of the first run is skipped, and no later run is in one.
LEMMA PhasesRunOnce ==
  ASSUME TInv, NEW w \in Workers, wk[w].pc = "phase"
  PROVE  /\ First(w) => ShouldRunPhase(wk[w].cur, wk[w].stage)
         /\ Later(w) => ~ShouldRunPhase(wk[w].cur, wk[w].stage)
<1>1. wk[w].stage \in Nat /\ wk[w].stage <= AutoLabeling
  BY Typed DEF Stages, Selection, OddTagging, AutoLabeling
<1>2. First(w) => wk[w].cur.last = wk[w].stage - 1
  BY DEF First, Counts
<1>3. Later(w) => wk[w].cur.last = AutoLabeling
  BY DEF Later, Again, Told
<1> QED BY <1>1, <1>2, <1>3 DEF ShouldRunPhase, AutoLabeling

\* The calls before the phases.
LEMMA FirstStarts ==
  ASSUME TInv, DInv, NEW w \in Workers, OnItsOwn(w), First(w), Setup(w) \/ FindTask(w) \/ StartTask(w)
  PROVE  First(w)'
<1>0. PICK t \in Tasks : t = TaskId(w)
  BY Typed DEF OnItsOwn
<1>1. Counts(wk[w], sess[w], tasks[t]) /\ Loads(t, wk[w], sess[w], db)
  BY <1>0 DEF First
<1>2. CASE Setup(w)
  <2>1. /\ GoesOn(w, "find") /\ wk[w].pc = "setup" /\ SameTables /\ sess' = sess /\ tasks' = tasks
        /\ wk'[w].pc = "find" /\ wk'[w].ids = wk[w].ids
    BY <1>2, SetupEffect DEF SamePlace, GoesOn
  <2>2. Counts(wk'[w], sess'[w], tasks'[t]) /\ Loads(t, wk'[w], sess'[w], db)
    BY <1>1, <2>1 DEF Counts, Loads
  <2> QED BY <1>0, <2>1, <2>2, FirstGoesOn
<1>3. CASE FindTask(w)
  <2>1. /\ GoesOn(w, "start") /\ wk[w].pc = "find" /\ SameTables /\ sess' = sess /\ tasks' = tasks
        /\ wk'[w].pc = "start" /\ wk'[w].ids = wk[w].ids
        /\ wk'[w].task = StartProcessing(tasks[t])
    BY <1>0, <1>3, FindTaskEffect DEF SamePlace, GoesOn
  <2>2. wk'[w].task.last = tasks[t].last
    BY <1>0, <2>1, Typed, TaskWrites DEF OnItsOwn
  <2>3. Counts(wk'[w], sess'[w], tasks'[t]) /\ Loads(t, wk'[w], sess'[w], db)
    BY <1>1, <2>1, <2>2 DEF Counts, Loads
  <2> QED BY <1>0, <2>1, <2>3, FirstGoesOn
<1>4. CASE StartTask(w)
  <2>1. /\ GoesOn(w, "phase") /\ wk[w].pc = "start" /\ SameTables /\ sess' = sess
        /\ Saves(w, wk[w].task) /\ wk'[w].pc = "phase"
        /\ wk'[w].task = wk[w].task /\ wk'[w].cur = wk[w].task /\ SamePlace(wk'[w], wk[w])
    BY <1>4, StartTaskEffect DEF GoesOn
  <2>2. /\ wk'[w].stage = Selection /\ wk'[w].loaded = 0 /\ wk'[w].rejected = 0
        /\ wk'[w].chunk = 1 /\ sess'[w].rows = {} /\ \A s \in Stages : sess'[w].rejs[s] = 0
        /\ wk[w].task.status = "processing" /\ wk'[w].ids = {}
    BY <1>1, <2>1 DEF DInv, Placed, SamePlace, EmptySession, Loads
  <2>3. tasks'[t] = wk[w].task
    BY <1>0, <2>1, SameStored
  <2>4. ASSUME NEW s \in Stages PROVE Exact(ProgressSoFar(wk'[w], s), sess'[w], s)
    <3>1. ProgressSoFar(wk'[w], s) = NoProgress
      BY <2>2 DEF ProgressSoFar, NoProgress, Stages, Selection, OddTagging, AutoLabeling
    <3>2. Cardinality(InStage(sess'[w].rows, s)) = 0
      BY <2>2, EmptyCounts
    <3> QED BY <2>2, <3>1, <3>2 DEF Exact, NoProgress
  <2>5. Counts(wk'[w], sess'[w], tasks'[t])
    BY <1>1, <2>1, <2>2, <2>3, <2>4 DEF Counts, Selection
  <2>6. \A s \in Stages : SoFar(t, wk'[w], s) = {}
    BY <2>1, <2>2, ChunkByChunk DEF SoFar, Stages, Selection, OddTagging, AutoLabeling
  <2>7. Loads(t, wk'[w], sess'[w], db)
    BY <2>1, <2>2, <2>6 DEF Loads, VideosOf, InStage, Recorded, Stages
  <2> QED BY <1>0, <2>1, <2>5, <2>7, FirstGoesOn
<1> QED BY <1>2, <1>3, <1>4

\* The phases and the ids.
LEMMA FirstLoads ==
  ASSUME TInv, DInv, KInv, NEW w \in Workers, OnItsOwn(w), First(w),
         InsertRow(w) \/ RunChunk(w) \/ EndPhase(w) \/ ReadIds(w)
  PROVE  First(w)'
<1>0. PICK t \in Tasks : t = TaskId(w)
  BY Typed DEF OnItsOwn
<1>1. Counts(wk[w], sess[w], tasks[t]) /\ Loads(t, wk[w], sess[w], db)
  BY <1>0 DEF First
<1>2. CASE InsertRow(w)
  <2>1. /\ GoesOn(w, "phase") /\ wk' = wk /\ SameTables /\ tasks' = tasks
        /\ sess'[w].rows = sess[w].rows /\ sess'[w].rejs = sess[w].rejs
    BY <1>2, InsertRowEffect
  <2>2. Counts(wk'[w], sess'[w], tasks'[t])
    BY <1>1, <2>1 DEF Counts, Exact
  <2>3. Loads(t, wk'[w], sess'[w], db)
    BY <1>1, <2>1 DEF Loads
  <2> QED BY <1>0, <2>1, <2>2, <2>3, FirstGoesOn
<1>3. CASE RunChunk(w)
  <2>1. GoesOn(w, "phase") /\ SameTables
    BY <1>3, RunChunkEffect
  <2>2. Counts(wk'[w], sess'[w], tasks'[t]) /\ Loads(t, wk'[w], sess'[w], db)
    BY <1>0, <1>3, ChunkExact, SelectionLoads, TagsLoad
  <2> QED BY <1>0, <2>1, <2>2, FirstGoesOn
<1>4. CASE EndPhase(w)
  <2>1. GoesOn(w, NextCall(wk[w].stage)) /\ SameTables
    BY <1>4, EndPhaseEffect, AfterPhaseEffect
  <2>2. Counts(wk'[w], sess'[w], tasks'[t]) /\ Loads(t, wk'[w], sess'[w], db)
    BY <1>0, <1>4, PhaseExact, PhaseLoads
  <2> QED BY <1>0, <2>1, <2>2, FirstGoesOn
<1>5. CASE ReadIds(w)
  <2>1. /\ GoesOn(w, "phase") /\ wk[w].pc = "ids" /\ wk'[w].pc = "phase" /\ SameTables
        /\ wk'[w].cur = wk[w].cur /\ wk'[w].task = wk[w].task /\ wk'[w].stage = wk[w].stage
        /\ wk'[w].chunk = wk[w].chunk
        /\ wk'[w].loaded = wk[w].loaded /\ wk'[w].rejected = wk[w].rejected
        /\ wk'[w].ids = FindVideos(w, Selection, t)
        /\ sess'[w].rows = sess[w].rows /\ sess'[w].rejs = sess[w].rejs /\ tasks' = tasks
    BY <1>0, <1>5, ReadIdsEffect DEF GoesOn, SameObjects
  <2>2. wk'[w].ids = VideosOf(sess[w].rows, Selection)
    BY <1>0, <2>1, OwnVideos DEF First, Untouched
  <2>3. Counts(wk'[w], sess'[w], tasks'[t])
    <3>1. \A s \in Stages : ProgressSoFar(wk'[w], s) = ProgressSoFar(wk[w], s)
      BY <2>1 DEF ProgressSoFar
    <3> QED BY <1>1, <2>1, <3>1 DEF Counts, Exact
  <2>4. Loads(t, wk'[w], sess'[w], db)
    <3>1. \A s \in Stages : SoFar(t, wk'[w], s) = SoFar(t, wk[w], s)
      BY <2>1 DEF SoFar
    <3>2. wk[w].stage = OddTagging /\ OddTagging # Selection /\ Selection \in Stages
      BY <1>1, <2>1 DEF Loads, Stages, OddTagging, Selection
    <3> QED BY <1>1, <2>1, <2>2, <3>1, <3>2 DEF Loads
  <2> QED BY <1>0, <2>1, <2>3, <2>4, FirstGoesOn
<1> QED BY <1>2, <1>3, <1>4, <1>5

\* The end of a run that succeeds, up to the commit.
LEMMA FirstEnds ==
  ASSUME TInv, DInv, KInv, NEW w \in Workers, OnItsOwn(w), First(w), BuildResult(w) \/ Complete(w)
  PROVE  First(w)'
<1>0. PICK t \in Tasks : t = TaskId(w)
  BY Typed DEF OnItsOwn
<1>1. Counts(wk[w], sess[w], tasks[t]) /\ Loads(t, wk[w], sess[w], db)
  BY <1>0 DEF First
<1>2. CASE BuildResult(w)
  <2>1. /\ GoesOn(w, "complete") /\ wk[w].pc = "result" /\ wk'[w].pc = "complete" /\ SameTables
        /\ sess'[w].rows = sess[w].rows
    BY <1>2, BuildResultEffect DEF GoesOn
  <2>2. \A s \in Stages : SoFar(t, wk'[w], s) = SoFar(t, wk[w], s)
    BY <2>1 DEF SoFar
  <2>3. Loads(t, wk'[w], sess'[w], db)
    BY <1>1, <2>1, <2>2 DEF Loads, Stages
  <2> QED BY <1>0, <1>2, <2>1, <2>3, ResultExact, FirstGoesOn
<1>3. CASE Complete(w)
  <2>1. /\ GoesOn(w, "commit") /\ wk[w].pc = "complete" /\ wk'[w].pc = "commit" /\ SameTables
        /\ sess' = sess /\ Saves(w, wk[w].task) /\ wk'[w].task = wk[w].task
    BY <1>3, CompleteEffect DEF GoesOn, SameObjects
  <2>2. tasks'[t] = wk[w].task
    BY <1>0, <2>1, SameStored
  <2>3. Counts(wk'[w], sess'[w], tasks'[t])
    BY <1>1, <2>1, <2>2 DEF Counts
  <2>4. \A s \in Stages : SoFar(t, wk'[w], s) = SoFar(t, wk[w], s)
    BY <2>1 DEF SoFar
  <2>5. Loads(t, wk'[w], sess'[w], db)
    BY <1>1, <2>1, <2>4 DEF Loads, Stages
  <2> QED BY <1>0, <2>1, <2>3, <2>5, FirstGoesOn
<1> QED BY <1>2, <1>3

\* A call raises: either nothing was saved yet, or FAILED will be saved on a task object without
\* checkpoints; the rows are rolled back.
LEMMA FirstFails ==
  ASSUME FailsEarly, TInv, DInv, NEW w \in Workers, OnItsOwn(w), First(w),
         Deadlock(w) \/ RaiseInChunk(w) \/ SaveFailed(w) \/ InfraError(w)
  PROVE  First(w)'
<1>0. PICK t \in Tasks : t = TaskId(w)
  BY Typed DEF OnItsOwn
<1>1. Counts(wk[w], sess[w], tasks[t])
  BY <1>0 DEF First
<1>2. CASE Deadlock(w) \/ RaiseInChunk(w)
  <2>1. /\ GoesOn(w, "failed") /\ wk[w].pc = "phase" /\ wk'[w].pc = "failed" /\ SameTables
        /\ tasks' = tasks /\ wk'[w].task = wk[w].task
    BY <1>2, DeadlockEffect, RaiseInChunkEffect DEF GoesOn, SameObjects
  <2>2. Counts(wk'[w], sess'[w], tasks'[t]) /\ Loads(t, wk'[w], sess'[w], db)
    BY <1>1, <2>1 DEF Counts, Loads
  <2> QED BY <1>0, <2>1, <2>2, FirstGoesOn
<1>3. CASE SaveFailed(w)
  <2>1. /\ GoesOn(w, "rollback") /\ wk[w].pc = "failed" /\ wk'[w].pc = "rollback" /\ SameTables
        /\ Saves(w, FailWith(wk[w].task))
    BY <1>3, SaveFailedEffect DEF GoesOn
  <2>2. tasks'[t].last = wk[w].task.last /\ tasks'[t].status = "failed"
    BY <1>0, <2>1, SameStored, Typed, TaskWrites
  <2>3. Counts(wk'[w], sess'[w], tasks'[t]) /\ Loads(t, wk'[w], sess'[w], db)
    BY <1>1, <2>1, <2>2 DEF Counts, Loads
  <2> QED BY <1>0, <2>1, <2>3, FirstGoesOn
<1>4. CASE InfraError(w)
  <2> DEFINE p == IF wk[w].pc \in {"phase", "ids", "result", "complete"} THEN "failed"
                  ELSE "rollback"
  <2>1. /\ GoesOn(w, p) /\ wk[w].pc \in (Faults \intersect Calls) \ {"setup"}
        /\ SameObjects(wk'[w], wk[w]) /\ wk'[w].pc = p
    BY <1>4, InfraErrorEffect DEF GoesOn
  <2>2. /\ wk[w].pc \in {"find", "start", "phase", "ids"}
        /\ wk[w].pc \in {"find", "start"} => p = "rollback"
        /\ wk[w].pc \in {"phase", "ids"} => p = "failed"
    BY <2>1 DEF FailsEarly
  <2> HIDE DEF p
  <2>3. /\ SameTables
        /\ \/ tasks' = tasks
           \/ wk[w].pc = "phase" /\ Saves(w, Checkpoint(w))
           \/ wk[w].pc = "start" /\ Saves(w, wk[w].task)
    BY <1>4, <2>2, InfraErrorEffect DEF PhaseIsOver, InPhase
  <2>4. /\ \A doc : Saves(w, doc) => tasks'[t] = doc
        /\ tasks' = tasks => tasks'[t] = tasks[t]
    BY <1>0, <2>1, <2>3, SameStored
  <2>5. /\ wk[w].pc = "phase" => Checkpoint(w).status = "processing"
        /\ wk[w].pc = "start" => wk[w].task.status = "processing"
    BY CheckpointTyped DEF DInv, Placed
  <2>6. tasks'[t].status # "completed" /\ (wk[w].pc \in {"find", "start"} => tasks'[t].last = 0)
    BY <1>1, <2>2, <2>3, <2>4, <2>5 DEF Counts
  <2>7. Counts(wk'[w], sess'[w], tasks'[t]) /\ Loads(t, wk'[w], sess'[w], db)
    BY <1>1, <2>1, <2>2, <2>6 DEF Counts, Loads, SameObjects
  <2> QED BY <1>0, <2>1, <2>3, <2>7, FirstGoesOn
<1> QED BY <1>2, <1>3, <1>4

\* The commit stores what the session holds: from now on, the task is known.
LEMMA FirstCommits ==
  ASSUME TInv, DInv, NEW w \in Workers, OnItsOwn(w), First(w), Commit(w)
  PROVE  Later(w)'
<1>0. PICK t \in Tasks : t = TaskId(w)
  BY Typed DEF OnItsOwn
<1> DEFINE rows == sess[w].rows
           rejs == sess[w].rejs
<1>1. /\ wk[w].pc = "commit" /\ GoesOn(w, "ack") /\ tasks' = tasks /\ Commits(w)
      /\ sess'[w] = EmptySession
  BY CommitEffect
<1>2. /\ wk'[w].pc = "ack" /\ TaskId(w)' = t /\ db' = db \union rows
      /\ \A rec \in rows : rec.task = t
  BY <1>0, <1>1 DEF GoesOn, Commits, TaskId, DInv, Placed
<1>3. Untouched(RecordsOf(t), dbRejs[t]) /\ Counts(wk[w], sess[w], tasks[t])
      /\ Loads(t, wk[w], sess[w], db)
  BY <1>0 DEF First
<1>4. RecordsOf(t)' = rows
  BY <1>2, <1>3 DEF RecordsOf, Untouched
<1>5. dbRejs'[t] = rejs
  <2>1. /\ dbRejs \in [Tasks -> [Stages -> Nat]] /\ dbRejs[t] \in [Stages -> Nat]
        /\ rejs \in [Stages -> Nat]
    BY Typed DEF TInv, TypeOK
  <2>2. dbRejs'[t] = [s \in Stages |-> dbRejs[t][s] + rejs[s]]
    BY <1>0, <1>1, <2>1 DEF Commits
  <2>3. \A s \in Stages : dbRejs[t][s] + rejs[s] = rejs[s]
    BY <1>3, <2>1 DEF Untouched
  <2> QED BY <2>1, <2>2, <2>3
<1>6. Told(tasks[t], rows, rejs) /\ tasks[t].result = ResultOf(rows, rejs)
  BY <1>1, <1>3 DEF Counts
<1>7. Durable(t, rows, db \union rows)
  <2> DEFINE ids == VideosOf(rows, Selection)
  <2>1. \A s \in Stages : SoFar(t, wk[w], s) = Accepted(t, s)
    BY <1>1 DEF SoFar
  <2>2. \A s : Recorded(ids, t, s, Accepted(t, s)) = Expected(ids, t, s)
    BY DEF Recorded, Expected, LinkedTo
  <2>3. /\ ids \subseteq Selected(t)
        /\ \A row \in Accepted(t, Selection) : <<Selection, row.video>> \in Keys(db \union rows)
        /\ \A s \in Stages \ {Selection} : InStage(rows, s) = Expected(ids, t, s)
    BY <1>1, <1>3, <2>1, <2>2 DEF Loads, Stages
  <2> QED BY <2>3 DEF Durable, Selected
<1>8. Known(t, tasks[t], rows, rejs, db \union rows)
  BY <1>6, <1>7 DEF Known
<1>9. Again(t, wk'[w], sess'[w], rows, rejs)
  BY <1>1, <1>2 DEF Again, EmptySession
<1> HIDE DEF rows, rejs
<1> QED BY <1>1, <1>2, <1>4, <1>5, <1>8, <1>9 DEF Later

-----------------------------------------------------------------------------
(***************************************************************************)
(* A run after the commit.                                                 *)
(***************************************************************************)
\* It loads nothing: every phase is behind its checkpoint.
LEMMA LaterSkips ==
  ASSUME TInv, NEW w \in Workers, Later(w)
  PROVE  /\ ~InsertRow(w) /\ ~Deadlock(w) /\ ~RunChunk(w) /\ ~RaiseInChunk(w) /\ ~EndPhase(w)
         /\ ~PhaseIsOver(w)
<1>1. ~InPhase(w)
  BY PhasesRunOnce DEF InPhase
<1> QED BY <1>1 DEF InsertRow, Deadlock, WaitsFor, Inserting, RunChunk, RaiseInChunk, EndPhase,
                    PhaseIsOver

\* The calls before the phases, and the phases.
LEMMA LaterStarts ==
  ASSUME TInv, DInv, NEW w \in Workers, OnItsOwn(w), Later(w),
         Setup(w) \/ FindTask(w) \/ StartTask(w) \/ SkipPhase(w)
  PROVE  Later(w)'
<1>0. PICK t \in Tasks : t = TaskId(w)
  BY Typed DEF OnItsOwn
<1>1. /\ Told(tasks[t], RecordsOf(t), dbRejs[t])
      /\ Again(t, wk[w], sess[w], RecordsOf(t), dbRejs[t])
  BY <1>0 DEF Later, Known
<1>2. CASE Setup(w)
  <2>1. /\ GoesOn(w, "find") /\ wk'[w].pc = "find" /\ SameTables /\ sess' = sess /\ tasks' = tasks
    BY <1>2, SetupEffect DEF GoesOn
  <2>2. Again(t, wk'[w], sess'[w], RecordsOf(t), dbRejs[t])
    BY <1>1, <2>1 DEF Again
  <2> QED BY <1>0, <2>1, <2>2, LaterGoesOn
<1>3. CASE FindTask(w)
  <2>1. /\ GoesOn(w, "start") /\ wk'[w].pc = "start" /\ SameTables /\ sess' = sess /\ tasks' = tasks
        /\ wk'[w].task = StartProcessing(tasks[t])
    BY <1>0, <1>3, FindTaskEffect DEF GoesOn
  <2>2. wk'[w].task.last = tasks[t].last /\ wk'[w].task.prog = tasks[t].prog
    BY <1>0, <2>1, Typed, TaskWrites DEF OnItsOwn
  <2>3. Again(t, wk'[w], sess'[w], RecordsOf(t), dbRejs[t])
    BY <1>1, <2>1, <2>2 DEF Again, Told
  <2> QED BY <1>0, <2>1, <2>3, LaterGoesOn
<1>4. CASE StartTask(w)
  <2>1. /\ GoesOn(w, "phase") /\ wk[w].pc = "start" /\ wk'[w].pc = "phase" /\ SameTables
        /\ sess' = sess /\ Saves(w, wk[w].task)
        /\ wk'[w].task = wk[w].task /\ wk'[w].cur = wk[w].task
    BY <1>4, StartTaskEffect DEF GoesOn
  <2>2. tasks'[t] = wk[w].task /\ wk[w].task.status = "processing"
    BY <1>0, <2>1, SameStored DEF DInv, Placed
  <2>3. Again(t, wk'[w], sess'[w], RecordsOf(t), dbRejs[t])
    BY <1>1, <2>1 DEF Again
  <2>4. Told(tasks'[t], RecordsOf(t), dbRejs[t])
    BY <1>1, <2>1, <2>2 DEF Again
  <2> QED BY <1>0, <2>1, <2>2, <2>3, <2>4, LaterGoesOn
<1>5. CASE SkipPhase(w)
  <2>1. /\ wk[w].pc = "phase" /\ AfterPhase(w, wk[w].cur) /\ Busy(w) /\ jobs' = jobs
        /\ overlapped' = overlapped /\ sess' = sess /\ tasks' = tasks /\ SameTables
        /\ wk[w].cur \in TaskDocs
    BY <1>5, SkipPhaseEffect, Typed
  <2>2. /\ GoesOn(w, NextCall(wk[w].stage)) /\ wk'[w].cur = wk[w].cur
        /\ wk'[w].task \in {wk[w].task, wk[w].cur}
    BY <2>1, AfterPhaseEffect
  <2>3. wk'[w].pc \in {"phase", "ids", "result"}
    BY <2>2 DEF GoesOn, NextCall
  <2>4. Again(t, wk'[w], sess'[w], RecordsOf(t), dbRejs[t])
    BY <1>1, <2>1, <2>2, <2>3 DEF Again
  <2> QED BY <1>0, <2>1, <2>2, <2>4, LaterGoesOn
<1> QED BY <1>2, <1>3, <1>4, <1>5

\* What it finds is what the first run has stored, also in an old snapshot.
LEMMA LaterVideos ==
  ASSUME NEW w \in Workers, NEW t, t = TaskId(w), Later(w)
  PROVE  /\ {rec \in Snapshot(w) : rec.task = t} = RecordsOf(t)
         /\ \A s : FindVideos(w, s, TaskId(w)) = VideosOf(RecordsOf(t), s)
<1>1. /\ sess[w].rows = {} /\ (sess[w].read => {rec \in sess[w].snap : rec.task = t} = RecordsOf(t))
  BY DEF Later, Again
<1>2. {rec \in Snapshot(w) : rec.task = t} = RecordsOf(t)
  BY <1>1 DEF Snapshot, RecordsOf
<1>3. \A s : {r \in Snapshot(w) \union sess[w].rows : r.stage = s /\ r.task = t} =
             {r \in RecordsOf(t) : r.stage = s}
  BY <1>1, <1>2
<1> QED BY <1>2, <1>3 DEF FindVideos, VideosOf

LEMMA LaterReads ==
  ASSUME TInv, DInv, NEW w \in Workers, OnItsOwn(w), Later(w), ReadIds(w) \/ BuildResult(w)
  PROVE  Later(w)'
<1>0. PICK t \in Tasks : t = TaskId(w)
  BY Typed DEF OnItsOwn
<1>1. Again(t, wk[w], sess[w], RecordsOf(t), dbRejs[t])
  BY <1>0 DEF Later
<1>2. /\ {rec \in Snapshot(w) : rec.task = t} = RecordsOf(t)
      /\ \A s : FindVideos(w, s, TaskId(w)) = VideosOf(RecordsOf(t), s)
  BY <1>0, LaterVideos
<1>3. CASE ReadIds(w)
  <2>1. /\ GoesOn(w, "phase") /\ wk[w].pc = "ids" /\ wk'[w].pc = "phase" /\ SameTables
        /\ wk'[w].cur = wk[w].cur /\ wk'[w].task = wk[w].task
        /\ sess'[w].rows = sess[w].rows /\ sess'[w].rejs = sess[w].rejs
        /\ sess'[w].snap = Snapshot(w) /\ tasks' = tasks
    BY <1>3, ReadIdsEffect DEF GoesOn, SameObjects
  <2>2. Again(t, wk'[w], sess'[w], RecordsOf(t), dbRejs[t])
    BY <1>1, <1>2, <2>1 DEF Again
  <2> QED BY <1>0, <2>1, <2>2, LaterGoesOn
<1>4. CASE BuildResult(w)
  <2>1. /\ GoesOn(w, "complete") /\ wk[w].pc = "result" /\ wk'[w].pc = "complete" /\ SameTables
        /\ wk'[w].task = CompleteWith(wk[w].task, Result(w))
        /\ wk'[w].task.last = wk[w].task.last /\ wk'[w].task.prog = wk[w].task.prog
        /\ sess'[w].rows = sess[w].rows /\ sess'[w].rejs = sess[w].rejs
        /\ sess'[w].snap = Snapshot(w) /\ tasks' = tasks
    BY <1>4, BuildResultEffect DEF GoesOn
  <2>2. Told(wk[w].task, RecordsOf(t), dbRejs[t])
    BY <1>1, <2>1 DEF Again
  <2>3. wk'[w].task.result = ResultOf(RecordsOf(t), dbRejs[t])
    <3>1. wk'[w].task.result = Result(w)
      BY <2>1, Typed DEF CompleteWith, TaskDocs
    <3> QED BY <1>2, <2>2, <3>1, ResultTold
  <2>4. Again(t, wk'[w], sess'[w], RecordsOf(t), dbRejs[t])
    BY <1>1, <1>2, <2>1, <2>2, <2>3 DEF Again, Told
  <2> QED BY <1>0, <2>1, <2>4, LaterGoesOn
<1> QED BY <1>3, <1>4

\* COMPLETED with the same result, or FAILED with the full checkpoint; the commit stores nothing.
LEMMA LaterEnds ==
  ASSUME TInv, DInv, NEW w \in Workers, OnItsOwn(w), Later(w),
         Complete(w) \/ SaveFailed(w) \/ Commit(w)
  PROVE  Later(w)'
<1>0. PICK t \in Tasks : t = TaskId(w)
  BY Typed DEF OnItsOwn
<1>1. Again(t, wk[w], sess[w], RecordsOf(t), dbRejs[t])
  BY <1>0 DEF Later
<1>2. CASE Complete(w)
  <2>1. /\ GoesOn(w, "commit") /\ wk[w].pc = "complete" /\ wk'[w].pc = "commit" /\ SameTables
        /\ sess' = sess /\ Saves(w, wk[w].task)
    BY <1>2, CompleteEffect DEF GoesOn
  <2>2. tasks'[t] = wk[w].task
    BY <1>0, <2>1, SameStored
  <2>3. /\ Told(tasks'[t], RecordsOf(t), dbRejs[t])
        /\ tasks'[t].result = ResultOf(RecordsOf(t), dbRejs[t])
        /\ Again(t, wk'[w], sess'[w], RecordsOf(t), dbRejs[t])
    BY <1>1, <2>1, <2>2 DEF Again
  <2> QED BY <1>0, <2>1, <2>3, LaterGoesOn
<1>3. CASE SaveFailed(w)
  <2>1. /\ GoesOn(w, "rollback") /\ wk[w].pc = "failed" /\ wk'[w].pc = "rollback" /\ SameTables
        /\ sess' = sess /\ Saves(w, FailWith(wk[w].task))
    BY <1>3, SaveFailedEffect DEF GoesOn
  <2>2. /\ tasks'[t].last = wk[w].task.last /\ tasks'[t].prog = wk[w].task.prog
        /\ tasks'[t].status = "failed"
    BY <1>0, <2>1, SameStored, Typed, TaskWrites
  <2>3. /\ Told(tasks'[t], RecordsOf(t), dbRejs[t])
        /\ Again(t, wk'[w], sess'[w], RecordsOf(t), dbRejs[t])
    BY <1>1, <2>1, <2>2 DEF Again, Told
  <2> QED BY <1>0, <2>1, <2>2, <2>3, LaterGoesOn
<1>4. CASE Commit(w)
  <2>1. /\ GoesOn(w, "ack") /\ wk'[w].pc = "ack" /\ tasks' = tasks /\ Commits(w)
        /\ sess'[w] = EmptySession /\ TaskId(w)' = t
    BY <1>0, <1>4, CommitEffect DEF GoesOn, TaskId
  <2>2. db' = db /\ RecordsOf(t)' = RecordsOf(t)
    BY <1>1, <2>1 DEF Commits, Again, RecordsOf
  <2>3. dbRejs'[t] = dbRejs[t]
    <3>1. dbRejs \in [Tasks -> [Stages -> Nat]] /\ dbRejs[t] \in [Stages -> Nat]
      BY DEF TInv, TypeOK
    <3>2. dbRejs'[t] = [s \in Stages |-> dbRejs[t][s] + sess[w].rejs[s]]
      BY <1>0, <2>1, <3>1 DEF Commits
    <3>3. \A s \in Stages : dbRejs[t][s] + sess[w].rejs[s] = dbRejs[t][s]
      BY <1>1, <3>1 DEF Again
    <3> QED BY <3>1, <3>2, <3>3
  <2>4. Again(t, wk'[w], sess'[w], RecordsOf(t), dbRejs[t])
    BY <2>1 DEF Again, EmptySession
  <2> QED BY <1>0, <2>1, <2>2, <2>3, <2>4 DEF Later
<1> QED BY <1>2, <1>3, <1>4

LEMMA LaterFails ==
  ASSUME FailsEarly, TInv, DInv, NEW w \in Workers, OnItsOwn(w), Later(w), InfraError(w)
  PROVE  Later(w)'
<1>0. PICK t \in Tasks : t = TaskId(w)
  BY Typed DEF OnItsOwn
<1>1. Again(t, wk[w], sess[w], RecordsOf(t), dbRejs[t])
  BY <1>0 DEF Later
<1> DEFINE p == IF wk[w].pc \in {"phase", "ids", "result", "complete"} THEN "failed"
                ELSE "rollback"
<1>2. /\ GoesOn(w, p) /\ wk[w].pc \in (Faults \intersect Calls) \ {"setup"}
      /\ SameObjects(wk'[w], wk[w]) /\ wk'[w].pc = p
  BY InfraErrorEffect DEF GoesOn
<1>3. /\ wk[w].pc \in {"find", "start", "phase", "ids"}
      /\ p \in {"rollback", "failed"} /\ (p = "failed" => wk[w].pc \in {"phase", "ids"})
  BY <1>2 DEF FailsEarly
<1> HIDE DEF p
<1>4. /\ sess' = sess /\ SameTables
      /\ tasks' = tasks \/ (wk[w].pc = "start" /\ Saves(w, wk[w].task))
  BY <1>3, InfraErrorEffect, LaterSkips
<1>5. /\ \A doc : Saves(w, doc) => tasks'[t] = doc
      /\ tasks' = tasks => tasks'[t] = tasks[t]
  BY <1>0, <1>2, <1>4, SameStored
<1>6. wk[w].pc = "start" => /\ wk[w].task.status = "processing"
                            /\ Told(wk[w].task, RecordsOf(t), dbRejs[t])
  BY <1>1 DEF DInv, Placed, Again
<1>7. Again(t, wk'[w], sess'[w], RecordsOf(t), dbRejs[t])
  BY <1>1, <1>2, <1>3, <1>4 DEF Again, SameObjects
<1>8. \/ tasks'[t] = tasks[t]
      \/ tasks'[t].status = "processing" /\ Told(tasks'[t], RecordsOf(t), dbRejs[t])
  BY <1>4, <1>5, <1>6
<1> QED BY <1>0, <1>2, <1>4, <1>7, <1>8, LaterGoesOn

\* A worker that leaves its job has committed, has failed, or has not begun.
LEMMA LeavesAtRest ==
  ASSUME FailsEarly, TInv, NEW w \in Workers, OnItsOwn(w), Running(w), LeavesJob(w),
         NEW t, t = TaskId(w)
  PROVE  Rest(t)' /\ ~Busy(w)'
<1>1. /\ tasks' = tasks /\ db' = db /\ dbRejs' = dbRejs /\ wk'[w].pc = "idle"
  BY LeaveEffect DEF Leaves, SameTables, Idle
<1>2. wk[w].pc \in {"ack", "rollback", "setup"}
  BY DEF FailsEarly, LeavesJob, Ack, Rollback, SetupError, Crash, Kill
<1>3. Rest(t)
  <2>1. CASE First(w)
    <3>1. Untouched(RecordsOf(t), dbRejs[t]) /\ Counts(wk[w], sess[w], tasks[t])
      BY <2>1 DEF First
    <3>2. tasks[t].last = 0 /\ tasks[t].status # "completed"
      BY <1>2, <3>1 DEF Counts
    <3> QED BY <3>1, <3>2 DEF Rest
  <2>2. CASE Later(w)
    BY <2>2 DEF Later, Rest
  <2> QED BY <2>1, <2>2 DEF Running
<1>4. RecordsOf(t)' = RecordsOf(t)
  BY <1>1 DEF RecordsOf
<1> QED BY <1>1, <1>3, <1>4, StillAtRest DEF Busy

\* Every other step leaves it busy.
LEMMA StaysBusy ==
  ASSUME TInv, NEW w \in Workers, Works(w), ~LeavesJob(w)
  PROVE  Busy(w)'
<1>1. CASE Setup(w) \/ FindTask(w) \/ StartTask(w) \/ InsertRow(w) \/ Deadlock(w) \/ RunChunk(w)
  BY <1>1, SetupEffect, FindTaskEffect, StartTaskEffect, InsertRowEffect, DeadlockEffect,
     RunChunkEffect DEF GoesOn, Busy
<1>2. CASE RaiseInChunk(w) \/ ReadIds(w) \/ BuildResult(w) \/ Complete(w) \/ SaveFailed(w)
  BY <1>2, RaiseInChunkEffect, ReadIdsEffect, BuildResultEffect, CompleteEffect, SaveFailedEffect
     DEF GoesOn, Busy
<1>3. CASE SkipPhase(w) \/ EndPhase(w)
  BY <1>3, SkipPhaseEffect, EndPhaseEffect, AfterPhaseEffect, Typed DEF GoesOn, Busy
<1>4. CASE Commit(w) \/ InfraError(w)
  BY <1>4, CommitEffect, InfraErrorEffect DEF GoesOn, Busy
<1> QED BY <1>1, <1>2, <1>3, <1>4 DEF Works

-----------------------------------------------------------------------------
LEMMA WorkResults ==
  ASSUME FailsEarly, TInv, DInv, KInv, RInv, NEW w \in Workers, Works(w), OnItsOwn(w),
         NEW t, t = TaskId(w)
  PROVE  IF Busy(w)' THEN Running(w)' ELSE Rest(t)'
<1>0. Running(w) /\ Busy(w)
  BY DEF RInv, OnItsOwn
<1>1. CASE LeavesJob(w)
  BY <1>0, <1>1, LeavesAtRest
<1>2. CASE ~LeavesJob(w) /\ First(w)
  <2>1. ~SkipPhase(w)
    BY <1>2, PhasesRunOnce DEF SkipPhase
  <2>2. First(w)' \/ Later(w)'
    BY <1>2, <2>1, FirstStarts, FirstLoads, FirstEnds, FirstFails, FirstCommits DEF Works
  <2>3. Busy(w)'
    BY <1>2, <2>1, StaysBusy
  <2> QED BY <2>2, <2>3 DEF Running
<1>3. CASE ~LeavesJob(w) /\ Later(w)
  <2>1. Later(w)'
    BY <1>3, LaterSkips, LaterStarts, LaterReads, LaterEnds, LaterFails DEF Works
  <2>2. Busy(w)'
    BY <1>3, StaysBusy
  <2> QED BY <2>1, <2>2 DEF Running
<1> QED BY <1>0, <1>1, <1>2, <1>3 DEF Running

LEMMA ResultStep ==
  ASSUME FailsEarly
  PROVE  TInv /\ DInv /\ KInv /\ RInv /\ [Next]_vars => RInv'
<1> SUFFICES ASSUME TInv, DInv, KInv, RInv, [Next]_vars PROVE RInv'
  OBVIOUS
<1>1. ASSUME NEW w \in Workers, NEW j \in Jobs, Take(w, j) PROVE RInv'
  BY <1>1, TakesResults
<1>2. ASSUME NEW w \in Workers, Works(w) PROVE RInv'
  BY <1>2, WorkResults, OwnResults
<1>3. CASE UNCHANGED vars
  <2>1. /\ tasks' = tasks /\ wk' = wk /\ sess' = sess /\ db' = db /\ dbRejs' = dbRejs
        /\ overlapped' = overlapped
    BY <1>3 DEF vars
  <2>2. /\ \A t : RecordsOf(t)' = RecordsOf(t) /\ (Resting(t)' <=> Resting(t))
        /\ \A v \in Workers : OnItsOwn(v)' <=> OnItsOwn(v)
    BY <2>1 DEF RecordsOf, Resting, OnItsOwn, Busy, TaskId
  <2>3. ASSUME NEW t \in Tasks \ overlapped', Resting(t)' PROVE Rest(t)'
    BY <2>1, <2>2, <2>3, StillAtRest DEF RInv
  <2>4. ASSUME NEW v \in Workers, OnItsOwn(v)' PROVE Running(v)'
    BY <2>1, <2>2, <2>4, StillRunning DEF RInv
  <2> QED BY <2>3, <2>4 DEF RInv
<1> QED BY <1>1, <1>2, <1>3, NextWorks

LEMMA ResultInit == Init => RInv
<1> SUFFICES ASSUME Init PROVE RInv
  OBVIOUS
<1>1. \A t \in Tasks : Rest(t)
  BY DEF Init, Rest, Untouched, RecordsOf, CreateNew
<1>2. \A w \in Workers : ~OnItsOwn(w)
  BY DEF OnItsOwn, Init, Busy, Idle
<1> QED BY <1>1, <1>2 DEF RInv

\* When the messages of a task are gone, no worker runs it.
LEMMA FinishedRests ==
  ASSUME TInv, RInv, NEW t \in Tasks \ overlapped, Finished(t), tasks[t].status = "completed"
  PROVE  Known(t, tasks[t], RecordsOf(t), dbRejs[t], db)
<1>1. Resting(t)
  BY DEF TInv, TypeOK, Finished, Resting, Busy, TaskId
<1> QED BY <1>1 DEF RInv, Rest

LEMMA ResultInvariant == ASSUME FailsEarly PROVE Spec => [](TInv /\ RInv)
BY TypeInit, TypeStep, PlacedInit, PlacedStep, CountingInit, CountingStep, LinkedInit, LinkedStep,
   ResultInit, ResultStep, PTL DEF Spec

\* When the messages of a COMPLETED task are gone, its result tells what MySQL holds of it: the
\* loaded records and the rejections of each stage, the fully linked and the partial videos.
\* However often its jobs are retried, and whatever other tasks select and store: a run that
\* fails before its last phase is over leaves no row, no rejection and no checkpoint behind, and
\* a job that starts after the commit counts nothing again.  Assumed: only the calls up to the
\* last phase fail, and no two runs of the task overlap.
THEOREM ResultsAreTrue == ASSUME FailsEarly PROVE Spec => []ResultIsTrue
<1>1. TInv /\ RInv => ResultIsTrue
  <2> SUFFICES ASSUME TInv, RInv, NEW t \in Tasks \ overlapped, Finished(t),
                      tasks[t].status = "completed"
               PROVE  /\ tasks[t].result.stages =
                           {<<s, [processed |-> CountOf(RecordsOf(t), s),
                                  rejected |-> dbRejs[t][s]]>> : s \in Stages}
                      /\ tasks[t].result.linked = Cardinality(LinkedIn(RecordsOf(t)))
                      /\ tasks[t].result.linked + tasks[t].result.partial =
                           Cardinality(VideosOf(RecordsOf(t), Selection))
    BY DEF ResultIsTrue, LinkedIn
  <2>1. tasks[t].result = ResultOf(RecordsOf(t), dbRejs[t])
    BY FinishedRests DEF Known
  <2> DEFINE selected == VideosOf(RecordsOf(t), Selection)
             linked == LinkedIn(RecordsOf(t))
  <2>2. Cardinality(selected) \in Nat /\ Cardinality(linked) \in Nat
    <3> DEFINE chosen == {r \in RecordsOf(t) : r.stage = Selection}
               video == [rec \in chosen |-> rec.video]
    <3>1. IsFiniteSet(chosen)
      BY FS_Subset DEF RecordsOf, TInv, Finite
    <3>2. IsFiniteSet({video[rec] : rec \in chosen})
      BY <3>1, ImageFinite, Zenon
    <3>3. selected = {video[rec] : rec \in chosen}
      BY DEF VideosOf
    <3>4. linked \subseteq selected
      BY DEF LinkedIn
    <3> HIDE DEF selected, linked
    <3> QED BY <3>2, <3>3, <3>4, FS_Subset, FS_CardinalityType
  <2>3. /\ tasks[t].result.linked = Cardinality(linked)
        /\ tasks[t].result.partial = Cardinality(selected) - Cardinality(linked)
    BY <2>1 DEF ResultOf
  <2>4. tasks[t].result.stages =
          {<<s, [processed |-> CountOf(RecordsOf(t), s), rejected |-> dbRejs[t][s]]>> : s \in Stages}
    BY <2>1 DEF ResultOf, InStage, CountOf
  <2> HIDE DEF selected, linked
  <2>5. tasks[t].result.linked + tasks[t].result.partial = Cardinality(selected)
    BY <2>2, <2>3
  <2> QED BY <2>3, <2>4, <2>5 DEF selected, linked
<1> QED BY <1>1, ResultInvariant, PTL

\* A task that ends up COMPLETED has all of its records in MySQL and no others: of every
\* acceptable selection the id is there, its own or another task's; of the odd tags and labels
\* all whose video the task has selected, or all of them if it has none.  However the jobs of
\* other tasks, its retries and its later jobs go, under the assumptions of the theorem above.
THEOREM CompletedTasksAreDurable == ASSUME FailsEarly PROVE Spec => []CompletedIsDurable
<1>1. TInv /\ RInv => CompletedIsDurable
  BY FinishedRests DEF CompletedIsDurable, Known, Durable, InStage
<1> QED BY <1>1, ResultInvariant, PTL
=============================================================================
