-------------------------- MODULE CheckpointProofs --------------------------
(***************************************************************************)
(* Theorems about the checkpoints in MongoDB and the rows in MySQL, for    *)
(* any errors, crashes and retries, and any number of messages of a task   *)
(* whose runs do not overlap.  Both tables are compared through what the   *)
(* one worker of such a task has at hand: its two task objects, its        *)
(* counters, and its session.                                              *)
(***************************************************************************)
EXTENDS PipelineProofs

Committed(t) == RecordsOf(t) # {} \/ \E s \in Stages : dbRejs[t][s] # 0

\* What a session holds of a stage is within what a StageProgress p says.
InStage(rows, s) == {rec \in rows : rec.stage = s}
Covers(p, w, s) ==
  Cardinality(InStage(sess[w].rows, s)) <= p.processed /\ sess[w].rejs[s] <= p.rejected

SameProgress(doc, t) == doc.last = tasks[t].last /\ doc.prog = tasks[t].prog

\* The counters of the stage a worker is in, the checkpoints before it, nothing after it.
ProgressSoFar(l, s) ==
  IF s < l.stage THEN l.cur.prog[s]
  ELSE IF s = l.stage THEN [processed |-> l.loaded, rejected |-> l.rejected]
  ELSE NoProgress

Counting(w) ==
  LET t == TaskId(w)
      l == wk[w]
  IN /\ l.pc = "start" => SameProgress(l.task, t)
     /\ l.pc \in {"phase", "ids"} =>
          /\ SameProgress(l.cur, t)
          /\ ~ShouldRunPhase(l.cur, l.stage) => l.loaded = 0 /\ l.rejected = 0
          /\ \A s \in Stages : Covers(ProgressSoFar(l, s), w, s)
     /\ l.pc \in {"result", "complete", "commit"} =>
          /\ SameProgress(l.task, t) /\ l.task.last = AutoLabeling
          /\ \A s \in Stages : Covers(l.task.prog[s], w, s)
     /\ l.pc \in {"phase", "ids", "failed"} /\ Committed(t) => SameProgress(l.task, t)
     /\ Committed(t) => sess[w].rows = {} /\ \A s \in Stages : sess[w].rejs[s] = 0

\* What MySQL has of a task is counted, and lies behind a full checkpoint.
Counted(t) ==
  /\ \A s \in Stages : /\ Cardinality(InStage(RecordsOf(t), s)) <= tasks[t].prog[s].processed
                        /\ dbRejs[t][s] <= tasks[t].prog[s].rejected
  /\ Committed(t) => tasks[t].last = AutoLabeling

\* A worker that runs the only job of its task.
OnItsOwn(w) == Busy(w) /\ TaskId(w) \notin overlapped

CInv ==
  /\ \A t \in Tasks \ overlapped : Counted(t)
  /\ \A w \in Workers : OnItsOwn(w) => Counting(w)

-----------------------------------------------------------------------------
LEMMA EmptyCounts == Cardinality({}) = 0 /\ \A s : InStage({}, s) = {}
BY FS_EmptySet DEF InStage

LEMMA OwnTask ==
  ASSUME TInv, NEW v \in Workers, NEW w \in Workers, v # w, OnItsOwn(v), Busy(w)
  PROVE  TaskId(v) # TaskId(w)
BY DEF TInv, Alone, OnItsOwn

\* What is true of a task nothing was committed for.
LEMMA UncommittedCounts ==
  ASSUME TInv, NEW t \in Tasks, ~Committed(t)
  PROVE  \A s \in Stages : Cardinality(InStage(RecordsOf(t), s)) = 0 /\ dbRejs[t][s] = 0
BY EmptyCounts DEF Committed, InStage

\* The step of a worker is about its own task and what it has at hand itself.
LEMMA OwnCounting ==
  ASSUME TInv, DInv, CInv, NEW w \in Workers, Works(w), NEW mine, mine = TaskId(w),
         OnItsOwn(w) => Counted(mine)' /\ (OnItsOwn(w)' => Counting(w)')
  PROVE  CInv'
<1>1. OnlyOwn(w) /\ Busy(w)
  BY WorksOnItsOwn DEF OnlyOwn
<1>2. ASSUME NEW t \in Tasks \ overlapped, t # mine
      PROVE  Counted(t)' /\ (Committed(t)' <=> Committed(t)) /\ tasks'[t] = tasks[t]
  <2>1. tasks'[t] = tasks[t] /\ RecordsOf(t)' = RecordsOf(t) /\ dbRejs'[t] = dbRejs[t]
    BY <1>1, <1>2 DEF OnlyOwn
  <2> QED BY <2>1, <1>2 DEF CInv, Counted, Committed
<1>3. ASSUME NEW t \in Tasks \ overlapped' PROVE Counted(t)'
  BY <1>1, <1>2, <1>3 DEF OnlyOwn, OnItsOwn
<1>4. ASSUME NEW v \in Workers, v # w, OnItsOwn(v)' PROVE Counting(v)'
  <2>1. /\ wk'[v] = wk[v] /\ sess'[v] = sess[v] /\ TaskId(v)' = TaskId(v)
        /\ OnItsOwn(v) /\ Counting(v)
    BY <1>1, <1>4 DEF OnlyOwn, Frame, TaskId, OnItsOwn, Busy, CInv
  <2>2. TaskId(v) # mine /\ TaskId(v) \in Tasks \ overlapped
    BY <2>1, <1>1, <1>4, OwnTask, Typed DEF OnItsOwn
  <2>3. PICK t \in Tasks \ overlapped : t = TaskId(v) /\ t # mine
    BY <2>2
  <2>4. (Committed(t)' <=> Committed(t)) /\ tasks'[t] = tasks[t]
    BY <1>2, <2>3
  <2> QED BY <2>1, <2>3, <2>4 DEF Counting, SameProgress, Covers
<1>5. OnItsOwn(w)' => Counting(w)'
  <2>1. OnItsOwn(w)' => OnItsOwn(w)
    BY <1>1 DEF OnlyOwn, OnItsOwn, TaskId
  <2> QED BY <2>1
<1> QED BY <1>3, <1>4, <1>5 DEF CInv

\* While the tables stay as they are, a task that has rows in them keeps its progress.
LEMMA KeepsCounting ==
  ASSUME TInv, DInv, CInv, NEW w \in Workers, Works(w), OnItsOwn(w),
         NEW p, GoesOn(w, p), SameTables, NEW doc,
         \/ tasks' = tasks
         \/ Saves(w, doc) /\ (Committed(TaskId(w)) => SameProgress(doc, TaskId(w))),
         Counting(w)'
  PROVE  CInv'
<1>0. PICK mine \in Tasks : mine = TaskId(w)
  BY Typed DEF GoesOn
<1>1. Counted(mine)'
  <2>1. /\ tasks \in [Tasks -> TaskDocs] /\ db' = db /\ dbRejs' = dbRejs /\ Counted(mine)
    BY <1>0 DEF SameTables, TInv, TypeOK, CInv, OnItsOwn
  <2>2. (Committed(mine)' <=> Committed(mine)) /\ RecordsOf(mine)' = RecordsOf(mine)
    BY <2>1 DEF Committed, RecordsOf
  <2>3. CASE Committed(mine)
    <3>1. tasks'[mine].last = tasks[mine].last /\ tasks'[mine].prog = tasks[mine].prog
      BY <1>0, <2>1, <2>3 DEF Saves, SameProgress
    <3> QED BY <2>1, <2>2, <3>1 DEF Counted
  <2>4. CASE ~Committed(mine)
    <3>1. tasks' \in [Tasks -> TaskDocs]
      BY <2>1 DEF Saves
    <3>2. ASSUME NEW s \in Stages
          PROVE  /\ Cardinality(InStage(RecordsOf(mine)', s)) <= tasks'[mine].prog[s].processed
                 /\ dbRejs'[mine][s] <= tasks'[mine].prog[s].rejected
      <4>1. tasks'[mine].prog[s].processed \in Nat /\ tasks'[mine].prog[s].rejected \in Nat
        BY <3>1 DEF TaskDocs
      <4>2. Cardinality(InStage(RecordsOf(mine), s)) = 0 /\ dbRejs[mine][s] = 0
        BY <2>4, UncommittedCounts
      <4> QED BY <2>1, <2>2, <4>1, <4>2
    <3> QED BY <2>2, <2>4, <3>2 DEF Counted
  <2> QED BY <2>3, <2>4
<1> QED BY <1>0, <1>1, OwnCounting

\* The commit stores what the progress counts, and only for a task nothing was stored of before.
LEMMA StoresCounting ==
  ASSUME TInv, DInv, CInv, NEW w \in Workers, Works(w), NEW p, Storing(w, p)
  PROVE  CInv'
<1>0. PICK mine \in Tasks : mine = TaskId(w)
  BY Typed DEF GoesOn, Storing
<1>1. /\ wk[w].job \in Jobs /\ Busy(w)
      /\ dbRejs \in [Tasks -> [Stages -> Nat]] /\ sess[w].rejs \in [Stages -> Nat]
      /\ wk[w].pc = "commit" /\ wk'[w].pc = p /\ p \in {"ack", "rollback"} /\ tasks' = tasks
      /\ sess'[w] = EmptySession /\ Commits(w)
  BY Typed DEF GoesOn, Frame, TInv, TypeOK, Storing
<1>3. \A rec \in sess[w].rows : rec.task = mine
  BY <1>0 DEF DInv, Placed
<1>4. ASSUME OnItsOwn(w) PROVE Counted(mine)'
  <2>0. /\ tasks[mine].last = AutoLabeling
        /\ \A s \in Stages : Covers(tasks[mine].prog[s], w, s)
        /\ Committed(mine) => sess[w].rows = {} /\ \A s \in Stages : sess[w].rejs[s] = 0
        /\ Counted(mine)
    BY <1>0, <1>1, <1>4 DEF CInv, Counting, SameProgress, OnItsOwn
  <2>1. \A s \in Stages : dbRejs'[mine][s] = dbRejs[mine][s] + sess[w].rejs[s]
    BY <1>0, <1>1 DEF Commits
  <2>2. RecordsOf(mine)' = RecordsOf(mine) \union sess[w].rows
    BY <1>1, <1>3 DEF Commits, RecordsOf
  <2>3. ASSUME NEW s \in Stages
        PROVE  /\ Cardinality(InStage(RecordsOf(mine)', s)) <= tasks[mine].prog[s].processed
               /\ dbRejs'[mine][s] <= tasks[mine].prog[s].rejected
    <3>1. CASE Committed(mine)
      <4>1. RecordsOf(mine)' = RecordsOf(mine) /\ dbRejs'[mine][s] = dbRejs[mine][s]
        BY <2>0, <2>1, <2>2, <3>1, <1>1
      <4> QED BY <4>1, <2>0 DEF Counted
    <3>2. CASE ~Committed(mine)
      <4>1. RecordsOf(mine)' = sess[w].rows /\ dbRejs'[mine][s] = sess[w].rejs[s]
        BY <2>1, <2>2, <3>2, <1>1 DEF Committed
      <4> QED BY <4>1, <2>0 DEF Covers
    <3> QED BY <3>1, <3>2
  <2> QED BY <1>1, <2>0, <2>3 DEF Counted
<1>5. Counting(w)'
  BY <1>1 DEF Counting, EmptySession
<1> QED BY <1>0, <1>4, <1>5, OwnCounting

\* A worker that leaves its job has nothing in its hands.
LEMMA LeavesCounting ==
  ASSUME TInv, DInv, CInv, NEW w \in Workers, Works(w), Leaving(w)
  PROVE  CInv'
<1>0. PICK mine \in Tasks : mine = TaskId(w)
  BY Typed DEF Leaving, Leaves
<1>1. ~Busy(w)' /\ tasks' = tasks /\ SameTables
  BY DEF Leaving, Leaves, Busy, Idle
<1>2. OnItsOwn(w) => Counted(mine)'
  BY <1>0, <1>1 DEF CInv, OnItsOwn, Counted, Committed, RecordsOf, SameTables
<1> QED BY <1>0, <1>1, <1>2, OwnCounting DEF OnItsOwn

\* Nor has a worker that takes one.
LEMMA TakesCounting ==
  ASSUME TInv, CInv, NEW w \in Workers, NEW j \in Jobs, Take(w, j)
  PROVE  CInv'
<1>1. /\ Frame(w) /\ sess' = sess /\ sess[w] = EmptySession /\ wk'[w].pc = "setup"
      /\ tasks' = tasks /\ SameTables /\ overlapped \subseteq overlapped'
  BY TakeEffect
<1>2. \A t : (Committed(t)' <=> Committed(t)) /\ RecordsOf(t)' = RecordsOf(t)
  BY <1>1 DEF Committed, RecordsOf, SameTables
<1>3. \A t \in Tasks \ overlapped' : Counted(t)'
  BY <1>1, <1>2 DEF CInv, Counted, SameTables
<1>4. Counting(w)'
  BY <1>1 DEF Counting, EmptySession
<1>5. ASSUME NEW v \in Workers, v # w, OnItsOwn(v)' PROVE Counting(v)'
  <2>1. /\ wk'[v] = wk[v] /\ sess'[v] = sess[v] /\ TaskId(v)' = TaskId(v) /\ Counting(v)
    BY <1>1, <1>5 DEF CInv, TaskId, OnItsOwn, Frame, Busy
  <2>2. Committed(TaskId(v))' <=> Committed(TaskId(v))
    BY <2>1, <1>2
  <2> QED BY <2>1, <2>2, <1>1 DEF Counting, SameProgress, Covers
<1> QED BY <1>3, <1>4, <1>5 DEF CInv

\* A phase that runs is one of a task nothing was committed for.
LEMMA RunningUncommitted ==
  ASSUME TInv, CInv, NEW w \in Workers, OnItsOwn(w), InPhase(w)
  PROVE  ~Committed(TaskId(w))
<1>1. wk[w].pc = "phase" /\ TaskId(w) \in Tasks \ overlapped /\ wk[w].stage \in Stages
  BY Typed DEF InPhase, OnItsOwn
<1>2. SameProgress(wk[w].cur, TaskId(w)) /\ Counted(TaskId(w))
  BY <1>1 DEF CInv, Counting, OnItsOwn
<1> QED BY <1>1, <1>2 DEF Counted, SameProgress, InPhase, ShouldRunPhase, Stages, Selection,
        OddTagging, AutoLabeling

\* A chunk is counted where it is loaded.
LEMMA ChunkCounting ==
  ASSUME TInv, CInv, NEW w \in Workers, OnItsOwn(w), RunChunk(w)
  PROVE  Counting(w)'
<1>0. PICK t, here : t = TaskId(w) /\ here = wk[w].stage
  OBVIOUS
<1>1. /\ GoesOn(w, "phase") /\ InPhase(w) /\ ChunksLeft(w)
      /\ SameObjects(wk'[w], wk[w]) /\ wk'[w].stage = here
      /\ wk'[w].loaded = wk[w].loaded + Cardinality(Inserted(w))
      /\ wk'[w].rejected = wk[w].rejected + ChunkRejections(w)
      /\ sess'[w].rows = sess[w].rows \union Inserted(w)
      /\ sess'[w].rejs = [sess[w].rejs EXCEPT ![here] = @ + ChunkRejections(w)]
      /\ tasks' = tasks /\ SameTables
  BY <1>0, RunChunkEffect
<1>2. /\ Busy(w) /\ wk[w].pc = "phase" /\ wk'[w].pc = "phase" /\ TaskId(w)' = t /\ t \in Tasks
      /\ wk'[w].cur = wk[w].cur /\ wk'[w].task = wk[w].task
      /\ here \in Stages /\ wk[w].loaded \in Nat /\ wk[w].rejected \in Nat
      /\ sess[w].rejs \in [Stages -> Nat] /\ IsFiniteSet(sess[w].rows)
  BY <1>0, <1>1, Typed DEF GoesOn, InPhase, SameObjects, TaskId
<1>3. Counting(w)
  BY DEF CInv
<1>4. ~Committed(t)
  BY <1>0, <1>1, RunningUncommitted
<1>5. ~Committed(t)'
  BY <1>1, <1>4 DEF SameTables, Committed, RecordsOf
<1>6. /\ Cardinality(Inserted(w)) \in Nat /\ ChunkRejections(w) \in Nat /\ IsFiniteSet(Inserted(w))
      /\ \A rec \in Inserted(w) : rec.stage = here
  BY <1>0, <1>1, <1>2, ChunkWrites
<1>7. ASSUME NEW s \in Stages PROVE Covers(ProgressSoFar(wk[w], s), w, s)
  BY <1>2, <1>3 DEF Counting
<1>8. ASSUME NEW s \in Stages, s # here PROVE Covers(ProgressSoFar(wk[w], s), w, s)'
  <2>1. InStage(sess'[w].rows, s) = InStage(sess[w].rows, s) /\ sess'[w].rejs[s] = sess[w].rejs[s]
    BY <1>1, <1>2, <1>6, <1>8 DEF InStage
  <2>2. ProgressSoFar(wk'[w], s) = ProgressSoFar(wk[w], s)
    BY <1>0, <1>1, <1>2, <1>8 DEF ProgressSoFar
  <2> QED BY <1>7, <2>1, <2>2 DEF Covers
<1>9. Covers(ProgressSoFar(wk[w], here), w, here)'
  <2>1. /\ ProgressSoFar(wk[w], here) = [processed |-> wk[w].loaded, rejected |-> wk[w].rejected]
        /\ ProgressSoFar(wk'[w], here) = [processed |-> wk'[w].loaded, rejected |-> wk'[w].rejected]
    BY <1>0, <1>1, <1>2 DEF ProgressSoFar, Stages, Selection, OddTagging, AutoLabeling
  <2>2. /\ Cardinality(InStage(sess[w].rows, here)) <= wk[w].loaded
        /\ sess[w].rejs[here] <= wk[w].rejected
    BY <1>2, <1>7, <2>1 DEF Covers
  <2>3. /\ IsFiniteSet(InStage(sess[w].rows, here))
        /\ InStage(sess'[w].rows, here) = InStage(sess[w].rows, here) \union Inserted(w)
    <3>1. IsFiniteSet(InStage(sess[w].rows, here))
      BY <1>2, FS_Subset DEF InStage
    <3> QED BY <3>1, <1>1, <1>6 DEF InStage
  <2>4. /\ Cardinality(InStage(sess[w].rows, here)) \in Nat
        /\ Cardinality(InStage(sess[w].rows, here) \intersect Inserted(w)) \in Nat
        /\ Cardinality(InStage(sess[w].rows, here) \union Inserted(w)) =
             Cardinality(InStage(sess[w].rows, here)) + Cardinality(Inserted(w))
               - Cardinality(InStage(sess[w].rows, here) \intersect Inserted(w))
    BY <2>3, <1>6, FS_Union, FS_Intersection, FS_CardinalityType
  <2>5. Cardinality(InStage(sess'[w].rows, here)) <= wk'[w].loaded
    BY <2>2, <2>3, <2>4, <1>1, <1>2, <1>6
  <2>6. sess'[w].rejs[here] <= wk'[w].rejected
    BY <2>2, <1>1, <1>2, <1>6
  <2> QED BY <2>1, <2>5, <2>6 DEF Covers
<1>10. SameProgress(wk[w].cur, t)' /\ ShouldRunPhase(wk'[w].cur, wk'[w].stage)
  BY <1>0, <1>1, <1>2, <1>3 DEF Counting, SameProgress, InPhase
<1> QED BY <1>0, <1>2, <1>5, <1>8, <1>9, <1>10 DEF Counting

\* A step that writes neither table nor session.
LEMMA SameCommitted ==
  ASSUME TInv, CInv, NEW w \in Workers, OnItsOwn(w), NEW p, GoesOn(w, p), SameTables,
         sess'[w].rows = sess[w].rows, sess'[w].rejs = sess[w].rejs
  PROVE  /\ TaskId(w)' = TaskId(w) /\ Counting(w) /\ Busy(w)
         /\ Committed(TaskId(w))' => Committed(TaskId(w))
         /\ Committed(TaskId(w))' =>
              sess'[w].rows = {} /\ \A s \in Stages : sess'[w].rejs[s] = 0
         /\ \A n, s : Covers(n, w, s) => Cardinality(InStage(sess'[w].rows, s)) <= n.processed
                                         /\ sess'[w].rejs[s] <= n.rejected
<1>1. TaskId(w)' = TaskId(w) /\ Counting(w) /\ Busy(w)
  BY DEF GoesOn, TaskId, CInv, OnItsOwn
<1>2. Committed(TaskId(w))' => Committed(TaskId(w))
  BY <1>1 DEF Committed, RecordsOf, SameTables
<1> QED BY <1>1, <1>2 DEF Counting, Covers

\* From the end of one phase to the next: doc is what is saved of it, if it was run.
LEMMA PhaseCounting ==
  ASSUME TInv, CInv, NEW w \in Workers, OnItsOwn(w), NEW doc \in TaskDocs, wk[w].pc = "phase",
         AfterPhase(w, doc), jobs' = jobs, sess' = sess, overlapped' = overlapped, SameTables,
         tasks'[TaskId(w)].last = doc.last, tasks'[TaskId(w)].prog = doc.prog,
         wk[w].stage = AutoLabeling => doc.last = AutoLabeling,
         \A s \in Stages : s <= wk[w].stage => Covers(doc.prog[s], w, s),
         Committed(TaskId(w)) => SameProgress(doc, TaskId(w))
  PROVE  Counting(w)'
<1>0. PICK here \in Stages, t \in Tasks : here = wk[w].stage /\ t = TaskId(w)
  BY Typed DEF Busy
<1>1. /\ GoesOn(w, NextCall(here)) /\ wk'[w].cur = doc
      /\ wk'[w].loaded = 0 /\ wk'[w].rejected = 0
      /\ IF here = AutoLabeling THEN wk'[w].task = doc /\ wk'[w].stage = here
         ELSE wk'[w].task = wk[w].task /\ wk'[w].stage = here + 1
  BY <1>0, AfterPhaseEffect DEF Busy
<1>2. /\ TaskId(w)' = t /\ wk'[w].pc = NextCall(here)
      /\ Committed(t)' => Committed(t)
      /\ Committed(t)' => sess'[w].rows = {} /\ \A s \in Stages : sess'[w].rejs[s] = 0
  BY <1>0, <1>1, SameCommitted DEF GoesOn
<1>3. Counting(w) /\ (Committed(t) => SameProgress(wk[w].task, t))
  BY <1>0 DEF CInv, Counting
<1>4. SameProgress(doc, t)'
  BY <1>0 DEF SameProgress
<1>5. Committed(t)' => SameProgress(wk[w].task, t)'
  BY <1>0, <1>1, <1>2, <1>3, <1>4 DEF SameProgress
<1>6. CASE here = AutoLabeling
  <2>1. wk'[w].pc = "result" /\ wk'[w].task = doc
    BY <1>1, <1>2, <1>6 DEF NextCall, Selection, AutoLabeling
  <2>2. \A s \in Stages : Covers(doc.prog[s], w, s)'
    BY <1>0, <1>6 DEF Covers, Stages, Selection, OddTagging, AutoLabeling
  <2> QED BY <1>0, <1>2, <1>4, <1>6, <2>1, <2>2 DEF Counting, SameProgress
<1>7. CASE here # AutoLabeling
  <2>1. /\ wk'[w].pc \in {"phase", "ids"} /\ wk'[w].stage = here + 1 /\ here + 1 \in Stages
        /\ wk'[w].task = wk[w].task
    BY <1>1, <1>2, <1>7 DEF NextCall, Stages, Selection, OddTagging, AutoLabeling
  <2>2. ASSUME NEW s \in Stages PROVE Covers(ProgressSoFar(wk[w], s), w, s)'
    <3>1. CASE s <= here
      <4>1. ProgressSoFar(wk'[w], s) = doc.prog[s]
        BY <1>1, <2>1, <3>1 DEF ProgressSoFar, Stages, Selection, OddTagging, AutoLabeling
      <4> QED BY <4>1, <1>0, <3>1 DEF Covers
    <3>2. CASE ~(s <= here)
      <4>1. ProgressSoFar(wk'[w], s) = NoProgress
        BY <1>1, <2>1, <3>2 DEF ProgressSoFar, NoProgress, Stages, Selection, OddTagging, AutoLabeling
      <4>2. ProgressSoFar(wk[w], s) = NoProgress
        BY <1>0, <3>2 DEF ProgressSoFar, NoProgress, Stages, Selection, OddTagging, AutoLabeling
      <4>3. Covers(NoProgress, w, s)
        BY <4>2 DEF CInv, Counting, Busy
      <4> QED BY <4>1, <4>3 DEF Covers
    <3> QED BY <3>1, <3>2
  <2> QED BY <1>1, <1>2, <1>4, <1>5, <2>1, <2>2 DEF Counting, SameProgress
<1> QED BY <1>6, <1>7

\* Each step of a worker whose task no other one runs.
LEMMA WorkCounting ==
  ASSUME TInv, DInv, CInv, NEW w \in Workers, Works(w), OnItsOwn(w)
  PROVE  CInv'
<1>0. \A v \in Workers : Placed(v)
  BY DEF DInv
<1>2. CASE Setup(w)
  <2>1. /\ GoesOn(w, "find") /\ SameTables /\ tasks' = tasks /\ sess' = sess
    BY <1>2, SetupEffect
  <2>2. Counting(w)'
    BY <2>1, SameCommitted DEF Counting, GoesOn
  <2> QED BY <2>1, <2>2, KeepsCounting
<1>3. CASE FindTask(w)
  <2>1. /\ GoesOn(w, "start") /\ SameTables /\ tasks' = tasks /\ sess' = sess
        /\ wk'[w].task = StartProcessing(tasks[TaskId(w)])
    BY <1>3, FindTaskEffect
  <2>2. /\ wk'[w].task.last = tasks[TaskId(w)].last
        /\ wk'[w].task.prog = tasks[TaskId(w)].prog
    BY <2>1, Typed, TaskWrites DEF GoesOn
  <2>3. Counting(w)'
    BY <2>1, <2>2, SameCommitted DEF Counting, GoesOn, SameProgress
  <2> QED BY <2>1, <2>3, KeepsCounting
<1>4. CASE StartTask(w)
  <2>1. /\ GoesOn(w, "phase") /\ SameTables /\ Saves(w, wk[w].task) /\ sess' = sess
        /\ wk'[w].task = wk[w].task /\ wk'[w].cur = wk[w].task /\ SamePlace(wk'[w], wk[w])
        /\ wk[w].pc = "start"
    BY <1>4, StartTaskEffect
  <2>2. /\ SameProgress(wk[w].task, TaskId(w)) /\ TaskId(w)' = TaskId(w)
        /\ tasks'[TaskId(w)] = wk[w].task
    BY <2>1, SameCommitted, Typed DEF Counting, Saves, TInv, TypeOK, GoesOn
  <2>3. /\ wk'[w].loaded = 0 /\ wk'[w].rejected = 0 /\ wk'[w].pc = "phase"
        /\ sess'[w].rows = {} /\ \A s \in Stages : sess'[w].rejs[s] = 0
    BY <1>0, <2>1 DEF Placed, SamePlace, EmptySession, GoesOn
  <2>4. ASSUME NEW s \in Stages PROVE Covers(ProgressSoFar(wk[w], s), w, s)'
    <3>1. ProgressSoFar(wk'[w], s).processed \in Nat /\ ProgressSoFar(wk'[w], s).rejected \in Nat
      <4>1. wk'[w].cur.prog[s] \in [processed : Nat, rejected : Nat]
        BY <2>1, Typed DEF TaskDocs
      <4> QED BY <2>3, <4>1 DEF ProgressSoFar, NoProgress
    <3>2. Cardinality(InStage(sess'[w].rows, s)) = 0
      BY <2>3, EmptyCounts
    <3> QED BY <2>3, <3>1, <3>2 DEF Covers
  <2>5. Counting(w)'
    BY <2>1, <2>2, <2>3, <2>4 DEF Counting, SameProgress
  <2> QED BY <2>1, <2>2, <2>5, KeepsCounting
<1>5. CASE SkipPhase(w)
  <2>1. /\ wk[w].pc = "phase" /\ wk[w].stage <= wk[w].cur.last /\ AfterPhase(w, wk[w].cur)
        /\ Busy(w) /\ jobs' = jobs /\ overlapped' = overlapped /\ sess' = sess
        /\ tasks' = tasks /\ SameTables
    BY <1>5, SkipPhaseEffect
  <2>2. /\ wk[w].cur \in TaskDocs /\ wk[w].stage \in Stages /\ wk[w].cur.last \in {0} \union Stages
        /\ \A s \in Stages : /\ wk[w].cur.prog[s].processed \in Nat
                              /\ wk[w].cur.prog[s].rejected \in Nat
    BY Typed DEF TaskDocs
  <2>3. /\ SameProgress(wk[w].cur, TaskId(w)) /\ wk[w].loaded = 0 /\ wk[w].rejected = 0
        /\ \A s \in Stages : Covers(ProgressSoFar(wk[w], s), w, s)
    BY <1>5, <2>1 DEF CInv, Counting, SkipPhase
  <2>4. ASSUME NEW s \in Stages, s <= wk[w].stage PROVE Covers(wk[w].cur.prog[s], w, s)
    <3>1. Covers(ProgressSoFar(wk[w], s), w, s) /\ sess[w].rejs[s] \in Nat
          /\ Cardinality(InStage(sess[w].rows, s)) \in Nat
      <4>1. IsFiniteSet(InStage(sess[w].rows, s))
        BY Typed, FS_Subset DEF InStage
      <4> QED BY <2>3, <4>1, Typed, FS_CardinalityType
    <3> QED BY <2>2, <2>3, <2>4, <3>1 DEF Covers, ProgressSoFar, Stages, Selection, OddTagging,
            AutoLabeling
  <2>5. wk[w].stage = AutoLabeling => wk[w].cur.last = AutoLabeling
    BY <2>1, <2>2 DEF Stages, Selection, OddTagging, AutoLabeling
  <2>6. Counting(w)'
    BY <2>1, <2>2, <2>3, <2>4, <2>5, PhaseCounting DEF SameProgress
  <2>7. GoesOn(w, NextCall(wk[w].stage))
    BY <2>1, <2>2, AfterPhaseEffect
  <2> QED BY <2>1, <2>6, <2>7, KeepsCounting
<1>6. CASE EndPhase(w)
  <2>1. /\ wk[w].pc = "phase" /\ PhaseIsOver(w) /\ AfterPhase(w, Checkpoint(w))
        /\ Saves(w, Checkpoint(w)) /\ Checkpoint(w) \in TaskDocs
        /\ Busy(w) /\ jobs' = jobs /\ overlapped' = overlapped /\ sess' = sess /\ SameTables
    BY <1>6, EndPhaseEffect
  <2>2. ~Committed(TaskId(w))
    BY <2>1, RunningUncommitted DEF PhaseIsOver
  <2>3. tasks'[TaskId(w)] = Checkpoint(w)
    BY <2>1, Typed DEF Saves, TInv, TypeOK
  <2>4. /\ Checkpoint(w).last = wk[w].stage /\ wk[w].stage \in Stages
        /\ Checkpoint(w).prog = [wk[w].cur.prog EXCEPT ![wk[w].stage] =
                                   [processed |-> wk[w].loaded, rejected |-> wk[w].rejected]]
        /\ DOMAIN wk[w].cur.prog = Stages
    BY CheckpointTyped, Typed DEF TaskDocs
  <2>5. ASSUME NEW s \in Stages, s <= wk[w].stage PROVE Covers(Checkpoint(w).prog[s], w, s)
    <3>1. Covers(ProgressSoFar(wk[w], s), w, s)
      BY <2>1 DEF CInv, Counting
    <3>2. ProgressSoFar(wk[w], s) = Checkpoint(w).prog[s]
      BY <2>4, <2>5 DEF ProgressSoFar, Stages, Selection, OddTagging, AutoLabeling
    <3> QED BY <3>1, <3>2
  <2>6. Counting(w)'
    BY <2>1, <2>2, <2>3, <2>4, <2>5, PhaseCounting
  <2>7. GoesOn(w, NextCall(wk[w].stage))
    BY <2>1, AfterPhaseEffect
  <2> QED BY <2>1, <2>2, <2>6, <2>7, KeepsCounting
<1>7. CASE RunChunk(w)
  <2>1. GoesOn(w, "phase") /\ SameTables /\ tasks' = tasks
    BY <1>7, RunChunkEffect
  <2>2. Counting(w)'
    BY <1>7, ChunkCounting
  <2> QED BY <2>1, <2>2, KeepsCounting
<1>8. CASE RaiseInChunk(w)
  <2>1. /\ GoesOn(w, "failed") /\ SameTables /\ tasks' = tasks /\ sess' = sess
    BY <1>8, RaiseInChunkEffect
  <2>2. ~Committed(TaskId(w))
    BY <1>8, RunningUncommitted DEF RaiseInChunk
  <2>3. Counting(w)'
    BY <2>1, <2>2, SameCommitted DEF Counting, GoesOn
  <2> QED BY <2>1, <2>3, KeepsCounting
<1>9. CASE ReadIds(w)
  <2>1. /\ GoesOn(w, "phase") /\ SameTables /\ tasks' = tasks /\ wk[w].pc = "ids"
        /\ sess'[w].rows = sess[w].rows /\ sess'[w].rejs = sess[w].rejs
        /\ SameObjects(wk'[w], wk[w]) /\ wk'[w].stage = wk[w].stage
        /\ wk'[w].loaded = wk[w].loaded /\ wk'[w].rejected = wk[w].rejected
    BY <1>9, ReadIdsEffect
  <2>2. /\ wk'[w].pc = "phase" /\ wk'[w].cur = wk[w].cur /\ wk'[w].task = wk[w].task
        /\ TaskId(w)' = TaskId(w) /\ Committed(TaskId(w))' => Committed(TaskId(w))
    BY <2>1, SameCommitted DEF GoesOn, SameObjects
  <2>3. ASSUME NEW s \in Stages PROVE Covers(ProgressSoFar(wk[w], s), w, s)'
    <3>1. Covers(ProgressSoFar(wk[w], s), w, s)
      BY <2>1 DEF CInv, Counting, Busy
    <3>2. ProgressSoFar(wk'[w], s) = ProgressSoFar(wk[w], s)
      BY <2>1, <2>2 DEF ProgressSoFar
    <3> QED BY <2>1, <3>1, <3>2 DEF Covers
  <2>4. Counting(w)'
    BY <2>1, <2>2, <2>3, SameCommitted DEF Counting, SameProgress
  <2> QED BY <2>1, <2>4, KeepsCounting
<1>10. CASE BuildResult(w)
  <2>1. /\ GoesOn(w, "complete") /\ SameTables /\ tasks' = tasks /\ wk[w].pc = "result"
        /\ sess'[w].rows = sess[w].rows /\ sess'[w].rejs = sess[w].rejs
        /\ wk'[w].task.last = wk[w].task.last /\ wk'[w].task.prog = wk[w].task.prog
    BY <1>10, BuildResultEffect
  <2>2. Counting(w)'
    BY <2>1, SameCommitted DEF Counting, SameProgress, GoesOn, Covers
  <2> QED BY <2>1, <2>2, KeepsCounting
<1>11. CASE Complete(w)
  <2>1. /\ GoesOn(w, "commit") /\ SameTables /\ Saves(w, wk[w].task) /\ wk[w].pc = "complete"
        /\ sess' = sess /\ SameObjects(wk'[w], wk[w])
    BY <1>11, CompleteEffect
  <2>2. /\ tasks'[TaskId(w)] = wk[w].task /\ SameProgress(wk[w].task, TaskId(w))
        /\ wk'[w].task = wk[w].task
    BY <2>1, Typed, SameCommitted DEF Saves, TInv, TypeOK, Counting, SameObjects
  <2>3. Counting(w)'
    BY <2>1, <2>2, SameCommitted DEF Counting, SameProgress, GoesOn, Covers
  <2> QED BY <2>1, <2>2, <2>3, KeepsCounting
<1>12. CASE SaveFailed(w)
  <2>1. /\ GoesOn(w, "rollback") /\ SameTables /\ Saves(w, FailWith(wk[w].task))
        /\ wk[w].pc = "failed" /\ sess' = sess
    BY <1>12, SaveFailedEffect
  <2>2. Committed(TaskId(w)) => SameProgress(FailWith(wk[w].task), TaskId(w))
    BY <2>1, Typed, TaskWrites, SameCommitted DEF Counting, SameProgress
  <2>3. Counting(w)'
    BY <2>1, SameCommitted DEF Counting, GoesOn
  <2> QED BY <2>1, <2>2, <2>3, KeepsCounting
<1>13. CASE Commit(w)
  BY <1>13, CommitEffect, StoresCounting DEF Storing
<1>14. CASE LeavesJob(w)
  BY <1>14, LeaveEffect, LeavesCounting DEF Leaving
<1>15. CASE InfraError(w)
  <2> DEFINE p == IF wk[w].pc \in {"phase", "ids", "result", "complete"} THEN "failed"
                  ELSE "rollback"
  <2>1. GoesOn(w, p) /\ SameObjects(wk'[w], wk[w])
    BY <1>15, InfraErrorEffect
  <2>2. CASE wk[w].pc = "commit" /\ Commits(w) /\ sess'[w] = EmptySession /\ tasks' = tasks
    BY <2>1, <2>2, StoresCounting DEF Storing, p
  <2>3. ASSUME sess' = sess, SameTables,
               \/ tasks' = tasks
               \/ PhaseIsOver(w) /\ Saves(w, Checkpoint(w))
               \/ wk[w].pc \in {"start", "complete"} /\ Saves(w, wk[w].task)
               \/ wk[w].pc = "failed" /\ Saves(w, FailWith(wk[w].task))
        PROVE  CInv'
    <3>0. TaskId(w) \in Tasks
      BY <2>1, Typed DEF GoesOn
    <3>1. /\ Counting(w) /\ TaskId(w)' = TaskId(w)
          /\ Committed(TaskId(w))' => Committed(TaskId(w))
          /\ Committed(TaskId(w))' => sess'[w].rows = {} /\ \A s \in Stages : sess'[w].rejs[s] = 0
      BY <2>1, <2>3, SameCommitted
    <3>2. /\ PhaseIsOver(w) => ~Committed(TaskId(w))
          /\ wk[w].pc \in {"start", "complete"} => SameProgress(wk[w].task, TaskId(w))
          /\ wk[w].pc = "failed" /\ Committed(TaskId(w)) =>
               SameProgress(FailWith(wk[w].task), TaskId(w))
      <4>1. PhaseIsOver(w) => ~Committed(TaskId(w))
        BY RunningUncommitted DEF PhaseIsOver
      <4>2. wk[w].pc \in {"start", "complete"} => SameProgress(wk[w].task, TaskId(w))
        BY <3>1 DEF Counting
      <4>3. wk[w].pc = "failed" /\ Committed(TaskId(w)) => SameProgress(wk[w].task, TaskId(w))
        BY <3>1 DEF Counting
      <4>4. FailWith(wk[w].task).last = wk[w].task.last /\ FailWith(wk[w].task).prog = wk[w].task.prog
        BY Typed, TaskWrites
      <4> QED BY <4>1, <4>2, <4>3, <4>4 DEF SameProgress
    <3>3. Committed(TaskId(w)) => /\ tasks'[TaskId(w)].last = tasks[TaskId(w)].last
                                  /\ tasks'[TaskId(w)].prog = tasks[TaskId(w)].prog
      BY <2>3, <3>0, <3>2 DEF Saves, SameProgress, TInv, TypeOK
    <3>4. /\ wk'[w].pc = "failed" => wk[w].pc \in {"phase", "ids", "result", "complete"}
          /\ wk'[w].pc \in {"failed", "rollback"} /\ wk'[w].task = wk[w].task
      BY <2>1 DEF GoesOn, SameObjects
    <3>5. wk'[w].pc = "failed" /\ Committed(TaskId(w)) => SameProgress(wk[w].task, TaskId(w))
      <4>1. wk[w].pc \in {"phase", "ids"} /\ Committed(TaskId(w)) =>
              SameProgress(wk[w].task, TaskId(w))
        BY <3>1 DEF Counting
      <4>2. wk[w].pc \in {"result", "complete"} => SameProgress(wk[w].task, TaskId(w))
        BY <3>1 DEF Counting
      <4> QED BY <3>4, <4>1, <4>2
    <3>6. Counting(w)'
      <4>1. wk'[w].pc = "failed" /\ Committed(TaskId(w))' => SameProgress(wk[w].task, TaskId(w))'
        BY <3>1, <3>3, <3>4, <3>5 DEF SameProgress
      <4> QED BY <3>1, <3>4, <4>1 DEF Counting
    <3> HIDE DEF p
    <3>7. CASE tasks' = tasks
      BY <2>1, <2>3, <3>6, <3>7, KeepsCounting
    <3>8. CASE PhaseIsOver(w) /\ Saves(w, Checkpoint(w))
      BY <2>1, <2>3, <3>0, <3>2, <3>6, <3>8, KeepsCounting
    <3>9. CASE wk[w].pc \in {"start", "complete"} /\ Saves(w, wk[w].task)
      BY <2>1, <2>3, <3>0, <3>2, <3>6, <3>9, KeepsCounting
    <3>10. CASE wk[w].pc = "failed" /\ Saves(w, FailWith(wk[w].task))
      BY <2>1, <2>3, <3>0, <3>2, <3>6, <3>10, KeepsCounting
    <3> QED BY <2>3, <3>7, <3>8, <3>9, <3>10
  <2> HIDE DEF p
  <2> QED BY <1>15, <2>2, <2>3, InfraErrorEffect
<1>16. CASE InsertRow(w)
  <2>1. /\ wk[w].pc = "phase" /\ GoesOn(w, "phase") /\ wk' = wk
        /\ sess'[w].rows = sess[w].rows /\ sess'[w].rejs = sess[w].rejs
        /\ tasks' = tasks /\ SameTables
    BY <1>16, InsertRowEffect
  <2>2. /\ TaskId(w)' = TaskId(w) /\ (Committed(TaskId(w))' => Committed(TaskId(w)))
        /\ Counting(w)
    BY <2>1, SameCommitted
  <2>3. \A n, s : Covers(n, w, s) => Covers(n, w, s)'
    BY <2>1 DEF Covers
  <2>4. Counting(w)'
    BY <2>1, <2>2, <2>3 DEF Counting, SameProgress
  <2> QED BY <2>1, <2>4, KeepsCounting
<1>17. CASE Deadlock(w)
  <2>1. /\ GoesOn(w, "failed") /\ SameTables /\ tasks' = tasks /\ sess'[w] = EmptySession
    BY <1>17, DeadlockEffect
  <2>2. InPhase(w)
    BY <1>17 DEF Deadlock, WaitsFor, Inserting
  <2>3. ~Committed(TaskId(w))
    BY <2>2, RunningUncommitted
  <2>4. ~Committed(TaskId(w))'
    BY <2>1, <2>3 DEF Committed, RecordsOf, SameTables, GoesOn, TaskId
  <2>5. Counting(w)'
    BY <2>1, <2>4 DEF Counting, GoesOn
  <2> QED BY <2>1, <2>5, KeepsCounting
<1> QED
  BY <1>2, <1>3, <1>4, <1>5, <1>6, <1>7, <1>8, <1>9, <1>10, <1>11, <1>12, <1>13, <1>14, <1>15,
     <1>16, <1>17 DEF Works

LEMMA CountingStep == TInv /\ DInv /\ CInv /\ [Next]_vars => CInv'
<1> SUFFICES ASSUME TInv, DInv, CInv, [Next]_vars PROVE CInv'
  OBVIOUS
<1>1. ASSUME NEW w \in Workers, NEW j \in Jobs, Take(w, j) PROVE CInv'
  BY <1>1, TakesCounting
<1>2. ASSUME NEW w \in Workers, Works(w) PROVE CInv'
  BY <1>2, WorkCounting, OwnCounting
<1>3. CASE UNCHANGED vars
  <2>1. /\ tasks' = tasks /\ wk' = wk /\ sess' = sess /\ db' = db /\ dbRejs' = dbRejs
        /\ overlapped' = overlapped
    BY <1>3 DEF vars
  <2>2. \A t : RecordsOf(t)' = RecordsOf(t) /\ (Committed(t)' <=> Committed(t))
    BY <2>1 DEF RecordsOf, Committed
  <2>3. \A w \in Workers : (OnItsOwn(w)' <=> OnItsOwn(w)) /\ TaskId(w)' = TaskId(w)
    BY <2>1 DEF OnItsOwn, Busy, TaskId
  <2>4. \A t : Counted(t)' <=> Counted(t)
    BY <2>1, <2>2 DEF Counted
  <2>5. \A w \in Workers : Counting(w) => Counting(w)'
    BY <2>1, <2>2, <2>3 DEF Counting, SameProgress, Covers
  <2> QED BY <2>1, <2>2, <2>3, <2>4, <2>5 DEF CInv, OnItsOwn, Busy, TaskId
<1> QED BY <1>1, <1>2, <1>3, NextWorks

LEMMA CountingInit == Init => CInv
<1> SUFFICES ASSUME Init PROVE CInv
  OBVIOUS
<1>1. \A t : RecordsOf(t) = {}
  BY DEF Init, RecordsOf
<1>2. \A t \in Tasks : \A s \in Stages : dbRejs[t][s] = 0 /\ tasks[t].prog[s] = NoProgress
  BY DEF Init, CreateNew
<1>3. ASSUME NEW t \in Tasks PROVE Counted(t)
  <2>1. \A s \in Stages : /\ Cardinality(InStage(RecordsOf(t), s)) = 0 /\ dbRejs[t][s] = 0
                          /\ tasks[t].prog[s].processed = 0 /\ tasks[t].prog[s].rejected = 0
    BY <1>1, <1>2, EmptyCounts DEF NoProgress
  <2>2. ~Committed(t)
    BY <1>1, <1>2 DEF Committed
  <2> QED BY <2>1, <2>2 DEF Counted
<1>4. \A w \in Workers : ~OnItsOwn(w)
  BY DEF OnItsOwn, Init, Busy, Idle
<1> QED BY <1>3, <1>4 DEF CInv

-----------------------------------------------------------------------------
\* Committed rows lie behind a full checkpoint, at every moment, whatever call fails (its write
\* applied or not), whichever worker dies, and however often a task is dispatched, if its runs
\* do not overlap: so a message that is delivered again, and a second message, load no
\* committed row a second time.
THEOREM CommittedRowsAreCheckpointed == Spec => []CommittedIsCheckpointed
<1>1. CInv => CommittedIsCheckpointed
  BY DEF CInv, CommittedIsCheckpointed, Committed, Counted
<1> QED BY <1>1, TypeInit, TypeStep, PlacedInit, PlacedStep, CountingInit, CountingStep, PTL DEF Spec

\* What MySQL holds of a phase of a task is never more than what its progress in MongoDB says,
\* under the same conditions.
THEOREM StoredIsCounted == Spec => []NothingUncounted
<1>1. CInv => NothingUncounted
  BY DEF CInv, NothingUncounted, CountOf, InStage, Counted
<1> QED BY <1>1, TypeInit, TypeStep, PlacedInit, PlacedStep, CountingInit, CountingStep, PTL DEF Spec

-----------------------------------------------------------------------------
(***************************************************************************)
(* What a search sees.  The only step that stores anything is the commit,  *)
(* or a commit whose answer is lost; before it COMPLETED is saved.         *)
(***************************************************************************)
HInv ==
  \A w \in Workers : OnItsOwn(w) /\ wk[w].pc = "commit" => tasks[TaskId(w)].status = "completed"

LEMMA CommitComesAfterComplete ==
  ASSUME TInv, NEW w \in Workers, Works(w), wk'[w].pc = "commit"
  PROVE  Complete(w)
<1>1. NextCall(wk[w].stage) # "commit" /\ wk[w].cur \in TaskDocs
  BY Typed DEF NextCall
<1>2. ~SkipPhase(w) /\ ~EndPhase(w)
  BY <1>1, SkipPhaseEffect, EndPhaseEffect, AfterPhaseEffect DEF GoesOn
<1>3. /\ ~Setup(w) /\ ~FindTask(w) /\ ~StartTask(w) /\ ~InsertRow(w) /\ ~Deadlock(w)
      /\ ~RunChunk(w) /\ ~RaiseInChunk(w)
  BY SetupEffect, FindTaskEffect, StartTaskEffect, InsertRowEffect, DeadlockEffect, RunChunkEffect,
     RaiseInChunkEffect DEF GoesOn
<1>4. ~ReadIds(w) /\ ~BuildResult(w) /\ ~SaveFailed(w) /\ ~Commit(w)
  BY ReadIdsEffect, BuildResultEffect, SaveFailedEffect, CommitEffect DEF GoesOn
<1>5. ~InfraError(w) /\ ~LeavesJob(w)
  BY InfraErrorEffect, LeaveEffect DEF GoesOn, Leaves, Idle
<1> QED BY <1>2, <1>3, <1>4, <1>5 DEF Works

LEMMA CompletedStep == TInv /\ DInv /\ HInv /\ [Next]_vars => HInv'
<1> SUFFICES ASSUME TInv, DInv, HInv, [Next]_vars PROVE HInv'
  OBVIOUS
<1>1. ASSUME NEW w \in Workers, NEW j \in Jobs, Take(w, j) PROVE HInv'
  <2>1. /\ Frame(w) /\ wk'[w].pc = "setup" /\ tasks' = tasks /\ overlapped \subseteq overlapped'
    BY <1>1, TakeEffect
  <2> QED BY <2>1 DEF HInv, OnItsOwn, Frame, Busy, TaskId
<1>2. ASSUME NEW w \in Workers, Works(w) PROVE HInv'
  <2>1. OnlyOwn(w)
    BY <1>2, WorksOnItsOwn
  <2>2. ASSUME NEW v \in Workers, v # w, OnItsOwn(v)', wk'[v].pc = "commit"
        PROVE  tasks'[TaskId(v)'].status = "completed"
    <3>1. /\ wk'[v] = wk[v] /\ TaskId(v)' = TaskId(v) /\ OnItsOwn(v)
      BY <2>1, <2>2 DEF OnlyOwn, Frame, OnItsOwn, Busy, TaskId
    <3>2. TaskId(v) \in Tasks \ {TaskId(w)}
      BY <2>1, <2>2, <3>1, OwnTask, Typed DEF OnlyOwn, OnItsOwn
    <3> QED BY <2>1, <2>2, <3>1, <3>2 DEF HInv, OnlyOwn
  <2>3. ASSUME wk'[w].pc = "commit" PROVE tasks'[TaskId(w)'].status = "completed"
    <3>1. Complete(w)
      BY <1>2, <2>3, CommitComesAfterComplete
    <3>2. /\ GoesOn(w, "commit") /\ wk[w].pc = "complete" /\ Saves(w, wk[w].task)
      BY <3>1, CompleteEffect
    <3>3. tasks'[TaskId(w)] = wk[w].task /\ wk[w].task.status = "completed" /\ TaskId(w)' = TaskId(w)
      BY <3>2, Typed DEF Saves, GoesOn, TInv, TypeOK, DInv, Placed, TaskId
    <3> QED BY <3>3
  <2> QED BY <2>2, <2>3 DEF HInv
<1>3. CASE UNCHANGED vars
  BY <1>3 DEF vars, HInv, OnItsOwn, Busy, TaskId
<1> QED BY <1>1, <1>2, <1>3, NextWorks

LEMMA StoresAtOnce ==
  ASSUME TInv, DInv, CInv, HInv, [Next]_vars, NEW t \in Tasks \ overlapped,
         <<RecordsOf(t), dbRejs[t]>>' # <<RecordsOf(t), dbRejs[t]>>
  PROVE  /\ tasks[t].status = "completed"
         /\ RecordsOf(t) = {} /\ dbRejs[t] = [s \in Stages |-> 0]
<1>1. ~SameTables
  BY DEF SameTables, RecordsOf
<1>2. PICK w \in Workers : Works(w)
  BY <1>1, NextWorks, TakeEffect DEF vars, SameTables
<1>3. PICK p : Storing(w, p)
  BY <1>1, <1>2, WorkShapes DEF Saving, Leaving
<1>4. t = TaskId(w) /\ OnItsOwn(w)
  BY <1>2, <1>3, WorksOnItsOwn DEF OnlyOwn, OnItsOwn
<1>5. tasks[t].status = "completed" /\ Counting(w)
  BY <1>3, <1>4 DEF HInv, Storing, CInv
<1>6. ~Committed(t)
  <2> SUFFICES ASSUME Committed(t) PROVE FALSE
    OBVIOUS
  <2>1. sess[w].rows = {} /\ \A s \in Stages : sess[w].rejs[s] = 0
    BY <1>4, <1>5 DEF Counting
  <2>2. RecordsOf(t)' = RecordsOf(t)
    BY <2>1, <1>3 DEF Storing, Commits, RecordsOf
  <2>3. dbRejs \in [Tasks -> [Stages -> Nat]] /\ dbRejs[t] \in [Stages -> Nat]
    BY DEF TInv, TypeOK
  <2>4. dbRejs'[t] = [s \in Stages |-> dbRejs[t][s] + sess[w].rejs[s]]
    BY <1>3, <1>4, <2>3 DEF Storing, Commits
  <2>5. dbRejs'[t] = dbRejs[t]
    BY <2>1, <2>3, <2>4
  <2> QED BY <2>2, <2>5
<1>7. dbRejs[t] = [s \in Stages |-> 0]
  <2>1. dbRejs[t] \in [Stages -> Nat] /\ \A s \in Stages : dbRejs[t][s] = 0
    BY <1>6 DEF TInv, TypeOK, Committed
  <2> QED BY <2>1
<1> QED BY <1>5, <1>6, <1>7 DEF Committed

\* What MySQL has of a task appears in one step, after its COMPLETED has been saved, and nothing
\* is added later: whatever call fails (a commit whose answer is lost, too), whichever worker
\* dies, and however often the task is dispatched, if its runs do not overlap.
THEOREM RecordsAppearAtOnce == Spec => StoredAtOnce
<1>1. Init => HInv
  BY DEF Init, HInv, OnItsOwn, Busy, Idle
<1>2. TInv /\ DInv /\ CInv /\ HInv /\ [Next]_vars =>
        [\A t \in Tasks \ overlapped :
           <<RecordsOf(t), dbRejs[t]>>' # <<RecordsOf(t), dbRejs[t]>> =>
             /\ tasks[t].status = "completed"
             /\ RecordsOf(t) = {} /\ dbRejs[t] = [s \in Stages |-> 0]]_vars
  BY StoresAtOnce
<1> QED
  BY <1>1, <1>2, TypeInit, TypeStep, PlacedInit, PlacedStep, CountingInit, CountingStep,
     CompletedStep, PTL DEF Spec, StoredAtOnce

-----------------------------------------------------------------------------
(***************************************************************************)
(* The links.  The ids are read from what the session itself has written,  *)
(* if it has written any selection: then nothing of the task is committed, *)
(* and every odd tag and label loaded after it is checked against them.    *)
(***************************************************************************)
AllLinked(S) == LET ids == VideosOf(S, Selection) IN ids = {} \/ \A rec \in S : rec.video \in ids

LinkedRows(w) ==
  LET ids == VideosOf(sess[w].rows, Selection)
  IN /\ AllLinked(sess[w].rows)
     /\ wk[w].pc = "ids" \/ (wk[w].pc = "phase" /\ wk[w].stage = Selection) =>
          \A rec \in sess[w].rows : rec.stage = Selection
     /\ wk[w].pc = "phase" /\ wk[w].stage # Selection /\ ids # {} => wk[w].ids = ids

KInv ==
  /\ \A t \in Tasks \ overlapped : AllLinked(RecordsOf(t))
  /\ \A w \in Workers : sess[w].read => sess[w].snap \subseteq db
  /\ \A w \in Workers : OnItsOwn(w) => LinkedRows(w)

LEMMA SessionShapes ==
  ASSUME TInv, NEW w \in Workers, Works(w)
  PROVE  \/ sess'[w].read = sess[w].read /\ sess'[w].snap = sess[w].snap
         \/ sess'[w] = EmptySession
         \/ sess'[w].snap = Snapshot(w)
<1>1. CASE Setup(w) \/ FindTask(w) \/ StartTask(w) \/ InsertRow(w) \/ Deadlock(w) \/ RunChunk(w)
  BY <1>1, SetupEffect, FindTaskEffect, StartTaskEffect, InsertRowEffect, DeadlockEffect,
     RunChunkEffect
<1>2. CASE RaiseInChunk(w) \/ ReadIds(w) \/ BuildResult(w) \/ Complete(w) \/ SaveFailed(w)
  BY <1>2, RaiseInChunkEffect, ReadIdsEffect, BuildResultEffect, CompleteEffect, SaveFailedEffect
<1>3. CASE SkipPhase(w) \/ EndPhase(w) \/ Commit(w)
  BY <1>3, SkipPhaseEffect, EndPhaseEffect, CommitEffect
<1>4. CASE InfraError(w)
  BY <1>4, InfraErrorEffect
<1>5. CASE LeavesJob(w)
  BY <1>5, LeaveEffect DEF Leaves
<1> QED BY <1>1, <1>2, <1>3, <1>4, <1>5 DEF Works

LEMMA SnapshotsAreOld ==
  ASSUME TInv, DInv, KInv, NEW w \in Workers, Works(w)
  PROVE  \A v \in Workers : sess'[v].read => sess'[v].snap \subseteq db'
<1>1. Frame(w) /\ db \subseteq db'
  BY WorksOnItsOwn DEF OnlyOwn
<1>2. ASSUME NEW v \in Workers, v # w, sess'[v].read PROVE sess'[v].snap \subseteq db'
  BY <1>1, <1>2 DEF Frame, KInv
<1>3. sess'[w].read => sess'[w].snap \subseteq db'
  <2>1. ~EmptySession.read
    BY DEF EmptySession
  <2>2. Snapshot(w) \subseteq db /\ (sess[w].read => sess[w].snap \subseteq db)
    BY DEF Snapshot, KInv
  <2> QED BY <1>1, <2>1, <2>2, SessionShapes
<1> QED BY <1>2, <1>3

\* A step that leaves the rows of the session alone, or drops them, and no phase goes on.
LEMMA StillLinked ==
  ASSUME KInv, NEW w \in Workers, OnItsOwn(w),
         sess'[w].rows = sess[w].rows \/ sess'[w] = EmptySession,
         wk'[w].pc \notin {"phase", "ids"}
  PROVE  LinkedRows(w)'
<1>1. AllLinked(sess[w].rows) /\ AllLinked({})
  BY DEF KInv, LinkedRows, AllLinked
<1> QED BY <1>1 DEF LinkedRows, EmptySession, AllLinked

LEMMA ChunkLinked ==
  ASSUME TInv, KInv, NEW w \in Workers, OnItsOwn(w), RunChunk(w)
  PROVE  LinkedRows(w)'
<1> DEFINE ids == VideosOf(sess[w].rows, Selection)
<1>1. /\ wk[w].pc = "phase" /\ wk'[w].pc = "phase" /\ wk'[w].stage = wk[w].stage
      /\ wk'[w].ids = wk[w].ids /\ sess'[w].rows = sess[w].rows \union Inserted(w)
  BY RunChunkEffect DEF GoesOn
<1>2. /\ \A rec \in Inserted(w) : rec.stage = wk[w].stage
      /\ Inserted(w) \subseteq ChunkRecords(w)
  BY RunChunkEffect, ChunkWrites DEF OnItsOwn
<1>3. LinkedRows(w)
  BY DEF KInv
<1>4. CASE wk[w].stage = Selection
  <2>1. \A rec \in sess'[w].rows : rec.stage = Selection
    BY <1>1, <1>2, <1>3, <1>4 DEF LinkedRows
  <2> QED BY <1>1, <1>4, <2>1 DEF LinkedRows, AllLinked, VideosOf
<1>5. CASE wk[w].stage # Selection
  <2>1. VideosOf(sess'[w].rows, Selection) = ids
    BY <1>1, <1>2, <1>5 DEF VideosOf
  <2>2. ids # {} => wk[w].ids = ids /\ \A rec \in sess[w].rows : rec.video \in ids
    BY <1>1, <1>3, <1>5 DEF LinkedRows, AllLinked
  <2>3. ASSUME ids # {}, NEW rec \in Inserted(w) PROVE rec.video \in ids
    BY <1>2, <2>2, <2>3 DEF ChunkRecords, ValidRows, Valid, Linked, Record
  <2>4. ids # {} => \A rec \in sess'[w].rows : rec.video \in ids
    BY <1>1, <2>2, <2>3
  <2> HIDE DEF ids
  <2> QED BY <1>1, <1>5, <2>1, <2>2, <2>4 DEF LinkedRows, AllLinked
<1> QED BY <1>4, <1>5

LEMMA IdsLinked ==
  ASSUME TInv, DInv, CInv, KInv, NEW w \in Workers, OnItsOwn(w), ReadIds(w)
  PROVE  LinkedRows(w)'
<1> DEFINE ids == VideosOf(sess[w].rows, Selection)
           t == TaskId(w)
<1>1. /\ wk[w].pc = "ids" /\ wk'[w].pc = "phase" /\ wk'[w].ids = FindVideos(w, Selection, t)
      /\ sess'[w].rows = sess[w].rows
  BY ReadIdsEffect DEF GoesOn
<1>2. /\ AllLinked(sess[w].rows) /\ \A rec \in sess[w].rows : rec.stage = Selection /\ rec.task = t
  BY <1>1 DEF KInv, LinkedRows, DInv, Placed
<1>3. ASSUME ids # {} PROVE FindVideos(w, Selection, t) = ids
  <2>1. sess[w].rows # {}
    BY <1>3 DEF VideosOf
  <2>2. RecordsOf(t) = {}
    BY <2>1 DEF CInv, Counting, Committed
  <2>3. \A rec \in Snapshot(w) : rec.task # t
    BY <2>2 DEF Snapshot, KInv, RecordsOf
  <2> QED BY <1>2, <2>3 DEF FindVideos, VideosOf
<1> HIDE DEF ids, t
<1> QED BY <1>1, <1>2, <1>3 DEF LinkedRows, ids

LEMMA WorkLinked ==
  ASSUME TInv, DInv, CInv, KInv, NEW w \in Workers, OnItsOwn(w), Works(w)
  PROVE  LinkedRows(w)'
<1>1. CASE Setup(w) \/ FindTask(w) \/ Deadlock(w) \/ RaiseInChunk(w) \/ BuildResult(w)
  BY <1>1, StillLinked, SetupEffect, FindTaskEffect, DeadlockEffect, RaiseInChunkEffect,
     BuildResultEffect DEF GoesOn
<1>2. CASE Complete(w) \/ SaveFailed(w) \/ Commit(w) \/ LeavesJob(w)
  BY <1>2, StillLinked, CompleteEffect, SaveFailedEffect, CommitEffect, LeaveEffect
     DEF GoesOn, Leaves, Idle
<1>3. CASE InfraError(w)
  BY <1>3, StillLinked, InfraErrorEffect DEF GoesOn
<1>4. CASE StartTask(w)
  <2>1. /\ wk'[w].pc = "phase" /\ wk'[w].stage = Selection /\ sess'[w].rows = {}
    BY <1>4, StartTaskEffect DEF GoesOn, SamePlace, DInv, Placed, EmptySession
  <2> QED BY <2>1 DEF LinkedRows, AllLinked, VideosOf
<1>5. CASE SkipPhase(w) \/ EndPhase(w)
  <2>1. /\ wk[w].pc = "phase" /\ wk[w].stage \in Stages /\ sess' = sess
        /\ wk'[w].pc = NextCall(wk[w].stage) /\ wk'[w].ids = wk[w].ids
        /\ wk[w].stage # AutoLabeling => wk'[w].stage = wk[w].stage + 1
    BY <1>5, SkipPhaseEffect, EndPhaseEffect, AfterPhaseEffect, Typed DEF GoesOn
  <2>2. LinkedRows(w)
    BY DEF KInv
  <2> QED BY <2>1, <2>2 DEF LinkedRows, NextCall, Stages, Selection, OddTagging, AutoLabeling
<1>6. CASE InsertRow(w)
  BY <1>6, InsertRowEffect DEF KInv, LinkedRows
<1> QED BY <1>1, <1>2, <1>3, <1>4, <1>5, <1>6, ChunkLinked, IdsLinked DEF Works

\* What a commit stores of a task is what its one session holds.
LEMMA StoredLinked ==
  ASSUME TInv, DInv, CInv, KInv, NEW w \in Workers, Works(w), NEW t \in Tasks \ overlapped
  PROVE  AllLinked(RecordsOf(t)')
<1>1. CASE t # TaskId(w)
  BY <1>1, WorksOnItsOwn DEF OnlyOwn, KInv
<1>2. CASE SameTables
  BY <1>2 DEF SameTables, RecordsOf, KInv
<1>3. CASE t = TaskId(w) /\ \E p : Storing(w, p)
  <2>1. OnItsOwn(w) /\ \A rec \in sess[w].rows : rec.task = t
    BY <1>3, WorksOnItsOwn DEF OnlyOwn, OnItsOwn, DInv, Placed
  <2>2. RecordsOf(t)' = RecordsOf(t) \union sess[w].rows
    BY <1>3, <2>1 DEF Storing, Commits, RecordsOf
  <2>3. RecordsOf(t) = {} \/ sess[w].rows = {}
    BY <1>3, <2>1 DEF CInv, Counting, Committed
  <2>4. AllLinked(RecordsOf(t)) /\ AllLinked(sess[w].rows)
    BY <2>1 DEF KInv, LinkedRows
  <2>5. RecordsOf(t)' = RecordsOf(t) \/ RecordsOf(t)' = sess[w].rows
    BY <2>2, <2>3
  <2> QED BY <2>4, <2>5
<1> QED BY <1>1, <1>2, <1>3, WorkShapes DEF Saving, Leaving

LEMMA LinkedStep == TInv /\ DInv /\ CInv /\ KInv /\ [Next]_vars => KInv'
<1> SUFFICES ASSUME TInv, DInv, CInv, KInv, [Next]_vars PROVE KInv'
  OBVIOUS
<1>1. ASSUME NEW w \in Workers, NEW j \in Jobs, Take(w, j) PROVE KInv'
  <2>1. /\ Frame(w) /\ sess' = sess /\ sess[w] = EmptySession /\ wk'[w].pc = "setup"
        /\ db' = db /\ overlapped \subseteq overlapped'
    BY <1>1, TakeEffect DEF SameTables
  <2>2. LinkedRows(w)'
    BY <2>1 DEF LinkedRows, AllLinked, EmptySession, VideosOf
  <2>3. ASSUME NEW v \in Workers, v # w, OnItsOwn(v)' PROVE LinkedRows(v)'
    <3>1. wk'[v] = wk[v] /\ OnItsOwn(v)
      BY <2>1, <2>3 DEF OnItsOwn, Frame, Busy, TaskId
    <3> QED BY <2>1, <3>1 DEF KInv, LinkedRows
  <2> QED BY <2>1, <2>2, <2>3 DEF KInv, RecordsOf
<1>2. ASSUME NEW w \in Workers, Works(w) PROVE KInv'
  <2>1. OnlyOwn(w)
    BY <1>2, WorksOnItsOwn
  <2>2. ASSUME NEW v \in Workers, v # w, OnItsOwn(v)' PROVE LinkedRows(v)'
    <3>1. wk'[v] = wk[v] /\ sess'[v] = sess[v] /\ OnItsOwn(v)
      BY <2>1, <2>2 DEF OnlyOwn, OnItsOwn, Frame, Busy, TaskId
    <3> QED BY <3>1 DEF KInv, LinkedRows
  <2>3. OnItsOwn(w)' => LinkedRows(w)'
    <3>1. OnItsOwn(w)' => OnItsOwn(w)
      BY <2>1 DEF OnlyOwn, OnItsOwn, TaskId
    <3> QED BY <1>2, <3>1, WorkLinked
  <2>4. \A t \in Tasks \ overlapped' : AllLinked(RecordsOf(t)')
    BY <1>2, <2>1, StoredLinked DEF OnlyOwn
  <2> QED BY <1>2, <2>2, <2>3, <2>4, SnapshotsAreOld DEF KInv
<1>3. CASE UNCHANGED vars
  BY <1>3 DEF vars, KInv, OnItsOwn, Busy, TaskId, LinkedRows, RecordsOf
<1> QED BY <1>1, <1>2, <1>3, NextWorks

LEMMA LinkedInit == Init => KInv
BY DEF Init, KInv, OnItsOwn, Busy, Idle, AllLinked, RecordsOf, VideosOf, EmptySession

\* A task that has any selection in MySQL has one for each of its odd tags and labels, whatever
\* selections other tasks have stored before, and under the conditions of the theorems above.
\* (A task all of whose selections another task holds is not checked at all.)
THEOREM SelectionsLinkRecords == Spec => []LinkedWhenSelected
<1>1. KInv => LinkedWhenSelected
  BY DEF KInv, LinkedWhenSelected, AllLinked
<1> QED
  BY <1>1, LinkedInit, TypeInit, TypeStep, PlacedInit, PlacedStep, CountingInit, CountingStep,
     LinkedStep, PTL DEF Spec
=============================================================================
