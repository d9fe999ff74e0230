--------------------------- MODULE PipelineProofs ---------------------------
(***************************************************************************)
(* Theorems about Pipeline, for any number of tasks, jobs and workers, any *)
(* raw rows, retries and faults.                                           *)
(***************************************************************************)
EXTENDS Pipeline, FiniteSetTheorems, TLAPS

\* A message is reserved by one worker, and a running job has a worker; a worker that has
\* nothing to do has an empty session.
Reserved ==
  /\ \A w \in Workers : ~Busy(w) => wk[w] = Idle /\ sess[w] = EmptySession
  /\ \A v, w \in Workers : Busy(v) /\ Busy(w) /\ wk[v].job = wk[w].job => v = w
  /\ \A j \in Jobs : jobs[j].state = "running" => \E w \in Workers : Busy(w) /\ wk[w].job = j

\* Counting needs finite tables.
Finite ==
  /\ IsFiniteSet(db)
  /\ \A w \in Workers : IsFiniteSet(sess[w].rows) /\ IsFiniteSet(sess[w].snap)

\* Two workers run jobs of one task only if it is one of the overlapped tasks.
Alone ==
  \A v, w \in Workers :
    v # w /\ Busy(v) /\ Busy(w) /\ TaskId(v) = TaskId(w) => TaskId(w) \in overlapped

TInv == TypeOK /\ Reserved /\ Alone /\ Finite

-----------------------------------------------------------------------------
(***************************************************************************)
(* Local variables, sessions and documents: what may be written into them. *)
(***************************************************************************)
LEMMA NewTask == CreateNew \in TaskDocs /\ Idle \in Locals /\ EmptySession \in Sessions
<1>1. CreateNew \in TaskDocs
  BY DEF CreateNew, TaskDocs, NoProgress, NoResult, Stages, Selection, OddTagging, AutoLabeling
<1>2. Idle \in Locals
  BY <1>1 DEF Idle, Locals, Stages, Selection, Raises
<1>3. EmptySession \in Sessions
  BY DEF EmptySession, Sessions, Keys
<1> QED BY <1>1, <1>2, <1>3

LEMMA TaskWrites ==
  ASSUME NEW t \in TaskDocs
  PROVE  /\ StartProcessing(t) \in TaskDocs /\ FailWith(t) \in TaskDocs
         /\ StartProcessing(t).status = "processing" /\ FailWith(t).status = "failed"
         /\ StartProcessing(t).last = t.last /\ FailWith(t).last = t.last
         /\ StartProcessing(t).prog = t.prog /\ FailWith(t).prog = t.prog
BY DEF TaskDocs, StartProcessing, FailWith

LEMMA CheckpointWrites ==
  ASSUME NEW t \in TaskDocs, NEW s \in Stages, NEW n \in Nat, NEW m \in Nat
  PROVE  /\ WithCompletedPhase(t, s, n, m) \in TaskDocs
         /\ WithCompletedPhase(t, s, n, m).status = t.status
         /\ WithCompletedPhase(t, s, n, m).last = s
         /\ WithCompletedPhase(t, s, n, m).prog =
              [t.prog EXCEPT ![s] = [processed |-> n, rejected |-> m]]
BY DEF TaskDocs, WithCompletedPhase

LEMMA ResultWrites ==
  ASSUME NEW t \in TaskDocs,
         NEW r \in [linked : Nat, partial : Nat,
                    stages : SUBSET (Stages \X [processed : Nat, rejected : Nat])]
  PROVE  /\ CompleteWith(t, r) \in TaskDocs /\ CompleteWith(t, r).status = "completed"
         /\ CompleteWith(t, r).last = t.last /\ CompleteWith(t, r).prog = t.prog
BY DEF TaskDocs, CompleteWith

\* The image of a finite set is finite.
LEMMA ImageFinite ==
  ASSUME NEW S, IsFiniteSet(S), NEW f, DOMAIN f = S
  PROVE  IsFiniteSet({f[x] : x \in S}) /\ Cardinality({f[x] : x \in S}) <= Cardinality(S)
<1> DEFINE T == {f[x] : x \in S}
<1>1. [x \in S |-> f[x]] \in Surjection(S, T)
  BY DEF Surjection
<1> QED BY <1>1, FS_Surjection

-----------------------------------------------------------------------------
(***************************************************************************)
(* The local variables of one worker: each lemma is about one of the       *)
(* assignments the actions make.                                           *)
(***************************************************************************)
Pcs == Calls \union {"idle", "rollback", "ack"}

SamePlace(l, k) ==
  /\ l.stage = k.stage /\ l.chunk = k.chunk /\ l.ids = k.ids
  /\ l.loaded = k.loaded /\ l.rejected = k.rejected
SameObjects(l, k) == l.task = k.task /\ l.cur = k.cur

ToCall(k, p) == [k EXCEPT !.pc = p]
ToJob(k, p, j) == [k EXCEPT !.pc = p, !.job = j]
ToError(k, p, e) == [k EXCEPT !.pc = p, !.exc = e]
ToTask(k, p, t) == [k EXCEPT !.pc = p, !.task = t]
ToCur(k, p, t) == [k EXCEPT !.pc = p, !.cur = t]
ToIds(k, p, ids) == [k EXCEPT !.pc = p, !.ids = ids]
ToChunk(k, c, n, m) == [k EXCEPT !.chunk = c, !.loaded = n, !.rejected = m]
ToPhase(k, p, t, u, s) == [k EXCEPT !.pc = p, !.cur = t, !.task = u, !.stage = s,
                                      !.chunk = 1, !.loaded = 0, !.rejected = 0]

LEMMA ToCallWrites ==
  ASSUME NEW k \in Locals, NEW p \in Pcs
  PROVE  LET l == ToCall(k, p)
         IN /\ l \in Locals /\ l.pc = p /\ l.job = k.job /\ l.exc = k.exc
            /\ SameObjects(l, k) /\ SamePlace(l, k)
BY DEF ToCall, Locals, Pcs, SameObjects, SamePlace

LEMMA ToJobWrites ==
  ASSUME NEW k \in Locals, NEW p \in Pcs, NEW j \in Jobs
  PROVE  LET l == ToJob(k, p, j)
         IN /\ l \in Locals /\ l.pc = p /\ l.job = j /\ l.exc = k.exc
            /\ SameObjects(l, k) /\ SamePlace(l, k)
BY DEF ToJob, Locals, Pcs, SameObjects, SamePlace

LEMMA ToErrorWrites ==
  ASSUME NEW k \in Locals, NEW p \in Pcs, NEW e \in Raises
  PROVE  LET l == ToError(k, p, e)
         IN /\ l \in Locals /\ l.pc = p /\ l.job = k.job /\ l.exc = e
            /\ SameObjects(l, k) /\ SamePlace(l, k)
BY DEF ToError, Locals, Pcs, SameObjects, SamePlace

LEMMA ToTaskWrites ==
  ASSUME NEW k \in Locals, NEW p \in Pcs, NEW t \in TaskDocs
  PROVE  LET l == ToTask(k, p, t)
         IN /\ l \in Locals /\ l.pc = p /\ l.job = k.job /\ l.exc = k.exc
            /\ l.task = t /\ l.cur = k.cur /\ SamePlace(l, k)
BY DEF ToTask, Locals, Pcs, SamePlace

LEMMA ToCurWrites ==
  ASSUME NEW k \in Locals, NEW p \in Pcs, NEW t \in TaskDocs
  PROVE  LET l == ToCur(k, p, t)
         IN /\ l \in Locals /\ l.pc = p /\ l.job = k.job /\ l.exc = k.exc
            /\ l.task = k.task /\ l.cur = t /\ SamePlace(l, k)
BY DEF ToCur, Locals, Pcs, SamePlace

LEMMA ToIdsWrites ==
  ASSUME NEW k \in Locals, NEW p \in Pcs, NEW ids \in SUBSET Videos
  PROVE  LET l == ToIds(k, p, ids)
         IN /\ l \in Locals /\ l.pc = p /\ l.job = k.job /\ l.exc = k.exc
            /\ SameObjects(l, k) /\ l.stage = k.stage /\ l.chunk = k.chunk /\ l.ids = ids
            /\ l.loaded = k.loaded /\ l.rejected = k.rejected
BY DEF ToIds, Locals, Pcs, SameObjects

LEMMA ToChunkWrites ==
  ASSUME NEW k \in Locals, NEW c \in Nat \ {0}, NEW n \in Nat, NEW m \in Nat
  PROVE  LET l == ToChunk(k, c, n, m)
         IN /\ l \in Locals /\ l.pc = k.pc /\ l.job = k.job /\ l.exc = k.exc
            /\ SameObjects(l, k) /\ l.stage = k.stage /\ l.chunk = c /\ l.ids = k.ids
            /\ l.loaded = n /\ l.rejected = m
BY DEF ToChunk, Locals, Pcs, SameObjects

LEMMA ToPhaseWrites ==
  ASSUME NEW k \in Locals, NEW p \in Pcs, NEW t \in TaskDocs, NEW u \in TaskDocs,
         NEW s \in Stages
  PROVE  LET l == ToPhase(k, p, t, u, s)
         IN /\ l \in Locals /\ l.pc = p /\ l.job = k.job /\ l.exc = k.exc
            /\ l.cur = t /\ l.task = u /\ l.stage = s /\ l.chunk = 1 /\ l.ids = k.ids
            /\ l.loaded = 0 /\ l.rejected = 0
<1>1. PICK n \in Nat, c \in Nat \ {0} : n = 0 /\ c = 1
  OBVIOUS
<1>2. PICK l : l = [k EXCEPT !.pc = p, !.cur = t, !.task = u, !.stage = s,
                             !.chunk = c, !.loaded = n, !.rejected = n]
  OBVIOUS
<1>3. /\ l \in Locals /\ l.pc = p /\ l.job = k.job /\ l.exc = k.exc
      /\ l.cur = t /\ l.task = u /\ l.stage = s /\ l.chunk = c /\ l.ids = k.ids
      /\ l.loaded = n /\ l.rejected = n
  BY <1>2 DEF Locals, Pcs
<1> QED BY <1>1, <1>2, <1>3 DEF ToPhase

\* The worker has written l; the others have not moved.
LEMMA Writing ==
  ASSUME wk \in [Workers -> Locals], NEW w \in Workers, NEW l \in Locals,
         wk' = [wk EXCEPT ![w] = l]
  PROVE  /\ wk' \in [Workers -> Locals] /\ wk'[w] = l
         /\ \A v \in Workers \ {w} : wk'[v] = wk[v]
OBVIOUS

\* The types of what an action reads.
LEMMA Typed ==
  ASSUME TInv, NEW w \in Workers
  PROVE  /\ wk[w] \in Locals /\ wk[w].pc \in Pcs /\ wk[w].exc \in Raises
         /\ wk[w].task \in TaskDocs /\ wk[w].cur \in TaskDocs /\ wk[w].stage \in Stages
         /\ wk[w].chunk \in Nat \ {0} /\ wk[w].loaded \in Nat /\ wk[w].rejected \in Nat
         /\ wk[w].ids \subseteq Videos
         /\ sess[w] \in Sessions /\ sess[w].rows \subseteq Records /\ sess[w].snap \subseteq Records
         /\ sess[w].rejs \in [Stages -> Nat]
         /\ IsFiniteSet(sess[w].rows) /\ IsFiniteSet(sess[w].snap)
         /\ Busy(w) => /\ wk[w].job \in Jobs /\ TaskId(w) \in Tasks
                       /\ jobs[wk[w].job] \in Messages
                       /\ tasks[TaskId(w)] \in TaskDocs
<1>1. wk[w] \in Locals /\ sess[w] \in Sessions
  BY DEF TInv, TypeOK
<1>2. Busy(w) => wk[w].job \in Jobs
  BY DEF TInv, TypeOK, Busy
<1>3. Busy(w) => /\ TaskId(w) \in Tasks /\ jobs[wk[w].job] \in Messages
                 /\ tasks[TaskId(w)] \in TaskDocs
  BY <1>2, PipelineAssumption DEF TInv, TypeOK, TaskId, PipelineAssumption
<1>4. /\ wk[w].pc \in Pcs /\ wk[w].exc \in Raises
      /\ wk[w].task \in TaskDocs /\ wk[w].cur \in TaskDocs /\ wk[w].stage \in Stages
      /\ wk[w].chunk \in Nat \ {0} /\ wk[w].loaded \in Nat /\ wk[w].rejected \in Nat
      /\ wk[w].ids \subseteq Videos
  BY <1>1 DEF Locals, Pcs
<1>5. /\ sess[w].rows \subseteq Records /\ sess[w].snap \subseteq Records
      /\ sess[w].rejs \in [Stages -> Nat]
  BY <1>1 DEF Sessions
<1> QED BY <1>1, <1>2, <1>3, <1>4, <1>5 DEF TInv, Finite

-----------------------------------------------------------------------------
(***************************************************************************)
(* What the operators that read rows and records return.                   *)
(***************************************************************************)
\* The rows of a task are rows as PipelineAssumption describes them.
LEMMA ChunkTyped ==
  ASSUME TInv, NEW w \in Workers, Busy(w), ChunksLeft(w)
  PROVE  /\ Chunk(w) \subseteq Rows(TaskId(w), wk[w].stage) /\ IsFiniteSet(Chunk(w))
         /\ \A row \in Chunk(w) : /\ row.errors \in Nat /\ row.raises \in Raises
                                  /\ row \in AllRows
<1>1. TaskId(w) \in Tasks /\ wk[w].stage \in Stages /\ wk[w].chunk \in Nat \ {0}
  BY Typed
<1> DEFINE seq == Raw[TaskId(w)][wk[w].stage]
<1>2. wk[w].chunk \in DOMAIN seq
  BY <1>1, PipelineAssumption DEF ChunksLeft, PipelineAssumption
<1>3. Chunk(w) \subseteq Rows(TaskId(w), wk[w].stage)
  BY <1>2 DEF Rows, Chunk
<1>4. Rows(TaskId(w), wk[w].stage) \subseteq AllRows
  <2>1. <<TaskId(w), wk[w].stage>> \in Tasks \X Stages
    BY <1>1
  <2> QED BY <2>1 DEF AllRows
<1>5. /\ IsFiniteSet(seq[wk[w].chunk])
      /\ \A row \in seq[wk[w].chunk] : row.errors \in Nat /\ row.raises \in Raises
  BY <1>1, <1>2, PipelineAssumption DEF PipelineAssumption
<1> QED BY <1>3, <1>4, <1>5 DEF Chunk

\* refine_single returns finitely many rejections for a chunk.
LEMMA RowRejectionsFinite ==
  ASSUME NEW chunk, IsFiniteSet(chunk), \A row \in chunk : row.errors \in Nat
  PROVE  IsFiniteSet(RowRejections(chunk))
<1> DEFINE of == [row \in chunk |-> {<<row, n>> : n \in 1 .. row.errors}]
<1>1. IsFiniteSet({of[row] : row \in chunk})
  BY ImageFinite, Zenon
<1>2. ASSUME NEW row \in chunk PROVE IsFiniteSet(of[row])
  <2> DEFINE nth == [n \in 1 .. row.errors |-> <<row, n>>]
  <2>1. IsFiniteSet(1 .. row.errors)
    BY FS_Interval
  <2>2. IsFiniteSet({nth[n] : n \in 1 .. row.errors})
    BY <2>1, ImageFinite, Zenon
  <2>3. {nth[n] : n \in 1 .. row.errors} = of[row]
    OBVIOUS
  <2> QED BY <2>2, <2>3
<1>3. IsFiniteSet(UNION {of[row] : row \in chunk})
  BY <1>1, <1>2, FS_UNION
<1>4. RowRejections(chunk) = UNION {of[row] : row \in chunk}
  BY DEF RowRejections
<1> QED BY <1>3, <1>4

\* A chunk is turned into finitely many records of the task and the stage, and into a
\* number of rejections.
LEMMA ChunkWrites ==
  ASSUME TInv, NEW w \in Workers, Busy(w), ChunksLeft(w)
  PROVE  /\ ChunkRecords(w) \subseteq Records /\ IsFiniteSet(ChunkRecords(w))
         /\ Inserted(w) \subseteq ChunkRecords(w) /\ IsFiniteSet(Inserted(w))
         /\ Cardinality(Inserted(w)) \in Nat
         /\ \A rec \in ChunkRecords(w) : rec.task = TaskId(w) /\ rec.stage = wk[w].stage
         /\ ChunkRejections(w) \in Nat
<1> USE ChunkTyped
<1> DEFINE of == [row \in ValidRows(w) |-> Record(TaskId(w), wk[w].stage, row)]
<1>1. IsFiniteSet(ValidRows(w))
  BY FS_Subset DEF ValidRows
<1>2. IsFiniteSet({of[row] : row \in ValidRows(w)})
  BY <1>1, ImageFinite, Zenon
<1>3. ChunkRecords(w) = {of[row] : row \in ValidRows(w)}
  BY DEF ChunkRecords
<1>4. ASSUME NEW row \in Chunk(w)
      PROVE  LET rec == Record(TaskId(w), wk[w].stage, row)
             IN rec \in Records /\ rec.task = TaskId(w) /\ rec.stage = wk[w].stage
  <2>1. TaskId(w) \in Tasks /\ wk[w].stage \in Stages /\ row \in AllRows
    BY Typed
  <2> QED BY <2>1 DEF Record, Records, Videos
<1>5. /\ ChunkRecords(w) \subseteq Records
      /\ \A rec \in ChunkRecords(w) : rec.task = TaskId(w) /\ rec.stage = wk[w].stage
  BY <1>4 DEF ChunkRecords, ValidRows
<1>6. Inserted(w) \subseteq ChunkRecords(w) /\ IsFiniteSet(Inserted(w))
  BY <1>2, <1>3, FS_Subset DEF Inserted
<1>7. Cardinality(Inserted(w)) \in Nat
  BY <1>6, FS_CardinalityType
<1>8. Cardinality(RowRejections(Chunk(w))) \in Nat
  BY RowRejectionsFinite, FS_CardinalityType
<1> DEFINE unlinked == {row \in Chunk(w) : row.errors = 0 /\ ~Linked(w, row)}
           duplicates == Cardinality(ValidRows(w)) - Cardinality(Inserted(w))
<1>9. Cardinality(unlinked) \in Nat
  <2>1. IsFiniteSet(unlinked)
    BY FS_Subset
  <2> QED BY <2>1, FS_CardinalityType
<1>10. (IF duplicates > 0 THEN 1 ELSE 0) \in Nat
  OBVIOUS
<1>11. ChunkRejections(w) \in Nat
  <2> HIDE DEF unlinked
  <2> QED BY <1>8, <1>9, <1>10 DEF ChunkRejections, unlinked
<1> QED BY <1>2, <1>3, <1>5, <1>6, <1>7, <1>11

\* A session sees finitely many videos of a stage, which are those of the raw rows.
LEMMA VideosFound ==
  ASSUME TInv, NEW w \in Workers, NEW s, NEW t
  PROVE  /\ Snapshot(w) \subseteq Records /\ IsFiniteSet(Snapshot(w))
         /\ FindVideos(w, s, t) \subseteq Videos /\ IsFiniteSet(FindVideos(w, s, t))
<1> DEFINE seen == {r \in Snapshot(w) \union sess[w].rows : r.stage = s /\ r.task = t}
           video == [rec \in seen |-> rec.video]
<1>1. Snapshot(w) \subseteq Records /\ IsFiniteSet(Snapshot(w))
  <2>1. db \subseteq Records /\ IsFiniteSet(db)
    BY DEF TInv, TypeOK, Finite
  <2> QED BY <2>1, Typed DEF Snapshot
<1>2. seen \subseteq Records /\ IsFiniteSet(seen)
  <2>1. IsFiniteSet(Snapshot(w) \union sess[w].rows)
    BY <1>1, Typed, FS_Union
  <2> QED BY <2>1, <1>1, Typed, FS_Subset
<1>3. IsFiniteSet({video[rec] : rec \in seen})
  BY <1>2, ImageFinite, Zenon
<1>4. FindVideos(w, s, t) = {video[rec] : rec \in seen}
  BY DEF FindVideos
<1>5. {video[rec] : rec \in seen} \subseteq Videos
  BY <1>2 DEF Records
<1> QED BY <1>1, <1>3, <1>4, <1>5

LEMMA ResultTyped ==
  ASSUME TInv, NEW w \in Workers
  PROVE  Result(w) \in [linked : Nat, partial : Nat,
                        stages : SUBSET (Stages \X [processed : Nat, rejected : Nat])]
<1> DEFINE t == TaskId(w)
           selected == FindVideos(w, Selection, t)
           linked == selected \intersect FindVideos(w, OddTagging, t)
                              \intersect FindVideos(w, AutoLabeling, t)
           stages == {<<s, wk[w].task.prog[s]>> : s \in Stages}
<1>1. IsFiniteSet(selected) /\ linked \subseteq selected
  BY VideosFound
<1>2. /\ Cardinality(linked) \in Nat
      /\ Cardinality(selected) - Cardinality(linked) \in Nat
  <2> HIDE DEF linked, selected
  <2>1. Cardinality(linked) \in Nat /\ Cardinality(selected) \in Nat
    BY <1>1, FS_Subset, FS_CardinalityType
  <2>2. Cardinality(linked) <= Cardinality(selected)
    BY <1>1, FS_Subset
  <2> QED BY <2>1, <2>2
<1>3. stages \in SUBSET (Stages \X [processed : Nat, rejected : Nat])
  BY Typed DEF TaskDocs
<1>4. Result(w) = [stages |-> stages, linked |-> Cardinality(linked),
                   partial |-> Cardinality(selected) - Cardinality(linked)]
  BY DEF Result
<1> QED
  <2> HIDE DEF linked, selected, stages
  <2> QED BY <1>2, <1>3, <1>4

-----------------------------------------------------------------------------
(***************************************************************************)
(* What each action does, read off its definition once.                    *)
(***************************************************************************)
\* The other workers and their sessions stay as they are.
Frame(w) ==
  /\ wk' \in [Workers -> Locals] /\ sess' \in [Workers -> Sessions]
  /\ \A v \in Workers \ {w} : wk'[v] = wk[v] /\ sess'[v] = sess[v]

\* The worker goes on with its job: p is the call that comes next.
GoesOn(w, p) ==
  /\ Busy(w) /\ Frame(w) /\ jobs' = jobs /\ overlapped' = overlapped
  /\ wk'[w].pc = p /\ p # "idle" /\ wk'[w].job = wk[w].job

\* The worker is done with its job for now.
Leaves(w, job) ==
  /\ Busy(w) /\ Frame(w) /\ overlapped' = overlapped
  /\ wk'[w] = Idle /\ sess'[w] = EmptySession
  /\ job \in Messages /\ job.state \in {"queued", "gone"}
  /\ jobs' = [jobs EXCEPT ![wk[w].job] = job]

\* A document is written, or none.
Saves(w, doc) == doc \in TaskDocs /\ tasks' = [tasks EXCEPT ![TaskId(w)] = doc]

SameTables == db' = db /\ dbRejs' = dbRejs

LEMMA TakeEffect ==
  ASSUME TInv, NEW w \in Workers, NEW j \in Jobs, Take(w, j)
  PROVE  /\ ~Busy(w) /\ Frame(w) /\ sess' = sess /\ sess[w] = EmptySession
         /\ wk'[w].pc = "setup" /\ wk'[w].job = j /\ wk'[w].exc = "none"
         /\ SamePlace(wk'[w], Idle)
         /\ jobs[j].state = "queued"
         /\ jobs' = [jobs EXCEPT ![j] = [jobs[j] EXCEPT !.state = "running"]]
         /\ tasks' = tasks /\ SameTables /\ faults' = faults
         /\ overlapped \subseteq overlapped' /\ overlapped' \subseteq overlapped \union {TaskOf[j]}
         /\ \A v \in Workers : Busy(v) /\ TaskId(v) = TaskOf[j] => TaskOf[j] \in overlapped'
<1>1. wk \in [Workers -> Locals] /\ sess \in [Workers -> Sessions]
  BY DEF TInv, TypeOK
<1>2. wk[w] = Idle /\ sess[w] = EmptySession /\ ~Busy(w)
  BY DEF Take, Busy, TInv, Reserved
<1>3. wk' = [wk EXCEPT ![w] = ToJob(wk[w], "setup", j)]
  BY DEF Take, ToJob
<1>4. "setup" \in Pcs /\ Idle.exc = "none"
  BY DEF Pcs, Calls, Idle
<1> QED BY <1>1, <1>2, <1>3, <1>4, ToJobWrites, Writing DEF Take, Frame, SameTables

LEMMA SetupEffect ==
  ASSUME TInv, NEW w \in Workers, Setup(w)
  PROVE  /\ wk[w].pc = "setup" /\ GoesOn(w, "find") /\ wk'[w].exc = wk[w].exc
         /\ SameObjects(wk'[w], wk[w]) /\ SamePlace(wk'[w], wk[w]) /\ sess' = sess
         /\ tasks' = tasks /\ SameTables /\ faults' = faults
<1>1. wk \in [Workers -> Locals] /\ sess \in [Workers -> Sessions]
  BY DEF TInv, TypeOK
<1>2. wk' = [wk EXCEPT ![w] = ToCall(wk[w], "find")]
  BY DEF Setup, ToCall
<1>3. "find" \in Pcs
  BY DEF Pcs, Calls
<1> QED BY <1>1, <1>2, <1>3, ToCallWrites, Writing DEF Setup, Frame, GoesOn, SameTables, Busy

LEMMA FindTaskEffect ==
  ASSUME TInv, NEW w \in Workers, FindTask(w)
  PROVE  /\ wk[w].pc = "find" /\ GoesOn(w, "start") /\ wk'[w].exc = wk[w].exc
         /\ wk'[w].task = StartProcessing(tasks[TaskId(w)]) /\ wk'[w].cur = wk[w].cur
         /\ SamePlace(wk'[w], wk[w]) /\ sess' = sess
         /\ tasks' = tasks /\ SameTables /\ faults' = faults
<1>1. wk \in [Workers -> Locals] /\ sess \in [Workers -> Sessions]
  BY DEF TInv, TypeOK
<1>2. Busy(w) /\ StartProcessing(tasks[TaskId(w)]) \in TaskDocs
  BY Typed, TaskWrites DEF Busy, FindTask
<1>3. wk' = [wk EXCEPT ![w] = ToTask(wk[w], "start", StartProcessing(tasks[TaskId(w)]))]
  BY DEF FindTask, ToTask
<1>4. "start" \in Pcs
  BY DEF Pcs, Calls
<1> QED BY <1>1, <1>2, <1>3, <1>4, ToTaskWrites, Writing DEF FindTask, Frame, GoesOn, SameTables

LEMMA StartTaskEffect ==
  ASSUME TInv, NEW w \in Workers, StartTask(w)
  PROVE  /\ wk[w].pc = "start" /\ GoesOn(w, "phase") /\ wk'[w].exc = wk[w].exc
         /\ wk'[w].task = wk[w].task /\ wk'[w].cur = wk[w].task
         /\ SamePlace(wk'[w], wk[w]) /\ sess' = sess
         /\ Saves(w, wk[w].task) /\ SameTables /\ faults' = faults
<1>1. wk \in [Workers -> Locals] /\ sess \in [Workers -> Sessions]
  BY DEF TInv, TypeOK
<1>2. Busy(w) /\ wk[w].task \in TaskDocs
  BY Typed DEF Busy, StartTask
<1>3. wk' = [wk EXCEPT ![w] = ToCur(wk[w], "phase", wk[w].task)]
  BY DEF StartTask, ToCur
<1>4. "phase" \in Pcs
  BY DEF Pcs, Calls
<1> QED BY <1>1, <1>2, <1>3, <1>4, ToCurWrites, Writing
        DEF StartTask, Frame, GoesOn, SameTables, Saves

\* Where a worker goes on after the phase of a stage.
NextCall(stage) ==
  IF stage = Selection THEN "ids" ELSE IF stage = AutoLabeling THEN "result" ELSE "phase"

LEMMA AfterPhaseEffect ==
  ASSUME TInv, NEW w \in Workers, NEW cur \in TaskDocs, Busy(w), AfterPhase(w, cur),
         jobs' = jobs, sess' = sess, overlapped' = overlapped
  PROVE  /\ GoesOn(w, NextCall(wk[w].stage)) /\ wk'[w].exc = wk[w].exc /\ wk'[w].cur = cur
         /\ wk'[w].chunk = 1 /\ wk'[w].loaded = 0 /\ wk'[w].rejected = 0
         /\ wk'[w].ids = wk[w].ids
         /\ IF wk[w].stage = AutoLabeling
            THEN wk'[w].task = cur /\ wk'[w].stage = wk[w].stage
            ELSE wk'[w].task = wk[w].task /\ wk'[w].stage = wk[w].stage + 1
<1> DEFINE u == IF wk[w].stage = AutoLabeling THEN cur ELSE wk[w].task
           s == IF wk[w].stage = AutoLabeling THEN wk[w].stage ELSE wk[w].stage + 1
           p == NextCall(wk[w].stage)
<1>1. wk \in [Workers -> Locals] /\ sess \in [Workers -> Sessions]
  BY DEF TInv, TypeOK
<1>2. wk' = [wk EXCEPT ![w] = ToPhase(wk[w], p, cur, u, s)]
  BY DEF AfterPhase, ToPhase, NextCall
<1>3. u \in TaskDocs /\ s \in Stages /\ p \in Pcs \ {"idle"}
  BY Typed DEF Stages, Selection, OddTagging, AutoLabeling, NextCall, Pcs, Calls
<1> HIDE DEF p
<1>4. LET l == ToPhase(wk[w], p, cur, u, s)
      IN /\ l \in Locals /\ l.pc = p /\ l.job = wk[w].job /\ l.exc = wk[w].exc
         /\ l.cur = cur /\ l.task = u /\ l.stage = s /\ l.chunk = 1 /\ l.ids = wk[w].ids
         /\ l.loaded = 0 /\ l.rejected = 0
  <2> HIDE DEF u, s
  <2> QED BY <1>1, <1>3, ToPhaseWrites
<1> QED BY <1>1, <1>2, <1>3, <1>4, Writing DEF Frame, GoesOn, p

LEMMA SkipPhaseEffect ==
  ASSUME TInv, NEW w \in Workers, SkipPhase(w)
  PROVE  /\ wk[w].pc = "phase" /\ wk[w].stage <= wk[w].cur.last
         /\ AfterPhase(w, wk[w].cur) /\ Busy(w) /\ jobs' = jobs /\ overlapped' = overlapped
         /\ sess' = sess /\ tasks' = tasks /\ SameTables /\ faults' = faults
<1>1. wk[w].stage \in Nat /\ wk[w].cur.last \in Nat
  BY Typed DEF TaskDocs, Stages, Selection, OddTagging, AutoLabeling
<1> QED BY <1>1 DEF SkipPhase, ShouldRunPhase, SameTables, Busy

\* A lock changes nothing but the session.
LEMMA InsertRowEffect ==
  ASSUME TInv, NEW w \in Workers, InsertRow(w)
  PROVE  /\ wk[w].pc = "phase" /\ GoesOn(w, "phase") /\ wk' = wk
         /\ sess'[w].rows = sess[w].rows /\ sess'[w].rejs = sess[w].rejs
         /\ sess'[w].read = sess[w].read /\ sess'[w].snap = sess[w].snap
         /\ tasks' = tasks /\ SameTables /\ faults' = faults
<1>1. wk \in [Workers -> Locals] /\ sess \in [Workers -> Sessions]
  BY DEF TInv, TypeOK
<1>2. Busy(w) /\ wk[w].pc = "phase" /\ ChunksLeft(w)
  BY DEF InsertRow, Inserting, InPhase, Busy
<1>3. PICK row \in Unlocked(w) :
             sess' = [sess EXCEPT ![w].keys = @ \union {RowKey(w, row)}]
  BY DEF InsertRow, IsNext
<1>4. RowKey(w, row) \in Keys(Records)
  BY <1>2, ChunkWrites DEF Unlocked, RowKey, Keys, ChunkRecords
<1> DEFINE keys == sess[w].keys \union {RowKey(w, row)}
           written == [sess[w] EXCEPT !.keys = keys]
<1>5. keys \subseteq Keys(Records)
  BY <1>1, <1>4 DEF Sessions
<1>6. sess' = [sess EXCEPT ![w] = written]
  BY <1>1, <1>3
<1> HIDE DEF keys
<1>7. /\ written \in Sessions /\ written.rows = sess[w].rows /\ written.rejs = sess[w].rejs
      /\ written.read = sess[w].read /\ written.snap = sess[w].snap
  BY <1>1, <1>5 DEF Sessions
<1> HIDE DEF written
<1>8. /\ sess' \in [Workers -> Sessions] /\ sess'[w] = written
      /\ \A v \in Workers \ {w} : sess'[v] = sess[v]
  BY <1>1, <1>6, <1>7
<1> QED BY <1>1, <1>2, <1>7, <1>8 DEF InsertRow, Frame, GoesOn, SameTables

\* The session that InnoDB rolls back to end a circle of waits.
LEMMA DeadlockEffect ==
  ASSUME TInv, NEW w \in Workers, Deadlock(w)
  PROVE  /\ wk[w].pc = "phase" /\ GoesOn(w, "failed") /\ wk'[w].exc = "infra"
         /\ SameObjects(wk'[w], wk[w]) /\ SamePlace(wk'[w], wk[w])
         /\ sess'[w] = EmptySession
         /\ tasks' = tasks /\ SameTables /\ faults' = faults
<1>1. wk \in [Workers -> Locals] /\ sess \in [Workers -> Sessions]
  BY DEF TInv, TypeOK
<1>2. Busy(w) /\ wk[w].pc = "phase"
  BY DEF Deadlock, WaitsFor, Inserting, InPhase, Busy
<1>3. wk' = [wk EXCEPT ![w] = ToError(wk[w], "failed", "infra")]
  BY DEF Deadlock, ToError
<1>4. "failed" \in Pcs /\ "infra" \in Raises
  BY DEF Pcs, Calls, Raises
<1>5. /\ wk' \in [Workers -> Locals] /\ \A v \in Workers \ {w} : wk'[v] = wk[v]
      /\ wk'[w].pc = "failed" /\ wk'[w].job = wk[w].job /\ wk'[w].exc = "infra"
      /\ SameObjects(wk'[w], wk[w]) /\ SamePlace(wk'[w], wk[w])
  BY <1>1, <1>3, <1>4, ToErrorWrites, Writing
<1>6. /\ sess' \in [Workers -> Sessions] /\ sess'[w] = EmptySession
      /\ \A v \in Workers \ {w} : sess'[v] = sess[v]
  BY <1>1, NewTask DEF Deadlock
<1>7. UNCHANGED <<tasks, jobs, db, dbRejs, faults, overlapped>>
  BY DEF Deadlock
<1> QED BY <1>2, <1>5, <1>6, <1>7 DEF Frame, GoesOn, SameTables

LEMMA RunChunkEffect ==
  ASSUME TInv, NEW w \in Workers, RunChunk(w)
  PROVE  /\ wk[w].pc = "phase" /\ GoesOn(w, "phase") /\ InPhase(w) /\ ChunksLeft(w)
         /\ wk'[w].exc = wk[w].exc /\ SameObjects(wk'[w], wk[w])
         /\ wk'[w].stage = wk[w].stage /\ wk'[w].ids = wk[w].ids
         /\ wk'[w].chunk = wk[w].chunk + 1
         /\ wk'[w].loaded = wk[w].loaded + Cardinality(Inserted(w))
         /\ wk'[w].rejected = wk[w].rejected + ChunkRejections(w)
         /\ sess'[w].rows = sess[w].rows \union Inserted(w)
         /\ sess'[w].rejs = [sess[w].rejs EXCEPT ![wk[w].stage] = @ + ChunkRejections(w)]
         /\ sess'[w].read = sess[w].read /\ sess'[w].snap = sess[w].snap
         /\ tasks' = tasks /\ SameTables /\ faults' = faults
<1>1. wk \in [Workers -> Locals] /\ sess \in [Workers -> Sessions]
  BY DEF TInv, TypeOK
<1>2. Busy(w) /\ wk[w].pc = "phase" /\ ChunksLeft(w)
  BY DEF RunChunk, Inserting, InPhase, Busy
<1> DEFINE c == wk[w].chunk + 1
           n == wk[w].loaded + Cardinality(Inserted(w))
           m == wk[w].rejected + ChunkRejections(w)
           rows == sess[w].rows \union Inserted(w)
           rejs == [sess[w].rejs EXCEPT ![wk[w].stage] = @ + ChunkRejections(w)]
           written == [sess[w] EXCEPT !.rows = rows, !.rejs = rejs]
<1>3. /\ Cardinality(Inserted(w)) \in Nat /\ ChunkRejections(w) \in Nat
      /\ Inserted(w) \subseteq Records
  BY <1>2, ChunkWrites
<1>4. wk' = [wk EXCEPT ![w] = ToChunk(wk[w], c, n, m)]
  BY DEF RunChunk, ToChunk
<1>5. c \in Nat \ {0} /\ n \in Nat /\ m \in Nat
  BY <1>3, Typed
<1>6. rows \in SUBSET Records /\ rejs \in [Stages -> Nat]
  <2>1. sess[w].rejs[wk[w].stage] + ChunkRejections(w) \in Nat
    BY <1>3, Typed
  <2> QED BY <2>1, <1>3, Typed
<1>7. sess' = [sess EXCEPT ![w] = written]
  <2>1. sess' = [sess EXCEPT ![w] =
                  [sess[w] EXCEPT !.rows = sess[w].rows \union Inserted(w),
                                  !.rejs[wk[w].stage] = sess[w].rejs[wk[w].stage]
                                                          + ChunkRejections(w)]]
    BY <1>1 DEF RunChunk
  <2> QED BY <2>1, <1>1 DEF Sessions
<1>8. /\ written \in Sessions /\ written.rows = rows /\ written.rejs = rejs
      /\ written.read = sess[w].read /\ written.snap = sess[w].snap
  <2> HIDE DEF rows, rejs
  <2> QED BY <1>1, <1>6 DEF Sessions
<1>9. LET l == ToChunk(wk[w], c, n, m)
      IN /\ l \in Locals /\ l.pc = wk[w].pc /\ l.job = wk[w].job /\ l.exc = wk[w].exc
         /\ SameObjects(l, wk[w]) /\ l.stage = wk[w].stage /\ l.chunk = c
         /\ l.ids = wk[w].ids /\ l.loaded = n /\ l.rejected = m
  <2> HIDE DEF c, n, m
  <2> QED BY <1>1, <1>5, ToChunkWrites
<1>10. /\ wk' \in [Workers -> Locals] /\ wk'[w] = ToChunk(wk[w], c, n, m)
       /\ \A v \in Workers \ {w} : wk'[v] = wk[v]
  BY <1>1, <1>4, <1>9, Writing
<1>11. /\ sess' \in [Workers -> Sessions] /\ sess'[w] = written
       /\ \A v \in Workers \ {w} : sess'[v] = sess[v]
  <2> HIDE DEF written
  <2> QED BY <1>1, <1>7, <1>8
<1>12. /\ InPhase(w) /\ tasks' = tasks /\ jobs' = jobs /\ SameTables /\ faults' = faults
       /\ overlapped' = overlapped
  BY DEF RunChunk, Inserting, SameTables
<1> HIDE DEF rows, rejs, written
<1> QED BY <1>2, <1>8, <1>9, <1>10, <1>11, <1>12 DEF Frame, GoesOn, rows, rejs

LEMMA RaiseInChunkEffect ==
  ASSUME TInv, NEW w \in Workers, RaiseInChunk(w)
  PROVE  /\ wk[w].pc = "phase" /\ GoesOn(w, "failed") /\ wk'[w].exc \in Raises
         /\ SameObjects(wk'[w], wk[w]) /\ SamePlace(wk'[w], wk[w]) /\ sess' = sess
         /\ tasks' = tasks /\ SameTables /\ faults' = faults
<1>1. wk \in [Workers -> Locals] /\ sess \in [Workers -> Sessions]
  BY DEF TInv, TypeOK
<1>2. Busy(w) /\ wk[w].pc = "phase" /\ ChunksLeft(w)
  BY DEF RaiseInChunk, InPhase, Busy
<1>3. PICK row \in Raising(Chunk(w)) :
             wk' = [wk EXCEPT ![w].pc = "failed", ![w].exc = row.raises]
  BY DEF RaiseInChunk
<1>4. row.raises \in Raises
  BY <1>2, ChunkTyped DEF Raising
<1>5. wk' = [wk EXCEPT ![w] = ToError(wk[w], "failed", row.raises)]
  BY <1>3 DEF ToError
<1>6. "failed" \in Pcs
  BY DEF Pcs, Calls
<1>7. /\ wk' \in [Workers -> Locals] /\ \A v \in Workers \ {w} : wk'[v] = wk[v]
      /\ wk'[w].pc = "failed" /\ wk'[w].job = wk[w].job /\ wk'[w].exc = row.raises
      /\ SameObjects(wk'[w], wk[w]) /\ SamePlace(wk'[w], wk[w])
  BY <1>1, <1>4, <1>5, <1>6, ToErrorWrites, Writing
<1>8. UNCHANGED <<tasks, jobs, sess, db, dbRejs, faults, overlapped>>
  BY DEF RaiseInChunk
<1> QED BY <1>1, <1>2, <1>4, <1>7, <1>8 DEF Frame, GoesOn, SameTables

\* The checkpoint of the phase a worker is in.
LEMMA CheckpointTyped ==
  ASSUME TInv, NEW w \in Workers
  PROVE  /\ Checkpoint(w) \in TaskDocs /\ Checkpoint(w).status = wk[w].cur.status
         /\ Checkpoint(w).last = wk[w].stage
         /\ Checkpoint(w).prog = [wk[w].cur.prog EXCEPT ![wk[w].stage] =
                                    [processed |-> wk[w].loaded, rejected |-> wk[w].rejected]]
BY Typed, CheckpointWrites DEF Checkpoint

LEMMA EndPhaseEffect ==
  ASSUME TInv, NEW w \in Workers, EndPhase(w)
  PROVE  /\ wk[w].pc = "phase" /\ PhaseIsOver(w) /\ AfterPhase(w, Checkpoint(w))
         /\ Checkpoint(w) \in TaskDocs /\ Saves(w, Checkpoint(w)) /\ Busy(w) /\ jobs' = jobs
         /\ overlapped' = overlapped /\ sess' = sess /\ SameTables /\ faults' = faults
BY CheckpointTyped DEF EndPhase, PhaseIsOver, InPhase, Busy, Saves, SameTables

\* A SELECT gives the session its snapshot, if it has none yet.
LEMMA ReadEffect ==
  ASSUME TInv, NEW w \in Workers, sess' = Read(w)
  PROVE  /\ sess' \in [Workers -> Sessions] /\ \A v \in Workers \ {w} : sess'[v] = sess[v]
         /\ sess'[w].rows = sess[w].rows /\ sess'[w].rejs = sess[w].rejs
         /\ sess'[w].read = TRUE /\ sess'[w].snap = Snapshot(w)
<1> DEFINE written == [sess[w] EXCEPT !.read = TRUE, !.snap = Snapshot(w)]
<1>1. sess \in [Workers -> Sessions] /\ Snapshot(w) \subseteq Records
  BY VideosFound DEF TInv, TypeOK
<1>2. sess' = [sess EXCEPT ![w] = written]
  BY DEF Read
<1>3. /\ written \in Sessions /\ written.rows = sess[w].rows /\ written.rejs = sess[w].rejs
      /\ written.read = TRUE /\ written.snap = Snapshot(w)
  BY <1>1 DEF Sessions
<1> HIDE DEF written
<1> QED BY <1>1, <1>2, <1>3

LEMMA ReadIdsEffect ==
  ASSUME TInv, NEW w \in Workers, ReadIds(w)
  PROVE  /\ wk[w].pc = "ids" /\ GoesOn(w, "phase") /\ wk'[w].exc = wk[w].exc
         /\ SameObjects(wk'[w], wk[w]) /\ wk'[w].stage = wk[w].stage
         /\ wk'[w].chunk = wk[w].chunk /\ wk'[w].loaded = wk[w].loaded
         /\ wk'[w].rejected = wk[w].rejected
         /\ wk'[w].ids = FindVideos(w, Selection, TaskId(w))
         /\ sess'[w].rows = sess[w].rows /\ sess'[w].rejs = sess[w].rejs
         /\ sess'[w].read = TRUE /\ sess'[w].snap = Snapshot(w)
         /\ tasks' = tasks /\ SameTables /\ faults' = faults
<1> DEFINE found == FindVideos(w, Selection, TaskId(w))
<1>1. wk \in [Workers -> Locals] /\ found \in SUBSET Videos
  BY VideosFound DEF TInv, TypeOK
<1>2. wk' = [wk EXCEPT ![w] = ToIds(wk[w], "phase", found)]
  BY DEF ReadIds, ToIds
<1> HIDE DEF found
<1>3. "phase" \in Pcs
  BY DEF Pcs, Calls
<1>4. /\ sess' \in [Workers -> Sessions] /\ \A v \in Workers \ {w} : sess'[v] = sess[v]
      /\ sess'[w].rows = sess[w].rows /\ sess'[w].rejs = sess[w].rejs
      /\ sess'[w].read = TRUE /\ sess'[w].snap = Snapshot(w)
  BY ReadEffect DEF ReadIds
<1>5. /\ wk' \in [Workers -> Locals] /\ \A v \in Workers \ {w} : wk'[v] = wk[v]
      /\ wk'[w].pc = "phase" /\ wk'[w].job = wk[w].job /\ wk'[w].exc = wk[w].exc
      /\ SameObjects(wk'[w], wk[w]) /\ wk'[w].stage = wk[w].stage
      /\ wk'[w].chunk = wk[w].chunk /\ wk'[w].loaded = wk[w].loaded
      /\ wk'[w].rejected = wk[w].rejected /\ wk'[w].ids = found
  BY <1>1, <1>2, <1>3, ToIdsWrites, Writing
<1> QED BY <1>4, <1>5 DEF ReadIds, Frame, GoesOn, SameTables, Busy, found

LEMMA BuildResultEffect ==
  ASSUME TInv, NEW w \in Workers, BuildResult(w)
  PROVE  /\ wk[w].pc = "result" /\ GoesOn(w, "complete") /\ wk'[w].exc = wk[w].exc
         /\ wk'[w].task = CompleteWith(wk[w].task, Result(w)) /\ wk'[w].cur = wk[w].cur
         /\ wk'[w].task.status = "completed" /\ wk'[w].task.last = wk[w].task.last
         /\ wk'[w].task.prog = wk[w].task.prog
         /\ SamePlace(wk'[w], wk[w])
         /\ sess'[w].rows = sess[w].rows /\ sess'[w].rejs = sess[w].rejs
         /\ sess'[w].read = TRUE /\ sess'[w].snap = Snapshot(w)
         /\ tasks' = tasks /\ SameTables /\ faults' = faults
<1> DEFINE t == CompleteWith(wk[w].task, Result(w))
<1>1. wk \in [Workers -> Locals]
  BY DEF TInv, TypeOK
<1>2. /\ t \in TaskDocs /\ t.status = "completed"
      /\ t.last = wk[w].task.last /\ t.prog = wk[w].task.prog
  BY Typed, ResultTyped, ResultWrites
<1>3. wk' = [wk EXCEPT ![w] = ToTask(wk[w], "complete", t)]
  BY DEF BuildResult, ToTask
<1> HIDE DEF t
<1>4. "complete" \in Pcs
  BY DEF Pcs, Calls
<1>5. /\ sess' \in [Workers -> Sessions] /\ \A v \in Workers \ {w} : sess'[v] = sess[v]
      /\ sess'[w].rows = sess[w].rows /\ sess'[w].rejs = sess[w].rejs
      /\ sess'[w].read = TRUE /\ sess'[w].snap = Snapshot(w)
  BY ReadEffect DEF BuildResult
<1>6. /\ wk' \in [Workers -> Locals] /\ \A v \in Workers \ {w} : wk'[v] = wk[v]
      /\ wk'[w].pc = "complete" /\ wk'[w].job = wk[w].job /\ wk'[w].exc = wk[w].exc
      /\ wk'[w].task = t /\ wk'[w].cur = wk[w].cur /\ SamePlace(wk'[w], wk[w])
  BY <1>1, <1>2, <1>3, <1>4, ToTaskWrites, Writing
<1> QED BY <1>2, <1>5, <1>6 DEF BuildResult, Frame, GoesOn, SameTables, Busy, t

LEMMA CompleteEffect ==
  ASSUME TInv, NEW w \in Workers, Complete(w)
  PROVE  /\ wk[w].pc = "complete" /\ GoesOn(w, "commit") /\ wk'[w].exc = wk[w].exc
         /\ SameObjects(wk'[w], wk[w]) /\ SamePlace(wk'[w], wk[w]) /\ sess' = sess
         /\ Saves(w, wk[w].task) /\ SameTables /\ faults' = faults
<1>1. wk \in [Workers -> Locals] /\ sess \in [Workers -> Sessions]
  BY DEF TInv, TypeOK
<1>2. wk' = [wk EXCEPT ![w] = ToCall(wk[w], "commit")]
  BY DEF Complete, ToCall
<1>3. "commit" \in Pcs /\ wk[w].task \in TaskDocs
  BY Typed DEF Pcs, Calls
<1> QED BY <1>1, <1>2, <1>3, ToCallWrites, Writing
        DEF Complete, Frame, GoesOn, SameTables, Busy, Saves

LEMMA SaveFailedEffect ==
  ASSUME TInv, NEW w \in Workers, SaveFailed(w)
  PROVE  /\ wk[w].pc = "failed" /\ GoesOn(w, "rollback") /\ wk'[w].exc = wk[w].exc
         /\ SameObjects(wk'[w], wk[w]) /\ SamePlace(wk'[w], wk[w]) /\ sess' = sess
         /\ Saves(w, FailWith(wk[w].task)) /\ SameTables /\ faults' = faults
<1>1. wk \in [Workers -> Locals] /\ sess \in [Workers -> Sessions]
  BY DEF TInv, TypeOK
<1>2. wk' = [wk EXCEPT ![w] = ToCall(wk[w], "rollback")]
  BY DEF SaveFailed, ToCall
<1>3. "rollback" \in Pcs /\ FailWith(wk[w].task) \in TaskDocs
  BY Typed, TaskWrites DEF Pcs
<1> QED BY <1>1, <1>2, <1>3, ToCallWrites, Writing
        DEF SaveFailed, Frame, GoesOn, SameTables, Busy, Saves

\* What the commit of a session adds to the tables.
Commits(w) ==
  /\ db' = db \union sess[w].rows
  /\ dbRejs' = [dbRejs EXCEPT ![TaskId(w)] = [s \in Stages |-> @[s] + sess[w].rejs[s]]]

LEMMA CommitEffect ==
  ASSUME TInv, NEW w \in Workers, Commit(w)
  PROVE  /\ wk[w].pc = "commit" /\ GoesOn(w, "ack") /\ wk'[w].exc = wk[w].exc
         /\ SameObjects(wk'[w], wk[w]) /\ SamePlace(wk'[w], wk[w])
         /\ sess'[w] = EmptySession /\ tasks' = tasks /\ Commits(w) /\ faults' = faults
<1>1. wk \in [Workers -> Locals] /\ sess \in [Workers -> Sessions]
  BY DEF TInv, TypeOK
<1>2. wk' = [wk EXCEPT ![w] = ToCall(wk[w], "ack")]
  BY DEF Commit, ToCall
<1>3. "ack" \in Pcs
  BY DEF Pcs
<1>4. /\ sess' \in [Workers -> Sessions] /\ sess'[w] = EmptySession
      /\ \A v \in Workers \ {w} : sess'[v] = sess[v]
  BY <1>1, NewTask DEF Commit
<1>5. /\ wk' \in [Workers -> Locals] /\ \A v \in Workers \ {w} : wk'[v] = wk[v]
      /\ wk'[w].pc = "ack" /\ wk'[w].job = wk[w].job /\ wk'[w].exc = wk[w].exc
      /\ SameObjects(wk'[w], wk[w]) /\ SamePlace(wk'[w], wk[w])
  BY <1>1, <1>2, <1>3, ToCallWrites, Writing
<1>6. Commits(w)
  BY DEF Commit, CommitSession, Commits
<1> QED BY <1>4, <1>5, <1>6 DEF Commit, Frame, GoesOn, Busy

LEMMA ReleaseEffect ==
  ASSUME TInv, NEW w \in Workers, Busy(w), NEW job \in Messages,
         job.state \in {"queued", "gone"}, Release(w, job), overlapped' = overlapped
  PROVE  Leaves(w, job)
<1>1. wk \in [Workers -> Locals] /\ sess \in [Workers -> Sessions]
  BY DEF TInv, TypeOK
<1> QED BY <1>1, NewTask DEF Release, Leaves, Frame

\* The ways a worker leaves its job.
LeavesJob(w) == Ack(w) \/ Rollback(w) \/ SetupError(w) \/ Crash(w) \/ Kill(w)

LEMMA LeaveEffect ==
  ASSUME TInv, NEW w \in Workers, LeavesJob(w)
  PROVE  /\ \E job : Leaves(w, job)
         /\ tasks' = tasks /\ SameTables /\ faults' \in {faults, faults + 1}
         /\ faults' # faults => faults < MaxFaults
<1> DEFINE job == jobs[wk[w].job]
           gone == [job EXCEPT !.state = "gone"]
           queued == [job EXCEPT !.state = "queued"]
           again == [state |-> "queued", retries |-> job.retries + 1]
<1>1. Busy(w)
  BY DEF LeavesJob, Busy, Ack, Rollback, SetupError, Crash, Kill
<1>2. job \in Messages
  BY <1>1, Typed
<1>3. /\ gone \in Messages /\ gone.state = "gone" /\ gone.retries = job.retries
      /\ queued \in Messages /\ queued.state = "queued" /\ queued.retries = job.retries
      /\ again.state = "queued" /\ again.retries = job.retries + 1
      /\ job.retries < MaxRetries => again \in Messages
  BY <1>2, PipelineAssumption DEF Messages, PipelineAssumption
<1>4. \/ Release(w, gone) \/ Release(w, queued)
      \/ job.retries < MaxRetries /\ Release(w, again)
  BY DEF LeavesJob, Ack, Rollback, SetupError, Crash, Kill
<1>6. overlapped' = overlapped
  BY DEF LeavesJob, Ack, Rollback, SetupError, Crash, Kill
<1>5. \E other : Leaves(w, other)
  <2> HIDE DEF gone, queued, again
  <2> QED BY <1>1, <1>3, <1>4, <1>6, ReleaseEffect
<1> QED BY <1>5 DEF LeavesJob, Ack, Rollback, SetupError, Crash, Kill, SameTables

LEMMA InfraErrorEffect ==
  ASSUME TInv, NEW w \in Workers, InfraError(w)
  PROVE  /\ wk[w].pc \in (Faults \intersect Calls) \ {"setup"}
         /\ faults < MaxFaults /\ faults' = faults + 1
         /\ GoesOn(w, IF wk[w].pc \in {"phase", "ids", "result", "complete"} THEN "failed"
                      ELSE "rollback")
         /\ wk'[w].exc = "infra" /\ SameObjects(wk'[w], wk[w]) /\ SamePlace(wk'[w], wk[w])
         /\ \/ sess' = sess /\ SameTables /\ tasks' = tasks
            \/ sess' = sess /\ SameTables /\ PhaseIsOver(w) /\ Saves(w, Checkpoint(w))
            \/ /\ sess' = sess /\ SameTables
               /\ wk[w].pc \in {"start", "complete"} /\ Saves(w, wk[w].task)
            \/ /\ sess' = sess /\ SameTables
               /\ wk[w].pc = "failed" /\ Saves(w, FailWith(wk[w].task))
            \/ /\ wk[w].pc = "commit" /\ Commits(w) /\ sess'[w] = EmptySession
               /\ tasks' = tasks
<1> DEFINE p == IF wk[w].pc \in {"phase", "ids", "result", "complete"} THEN "failed"
                ELSE "rollback"
<1>1. wk \in [Workers -> Locals] /\ sess \in [Workers -> Sessions]
  BY DEF TInv, TypeOK
<1>2. wk[w].pc \in (Faults \intersect Calls) \ {"setup"} /\ Busy(w)
  BY PipelineAssumption DEF PipelineAssumption, InfraError, Busy, Calls
<1>3. wk' = [wk EXCEPT ![w] = ToError(wk[w], p, "infra")]
  <2>1. wk' = [wk EXCEPT ![w] = [wk[w] EXCEPT !.exc = "infra", !.pc = p]]
    BY <1>1 DEF InfraError
  <2>2. [wk[w] EXCEPT !.exc = "infra", !.pc = p] = [wk[w] EXCEPT !.pc = p, !.exc = "infra"]
    BY <1>1 DEF Locals
  <2> QED BY <2>1, <2>2 DEF ToError
<1>4. p \in Pcs \ {"idle"} /\ "infra" \in Raises
  BY DEF Pcs, Calls, Raises
<1>5. /\ wk' \in [Workers -> Locals] /\ \A v \in Workers \ {w} : wk'[v] = wk[v]
      /\ wk'[w].pc = p /\ wk'[w].job = wk[w].job /\ wk'[w].exc = "infra"
      /\ SameObjects(wk'[w], wk[w]) /\ SamePlace(wk'[w], wk[w])
  <2> HIDE DEF p
  <2> QED BY <1>1, <1>3, <1>4, ToErrorWrites, Writing
<1>6. \/ sess' = sess /\ SameTables /\ tasks' = tasks
      \/ sess' = sess /\ SameTables /\ PhaseIsOver(w) /\ Saves(w, Checkpoint(w))
      \/ /\ sess' = sess /\ SameTables
         /\ wk[w].pc \in {"start", "complete"} /\ Saves(w, wk[w].task)
      \/ /\ sess' = sess /\ SameTables
         /\ wk[w].pc = "failed" /\ Saves(w, FailWith(wk[w].task))
      \/ /\ wk[w].pc = "commit" /\ Commits(w) /\ sess'[w] = EmptySession
         /\ sess' = [sess EXCEPT ![w] = EmptySession] /\ tasks' = tasks
  <2>1. /\ Checkpoint(w) \in TaskDocs /\ wk[w].task \in TaskDocs
        /\ FailWith(wk[w].task) \in TaskDocs
    BY CheckpointTyped, Typed, TaskWrites
  <2> QED BY <1>1, <2>1 DEF InfraError, SameTables, Saves, CommitSession, Commits
<1>7. /\ sess' \in [Workers -> Sessions]
      /\ \A v \in Workers \ {w} : sess'[v] = sess[v]
  BY <1>1, <1>6, NewTask
<1>8. /\ jobs' = jobs /\ overlapped' = overlapped
      /\ faults < MaxFaults /\ faults' = faults + 1
  BY DEF InfraError
<1> QED BY <1>2, <1>4, <1>5, <1>6, <1>7, <1>8 DEF Frame, GoesOn

-----------------------------------------------------------------------------
(***************************************************************************)
(* Type correctness.  It needs Reserved: a worker is typed by the message  *)
(* it holds, which no other worker holds; and Finite, because the counts   *)
(* of loaded records and of partial videos are cardinalities.              *)
(***************************************************************************)
\* The part of TInv about workers and messages.
Workplace ==
  /\ wk \in [Workers -> Locals] /\ sess \in [Workers -> Sessions] /\ jobs \in [Jobs -> Messages]
  /\ \A w \in Workers :
       wk[w].pc # "idle" => wk[w].job \in Jobs /\ jobs[wk[w].job].state = "running"
  /\ overlapped \subseteq Tasks
  /\ Reserved /\ Alone

LEMMA GoesOnWorkplace ==
  ASSUME TInv, NEW w \in Workers, NEW p, GoesOn(w, p)
  PROVE  Workplace'
<1>1. /\ wk' \in [Workers -> Locals] /\ sess' \in [Workers -> Sessions]
      /\ jobs' = jobs /\ jobs \in [Jobs -> Messages] /\ overlapped' \subseteq Tasks
  BY DEF GoesOn, Frame, TInv, TypeOK
<1>2. \A v \in Workers : wk'[v].job = wk[v].job /\ (Busy(v)' <=> Busy(v))
  BY DEF GoesOn, Frame, Busy
<1>3. \A v \in Workers : ~Busy(v) => wk'[v] = wk[v] /\ sess'[v] = sess[v]
  BY DEF GoesOn, Frame
<1>4. Reserved'
  BY <1>1, <1>2, <1>3 DEF TInv, Reserved
<1>5. Alone'
  BY <1>2 DEF TInv, Alone, TaskId, GoesOn
<1> QED BY <1>1, <1>2, <1>4, <1>5 DEF TInv, TypeOK, Workplace, Busy

LEMMA LeavesWorkplace ==
  ASSUME TInv, NEW w \in Workers, NEW job, Leaves(w, job)
  PROVE  Workplace'
<1>1. /\ wk' \in [Workers -> Locals] /\ sess' \in [Workers -> Sessions]
      /\ jobs \in [Jobs -> Messages] /\ wk[w].job \in Jobs /\ overlapped' \subseteq Tasks
  BY Typed DEF Leaves, Frame, TInv, TypeOK
<1>2. /\ jobs' \in [Jobs -> Messages] /\ jobs'[wk[w].job].state # "running"
      /\ \A j \in Jobs \ {wk[w].job} : jobs'[j] = jobs[j]
  BY <1>1 DEF Leaves
<1>3. /\ ~Busy(w)' /\ wk'[w] = Idle /\ sess'[w] = EmptySession /\ Busy(w)
      /\ \A v \in Workers \ {w} : wk'[v] = wk[v] /\ sess'[v] = sess[v]
  BY DEF Leaves, Busy, Frame, Idle
<1>4. \A v \in Workers \ {w} : Busy(v) => wk[v].job # wk[w].job
  BY <1>3 DEF TInv, Reserved
<1>5. \A v \in Workers \ {w} : Busy(v)' <=> Busy(v)
  BY <1>3 DEF Busy
<1>6. \A v \in Workers : ~Busy(v)' => wk'[v] = Idle /\ sess'[v] = EmptySession
  BY <1>3, <1>5 DEF TInv, Reserved
<1>7. \A u, v \in Workers : Busy(u)' /\ Busy(v)' /\ wk'[u].job = wk'[v].job => u = v
  BY <1>3, <1>5 DEF TInv, Reserved
<1>8. \A j \in Jobs : jobs'[j].state = "running" => \E v \in Workers : Busy(v)' /\ wk'[v].job = j
  BY <1>2, <1>3, <1>5 DEF TInv, Reserved
<1>9. Reserved'
  BY <1>6, <1>7, <1>8 DEF Reserved
<1>10. \A v \in Workers :
         Busy(v)' => wk'[v].job \in Jobs /\ jobs'[wk'[v].job].state = "running"
  BY <1>2, <1>3, <1>4, <1>5, Typed DEF TInv, TypeOK, Busy
<1>11. Alone'
  BY <1>3, <1>5 DEF TInv, Alone, TaskId, Leaves
<1> QED BY <1>1, <1>2, <1>9, <1>10, <1>11 DEF Workplace, Busy

LEMMA TakeWorkplace ==
  ASSUME TInv, NEW w \in Workers, NEW j \in Jobs, Take(w, j)
  PROVE  Workplace'
<1>1. /\ ~Busy(w) /\ Frame(w) /\ sess' = sess /\ wk'[w].pc = "setup" /\ wk'[w].job = j
      /\ jobs[j].state = "queued"
      /\ jobs' = [jobs EXCEPT ![j] = [jobs[j] EXCEPT !.state = "running"]]
  BY TakeEffect
<1>2. /\ jobs' \in [Jobs -> Messages] /\ jobs'[j].state = "running"
      /\ \A i \in Jobs \ {j} : jobs'[i] = jobs[i]
  <2>1. jobs \in [Jobs -> Messages]
    BY DEF TInv, TypeOK
  <2>2. /\ [jobs[j] EXCEPT !.state = "running"] \in Messages
        /\ [jobs[j] EXCEPT !.state = "running"].state = "running"
    BY <2>1 DEF Messages
  <2> QED BY <1>1, <2>1, <2>2
<1>3. /\ Busy(w)'
      /\ \A v \in Workers \ {w} : wk'[v] = wk[v] /\ (Busy(v)' <=> Busy(v))
  BY <1>1 DEF Busy, Frame
<1>4. \A v \in Workers : Busy(v) => wk[v].job # j /\ wk[v].job \in Jobs
                                   /\ jobs[wk[v].job].state = "running"
  BY <1>1 DEF TInv, TypeOK, Busy
<1>5. \A v \in Workers : ~Busy(v)' => wk'[v] = Idle /\ sess'[v] = EmptySession
  BY <1>1, <1>3 DEF TInv, Reserved
<1>6. \A u, v \in Workers : Busy(u)' /\ Busy(v)' /\ wk'[u].job = wk'[v].job => u = v
  BY <1>1, <1>3, <1>4 DEF TInv, Reserved
<1>7. \A i \in Jobs : jobs'[i].state = "running" => \E v \in Workers : Busy(v)' /\ wk'[v].job = i
  BY <1>1, <1>2, <1>3 DEF TInv, Reserved
<1>8. Reserved'
  BY <1>5, <1>6, <1>7 DEF Reserved
<1>9. \A v \in Workers :
        Busy(v)' => wk'[v].job \in Jobs /\ jobs'[wk'[v].job].state = "running"
  BY <1>1, <1>2, <1>3, <1>4
<1>10. overlapped' \subseteq Tasks
  <2>1. overlapped \subseteq Tasks /\ TaskOf[j] \in Tasks
    BY PipelineAssumption DEF TInv, TypeOK, PipelineAssumption
  <2> QED BY <2>1, TakeEffect
<1>11. Alone'
  <2>1. /\ overlapped \subseteq overlapped' /\ TaskId(w)' = TaskOf[j]
        /\ \A v \in Workers : Busy(v) /\ TaskId(v) = TaskOf[j] => TaskOf[j] \in overlapped'
    BY <1>1, TakeEffect DEF TaskId
  <2>2. \A v \in Workers \ {w} : (Busy(v)' <=> Busy(v)) /\ TaskId(v)' = TaskId(v)
    BY <1>3 DEF TaskId
  <2> QED BY <2>1, <2>2 DEF TInv, Alone
<1> QED BY <1>1, <1>2, <1>8, <1>9, <1>10, <1>11 DEF Workplace, Busy, Frame

\* The part of TInv about the two databases.
Databases ==
  /\ tasks \in [Tasks -> TaskDocs] /\ db \in SUBSET Records /\ IsFiniteSet(db)
  /\ dbRejs \in [Tasks -> [Stages -> Nat]]

LEMMA SavesDatabases ==
  ASSUME TInv, SameTables, tasks' = tasks \/ \E w \in Workers : \E doc : Saves(w, doc)
  PROVE  Databases'
BY DEF TInv, TypeOK, Finite, Databases, SameTables, Saves

LEMMA CommitsDatabases ==
  ASSUME TInv, NEW w \in Workers, Busy(w), Commits(w), tasks' = tasks
  PROVE  Databases'
<1> DEFINE new == [s \in Stages |-> dbRejs[TaskId(w)][s] + sess[w].rejs[s]]
<1>1. /\ tasks \in [Tasks -> TaskDocs] /\ db \subseteq Records /\ IsFiniteSet(db)
      /\ dbRejs \in [Tasks -> [Stages -> Nat]]
  BY DEF TInv, TypeOK, Finite
<1>2. db' \subseteq Records /\ IsFiniteSet(db')
  BY <1>1, Typed, FS_Union DEF Commits
<1>3. new \in [Stages -> Nat]
  BY <1>1, Typed
<1>4. dbRejs' = [dbRejs EXCEPT ![TaskId(w)] = new]
  BY DEF Commits
<1>5. dbRejs' \in [Tasks -> [Stages -> Nat]]
  <2> HIDE DEF new
  <2> QED BY <1>1, <1>3, <1>4
<1> QED BY <1>1, <1>2, <1>5 DEF Databases

\* The sessions stay finite.
FiniteSessions == \A w \in Workers : IsFiniteSet(sess[w].rows) /\ IsFiniteSet(sess[w].snap)

LEMMA SessionsFinite ==
  ASSUME TInv, NEW w \in Workers, Frame(w),
         \/ sess' = sess
         \/ sess'[w] = EmptySession
         \/ sess'[w].rows = sess[w].rows /\ sess'[w].snap = Snapshot(w)
         \/ sess'[w].rows = sess[w].rows /\ sess'[w].snap = sess[w].snap
         \/ sess'[w].snap = sess[w].snap /\ \E S : IsFiniteSet(S) /\ sess'[w].rows = sess[w].rows \union S
  PROVE  FiniteSessions'
<1>1. \A v \in Workers : IsFiniteSet(sess[v].rows) /\ IsFiniteSet(sess[v].snap)
  BY DEF TInv, Finite
<1>2. IsFiniteSet(Snapshot(w))
  BY VideosFound
<1>3. IsFiniteSet({})
  BY FS_EmptySet
<1>4. IsFiniteSet(sess'[w].rows) /\ IsFiniteSet(sess'[w].snap)
  <2>1. CASE sess' = sess
    BY <2>1, <1>1
  <2>2. CASE sess'[w] = EmptySession
    BY <2>2, <1>3 DEF EmptySession
  <2>3. CASE sess'[w].rows = sess[w].rows /\ sess'[w].snap = Snapshot(w)
    BY <2>3, <1>1, <1>2
  <2>4. CASE /\ sess'[w].snap = sess[w].snap
             /\ \E S : IsFiniteSet(S) /\ sess'[w].rows = sess[w].rows \union S
    <3>1. PICK S : IsFiniteSet(S) /\ sess'[w].rows = sess[w].rows \union S
      BY <2>4
    <3>2. IsFiniteSet(sess[w].rows \union S)
      BY <1>1, <3>1, FS_Union
    <3> QED BY <3>1, <3>2, <2>4, <1>1
  <2>5. CASE sess'[w].rows = sess[w].rows /\ sess'[w].snap = sess[w].snap
    BY <2>5, <1>1
  <2> QED BY <2>1, <2>2, <2>3, <2>4, <2>5
<1> QED BY <1>1, <1>4 DEF Frame, FiniteSessions

LEMMA TInvParts ==
  ASSUME Workplace, Databases, FiniteSessions, faults \in 0 .. MaxFaults
  PROVE  TInv
BY DEF Workplace, Databases, FiniteSessions, TInv, TypeOK, Finite

LEMMA TypeInit == Init => TInv
<1> SUFFICES ASSUME Init PROVE TInv
  OBVIOUS
<1>1. Workplace
  <2>1. /\ wk \in [Workers -> Locals] /\ sess \in [Workers -> Sessions]
        /\ \A w \in Workers : wk[w] = Idle /\ sess[w] = EmptySession
    BY NewTask DEF Init
  <2>2. jobs \in [Jobs -> Messages] /\ \A j \in Jobs : jobs[j].state = "queued"
    BY PipelineAssumption DEF Init, Messages, PipelineAssumption
  <2>3. overlapped = {}
    BY DEF Init
  <2> QED BY <2>1, <2>2, <2>3 DEF Workplace, Reserved, Alone, Busy, Idle
<1>2. Databases
  BY NewTask, FS_EmptySet DEF Init, Databases
<1>3. FiniteSessions
  BY FS_EmptySet DEF Init, FiniteSessions, EmptySession
<1>4. faults \in 0 .. MaxFaults
  BY PipelineAssumption DEF Init, PipelineAssumption
<1> QED BY <1>1, <1>2, <1>3, <1>4, TInvParts

\* A step that goes on with the job and at most saves a document.
LEMMA GoesOnTyped ==
  ASSUME TInv, NEW w \in Workers, NEW p, GoesOn(w, p), SameTables, FiniteSessions',
         tasks' = tasks \/ \E doc : Saves(w, doc), faults' \in 0 .. MaxFaults
  PROVE  TInv'
<1>1. Databases'
  BY SavesDatabases
<1>2. Workplace'
  BY GoesOnWorkplace
<1> QED BY <1>1, <1>2 DEF Workplace, Databases, FiniteSessions, TInv, TypeOK, Finite

LEMMA TypeStep == TInv /\ [Next]_vars => TInv'
<1> SUFFICES ASSUME TInv, [Next]_vars PROVE TInv'
  OBVIOUS
<1>0. faults \in 0 .. MaxFaults /\ MaxFaults \in Nat
  BY PipelineAssumption DEF TInv, TypeOK, PipelineAssumption
<1>1. ASSUME NEW w \in Workers, NEW j \in Jobs, Take(w, j) PROVE TInv'
  <2>1. Frame(w) /\ sess' = sess /\ tasks' = tasks /\ SameTables /\ faults' = faults
    BY <1>1, TakeEffect
  <2>2. Workplace' /\ Databases' /\ FiniteSessions'
    BY <1>1, <2>1, TakeWorkplace, SavesDatabases, SessionsFinite
  <2> QED BY <1>0, <2>1, <2>2 DEF Workplace, Databases, FiniteSessions, TInv, TypeOK, Finite
<1>2. ASSUME NEW w \in Workers, NEW p, GoesOn(w, p), SameTables, sess' = sess,
             tasks' = tasks \/ \E doc : Saves(w, doc), faults' = faults
      PROVE  TInv'
  <2>1. FiniteSessions'
    BY <1>2, SessionsFinite DEF GoesOn
  <2> QED BY <1>0, <1>2, <2>1, GoesOnTyped
<1>3. ASSUME NEW w \in Workers, Setup(w) PROVE TInv'
  <2>1. GoesOn(w, "find") /\ sess' = sess /\ SameTables /\ tasks' = tasks /\ faults' = faults
    BY <1>3, SetupEffect
  <2> QED BY <2>1, <1>2
<1>4. ASSUME NEW w \in Workers, FindTask(w) PROVE TInv'
  <2>1. GoesOn(w, "start") /\ sess' = sess /\ SameTables /\ tasks' = tasks /\ faults' = faults
    BY <1>4, FindTaskEffect
  <2> QED BY <2>1, <1>2
<1>5. ASSUME NEW w \in Workers, StartTask(w) PROVE TInv'
  <2>1. GoesOn(w, "phase") /\ sess' = sess /\ SameTables /\ Saves(w, wk[w].task) /\ faults' = faults
    BY <1>5, StartTaskEffect
  <2> QED BY <2>1, <1>2
<1>6. ASSUME NEW w \in Workers, SkipPhase(w) PROVE TInv'
  <2>1. wk[w].cur \in TaskDocs
    BY Typed
  <2>2. sess' = sess /\ SameTables /\ tasks' = tasks /\ faults' = faults
    BY <1>6, SkipPhaseEffect
  <2>3. GoesOn(w, NextCall(wk[w].stage))
    BY <1>6, <2>1, SkipPhaseEffect, AfterPhaseEffect
  <2> QED BY <2>2, <2>3, <1>2
<1>7. ASSUME NEW w \in Workers, RunChunk(w) PROVE TInv'
  <2>1. /\ GoesOn(w, "phase") /\ ChunksLeft(w) /\ tasks' = tasks /\ SameTables
        /\ sess'[w].rows = sess[w].rows \union Inserted(w) /\ sess'[w].snap = sess[w].snap
        /\ faults' = faults
    BY <1>7, RunChunkEffect
  <2>2. Busy(w) /\ Frame(w)
    BY <2>1 DEF GoesOn
  <2>3. IsFiniteSet(Inserted(w))
    BY <2>1, <2>2, ChunkWrites
  <2>4. FiniteSessions'
    BY <2>1, <2>2, <2>3, SessionsFinite
  <2> QED BY <1>0, <2>1, <2>4, GoesOnTyped
<1>8. ASSUME NEW w \in Workers, RaiseInChunk(w) PROVE TInv'
  <2>1. GoesOn(w, "failed") /\ sess' = sess /\ SameTables /\ tasks' = tasks /\ faults' = faults
    BY <1>8, RaiseInChunkEffect
  <2> QED BY <2>1, <1>2
<1>9. ASSUME NEW w \in Workers, EndPhase(w) PROVE TInv'
  <2>1. sess' = sess /\ SameTables /\ Saves(w, Checkpoint(w)) /\ faults' = faults
    BY <1>9, EndPhaseEffect
  <2>2. GoesOn(w, NextCall(wk[w].stage))
    BY <1>9, EndPhaseEffect, AfterPhaseEffect
  <2> QED BY <2>1, <2>2, <1>2
<1>10. ASSUME NEW w \in Workers, ReadIds(w) PROVE TInv'
  <2>1. /\ GoesOn(w, "phase") /\ sess'[w].rows = sess[w].rows /\ sess'[w].snap = Snapshot(w)
        /\ SameTables /\ tasks' = tasks /\ faults' = faults
    BY <1>10, ReadIdsEffect
  <2>2. FiniteSessions'
    BY <2>1, SessionsFinite DEF GoesOn
  <2> QED BY <1>0, <2>1, <2>2, GoesOnTyped
<1>11. ASSUME NEW w \in Workers, BuildResult(w) PROVE TInv'
  <2>1. /\ GoesOn(w, "complete") /\ sess'[w].rows = sess[w].rows /\ sess'[w].snap = Snapshot(w)
        /\ SameTables /\ tasks' = tasks /\ faults' = faults
    BY <1>11, BuildResultEffect
  <2>2. FiniteSessions'
    BY <2>1, SessionsFinite DEF GoesOn
  <2> QED BY <1>0, <2>1, <2>2, GoesOnTyped
<1>12. ASSUME NEW w \in Workers, Complete(w) PROVE TInv'
  <2>1. GoesOn(w, "commit") /\ sess' = sess /\ SameTables /\ Saves(w, wk[w].task) /\ faults' = faults
    BY <1>12, CompleteEffect
  <2> QED BY <2>1, <1>2
<1>13. ASSUME NEW w \in Workers, SaveFailed(w) PROVE TInv'
  <2>1. GoesOn(w, "rollback") /\ sess' = sess /\ SameTables /\ Saves(w, FailWith(wk[w].task)) /\ faults' = faults
    BY <1>13, SaveFailedEffect
  <2> QED BY <2>1, <1>2
<1>14. ASSUME NEW w \in Workers, NEW p, GoesOn(w, p), Commits(w), sess'[w] = EmptySession,
              tasks' = tasks, faults' \in 0 .. MaxFaults
       PROVE  TInv'
  <2>1. Workplace' /\ Databases' /\ FiniteSessions'
    BY <1>14, GoesOnWorkplace, CommitsDatabases, SessionsFinite DEF GoesOn
  <2> QED BY <1>14, <2>1 DEF Workplace, Databases, FiniteSessions, TInv, TypeOK, Finite
<1>15. ASSUME NEW w \in Workers, Commit(w) PROVE TInv'
  <2>1. /\ GoesOn(w, "ack") /\ Commits(w) /\ sess'[w] = EmptySession /\ tasks' = tasks
        /\ faults' = faults
    BY <1>15, CommitEffect
  <2> QED BY <2>1, <1>0, <1>14
<1>16. ASSUME NEW w \in Workers, LeavesJob(w) PROVE TInv'
  <2>1. PICK job : Leaves(w, job)
    BY <1>16, LeaveEffect
  <2>2. /\ tasks' = tasks /\ SameTables /\ faults' \in {faults, faults + 1}
        /\ faults' # faults => faults < MaxFaults
    BY <1>16, LeaveEffect
  <2>3. Workplace' /\ Databases' /\ FiniteSessions'
    BY <2>1, <2>2, LeavesWorkplace, SavesDatabases, SessionsFinite DEF Leaves
  <2>4. faults' \in 0 .. MaxFaults
    BY <1>0, <2>2
  <2> QED BY <2>3, <2>4 DEF Workplace, Databases, FiniteSessions, TInv, TypeOK, Finite
<1>17. ASSUME NEW w \in Workers, InfraError(w) PROVE TInv'
  <2> DEFINE p == IF wk[w].pc \in {"phase", "ids", "result", "complete"} THEN "failed"
                  ELSE "rollback"
  <2>1. GoesOn(w, p) /\ faults < MaxFaults /\ faults' = faults + 1
    BY <1>17, InfraErrorEffect
  <2>2. faults' \in 0 .. MaxFaults
    BY <1>0, <2>1
  <2>3. \/ sess' = sess /\ SameTables /\ (tasks' = tasks \/ \E doc : Saves(w, doc))
        \/ Commits(w) /\ sess'[w] = EmptySession /\ tasks' = tasks
    BY <1>17, InfraErrorEffect
  <2> HIDE DEF p
  <2>4. CASE sess' = sess /\ SameTables /\ (tasks' = tasks \/ \E doc : Saves(w, doc))
    <3>1. FiniteSessions'
      BY <2>1, <2>4, SessionsFinite DEF GoesOn
    <3> QED BY <2>1, <2>2, <2>4, <3>1, GoesOnTyped
  <2> QED BY <2>1, <2>2, <2>3, <2>4, <1>14
<1>18. ASSUME NEW w \in Workers, InsertRow(w) PROVE TInv'
  <2>1. /\ GoesOn(w, "phase") /\ sess'[w].rows = sess[w].rows /\ sess'[w].snap = sess[w].snap
        /\ SameTables /\ tasks' = tasks /\ faults' = faults
    BY <1>18, InsertRowEffect
  <2>2. FiniteSessions'
    BY <2>1, SessionsFinite DEF GoesOn
  <2> QED BY <1>0, <2>1, <2>2, GoesOnTyped
<1>19. ASSUME NEW w \in Workers, Deadlock(w) PROVE TInv'
  <2>1. /\ GoesOn(w, "failed") /\ sess'[w] = EmptySession
        /\ SameTables /\ tasks' = tasks /\ faults' = faults
    BY <1>19, DeadlockEffect
  <2>2. FiniteSessions'
    BY <2>1, SessionsFinite DEF GoesOn
  <2> QED BY <1>0, <2>1, <2>2, GoesOnTyped
<1>20. CASE UNCHANGED vars
  BY <1>20 DEF vars, TInv, TypeOK, Reserved, Alone, Finite, Busy, TaskId
<1> QED
  BY <1>1, <1>3, <1>4, <1>5, <1>6, <1>7, <1>8, <1>9, <1>10, <1>11, <1>12, <1>13, <1>15,
     <1>16, <1>17, <1>18, <1>19, <1>20 DEF Next, Step, LeavesJob

\* Every variable has its type: what a retry, a crash, a lost answer or a second worker leaves
\* in the documents, the sessions and the local variables of process_analysis are documents,
\* counts and calls; a worker that has a call to make holds a message that nobody else works
\* on.
THEOREM TypeCorrect == Spec => []TypeOK
<1>1. TInv => TypeOK
  BY DEF TInv
<1> QED BY <1>1, TypeInit, TypeStep, PTL DEF Spec

-----------------------------------------------------------------------------
(***************************************************************************)
(* Where a job is in the code and what it has at hand there: a session     *)
(* nothing was written to before the phases and after the commit, objects  *)
(* that say PROCESSING or COMPLETED when they are saved, and rows of its   *)
(* own task only.                                                          *)
(***************************************************************************)
Placed(w) ==
  /\ wk[w].pc \in {"setup", "find", "start"} =>
       /\ sess[w] = EmptySession /\ wk[w].stage = Selection /\ wk[w].chunk = 1
       /\ wk[w].loaded = 0 /\ wk[w].rejected = 0
  /\ wk[w].pc = "start" => wk[w].task.status = "processing"
  /\ wk[w].pc \in {"phase", "ids"} => wk[w].cur.status = "processing"
  /\ wk[w].pc = "complete" => wk[w].task.status = "completed"
  /\ wk[w].pc = "ack" => sess[w] = EmptySession
  /\ \A rec \in sess[w].rows : rec.task = TaskId(w)

DInv == \A w \in Workers : Placed(w)

LEMMA PlacedStep == TInv /\ DInv /\ [Next]_vars => DInv'
<1> SUFFICES ASSUME TInv, DInv, [Next]_vars PROVE DInv'
  OBVIOUS
<1>0. \A w \in Workers : Placed(w)
  BY DEF DInv
<1>1. ASSUME NEW w \in Workers, NEW p, GoesOn(w, p), Placed(w)' PROVE DInv'
  BY <1>0, <1>1 DEF GoesOn, Frame, DInv, Placed, TaskId
<1>2. ASSUME NEW w \in Workers, NEW j \in Jobs, Take(w, j) PROVE DInv'
  <2>1. /\ Frame(w) /\ sess' = sess /\ sess[w] = EmptySession /\ wk'[w].pc = "setup"
        /\ SamePlace(wk'[w], Idle)
    BY <1>2, TakeEffect
  <2>2. Placed(w)'
    BY <2>1 DEF Placed, SamePlace, Idle, EmptySession
  <2> QED BY <1>0, <2>1, <2>2 DEF Frame, DInv, Placed, TaskId
<1>3. ASSUME NEW w \in Workers, Setup(w) PROVE DInv'
  <2>1. GoesOn(w, "find") /\ SamePlace(wk'[w], wk[w]) /\ sess' = sess /\ wk[w].pc = "setup"
    BY <1>3, SetupEffect
  <2>2. Placed(w)'
    BY <1>0, <2>1 DEF Placed, GoesOn, TaskId, SamePlace
  <2> QED BY <1>1, <2>1, <2>2
<1>4. ASSUME NEW w \in Workers, FindTask(w) PROVE DInv'
  <2>1. tasks[TaskId(w)] \in TaskDocs
    BY <1>4, Typed DEF FindTask, Busy
  <2>2. /\ GoesOn(w, "start") /\ wk'[w].task.status = "processing"
        /\ SamePlace(wk'[w], wk[w]) /\ sess' = sess /\ wk[w].pc = "find"
    BY <1>4, <2>1, TaskWrites, FindTaskEffect
  <2>3. Placed(w)'
    BY <1>0, <2>2 DEF Placed, GoesOn, SamePlace, TaskId
  <2> QED BY <1>1, <2>2, <2>3
<1>5. ASSUME NEW w \in Workers, StartTask(w) PROVE DInv'
  <2>1. GoesOn(w, "phase") /\ wk'[w].cur = wk[w].task /\ sess' = sess /\ wk[w].pc = "start"
    BY <1>5, StartTaskEffect
  <2>2. Placed(w)'
    BY <1>0, <2>1 DEF Placed, GoesOn, TaskId
  <2> QED BY <1>1, <2>1, <2>2
<1>6. ASSUME NEW w \in Workers, NEW cur \in TaskDocs, cur.status = "processing", Busy(w),
             AfterPhase(w, cur), jobs' = jobs, overlapped' = overlapped, sess' = sess
      PROVE  DInv'
  <2>1. GoesOn(w, NextCall(wk[w].stage)) /\ wk'[w].cur = cur
    BY <1>6, AfterPhaseEffect
  <2>2. Placed(w)'
    BY <1>0, <1>6, <2>1 DEF Placed, GoesOn, TaskId, NextCall
  <2> QED BY <1>1, <2>1, <2>2
<1>7. ASSUME NEW w \in Workers, SkipPhase(w) PROVE DInv'
  <2>1. wk[w].cur \in TaskDocs /\ wk[w].cur.status = "processing"
    BY <1>0, <1>7, SkipPhaseEffect, Typed DEF Placed
  <2> QED BY <1>6, <1>7, <2>1, SkipPhaseEffect
<1>8. ASSUME NEW w \in Workers, EndPhase(w) PROVE DInv'
  <2>1. Checkpoint(w) \in TaskDocs /\ Checkpoint(w).status = "processing"
    BY <1>0, <1>8, EndPhaseEffect, CheckpointTyped DEF Placed
  <2> QED BY <1>6, <1>8, <2>1, EndPhaseEffect
<1>9. ASSUME NEW w \in Workers, RunChunk(w) PROVE DInv'
  <2>1. /\ GoesOn(w, "phase") /\ ChunksLeft(w) /\ wk'[w].cur = wk[w].cur /\ wk[w].pc = "phase"
        /\ sess'[w].rows = sess[w].rows \union Inserted(w)
    BY <1>9, RunChunkEffect DEF SameObjects
  <2>2. \A rec \in Inserted(w) : rec.task = TaskId(w)
    BY <2>1, ChunkWrites DEF GoesOn
  <2>3. Placed(w)'
    BY <1>0, <2>1, <2>2 DEF Placed, GoesOn, TaskId
  <2> QED BY <1>1, <2>1, <2>3
<1>10. ASSUME NEW w \in Workers, RaiseInChunk(w) PROVE DInv'
  <2>1. GoesOn(w, "failed") /\ sess' = sess
    BY <1>10, RaiseInChunkEffect
  <2>2. Placed(w)'
    BY <1>0, <2>1 DEF Placed, GoesOn, TaskId
  <2> QED BY <1>1, <2>1, <2>2
<1>11. ASSUME NEW w \in Workers, ReadIds(w) PROVE DInv'
  <2>1. /\ GoesOn(w, "phase") /\ wk'[w].cur = wk[w].cur /\ sess'[w].rows = sess[w].rows
        /\ wk[w].pc = "ids"
    BY <1>11, ReadIdsEffect DEF SameObjects
  <2>2. Placed(w)'
    BY <1>0, <2>1 DEF Placed, GoesOn, TaskId
  <2> QED BY <1>1, <2>1, <2>2
<1>12. ASSUME NEW w \in Workers, BuildResult(w) PROVE DInv'
  <2>1. GoesOn(w, "complete") /\ wk'[w].task.status = "completed" /\ sess'[w].rows = sess[w].rows
    BY <1>12, BuildResultEffect
  <2>2. Placed(w)'
    BY <1>0, <2>1 DEF Placed, GoesOn, TaskId
  <2> QED BY <1>1, <2>1, <2>2
<1>13. ASSUME NEW w \in Workers, Complete(w) PROVE DInv'
  <2>1. GoesOn(w, "commit") /\ sess' = sess
    BY <1>13, CompleteEffect
  <2>2. Placed(w)'
    BY <1>0, <2>1 DEF Placed, GoesOn, TaskId
  <2> QED BY <1>1, <2>1, <2>2
<1>14. ASSUME NEW w \in Workers, SaveFailed(w) PROVE DInv'
  <2>1. GoesOn(w, "rollback") /\ sess' = sess
    BY <1>14, SaveFailedEffect
  <2>2. Placed(w)'
    BY <1>0, <2>1 DEF Placed, GoesOn, TaskId
  <2> QED BY <1>1, <2>1, <2>2
<1>15. ASSUME NEW w \in Workers, Commit(w) PROVE DInv'
  <2>1. GoesOn(w, "ack") /\ sess'[w] = EmptySession
    BY <1>15, CommitEffect
  <2>2. Placed(w)'
    BY <1>0, <2>1 DEF Placed, GoesOn, TaskId, EmptySession
  <2> QED BY <1>1, <2>1, <2>2
<1>16. ASSUME NEW w \in Workers, LeavesJob(w) PROVE DInv'
  <2>1. Frame(w) /\ wk'[w] = Idle /\ sess'[w] = EmptySession
    BY <1>16, LeaveEffect DEF Leaves
  <2>2. Placed(w)'
    BY <2>1 DEF Placed, Idle, EmptySession
  <2> QED BY <1>0, <2>1, <2>2 DEF Frame, DInv, Placed, TaskId
<1>17. ASSUME NEW w \in Workers, InfraError(w) PROVE DInv'
  <2>1. GoesOn(w, "failed") \/ GoesOn(w, "rollback")
    BY <1>17, InfraErrorEffect
  <2>2. sess' = sess \/ sess'[w] = EmptySession
    BY <1>17, InfraErrorEffect
  <2>3. Placed(w)'
    BY <1>0, <2>1, <2>2 DEF Placed, GoesOn, TaskId, EmptySession
  <2> QED BY <1>1, <2>1, <2>3
<1>18. ASSUME NEW w \in Workers, InsertRow(w) PROVE DInv'
  <2>1. GoesOn(w, "phase") /\ wk' = wk /\ sess'[w].rows = sess[w].rows /\ wk[w].pc = "phase"
    BY <1>18, InsertRowEffect
  <2>2. Placed(w)'
    BY <1>0, <2>1 DEF Placed, GoesOn, TaskId
  <2> QED BY <1>1, <2>1, <2>2
<1>19. ASSUME NEW w \in Workers, Deadlock(w) PROVE DInv'
  <2>1. GoesOn(w, "failed") /\ sess'[w] = EmptySession
    BY <1>19, DeadlockEffect
  <2>2. Placed(w)'
    BY <1>0, <2>1 DEF Placed, GoesOn, TaskId, EmptySession
  <2> QED BY <1>1, <2>1, <2>2
<1>20. CASE UNCHANGED vars
  BY <1>20 DEF vars, DInv, Placed, TaskId
<1> QED
  BY <1>2, <1>3, <1>4, <1>5, <1>7, <1>8, <1>9, <1>10, <1>11, <1>12, <1>13, <1>14,
     <1>15, <1>16, <1>17, <1>18, <1>19, <1>20 DEF Next, Step, LeavesJob

LEMMA PlacedInit == Init => DInv
BY DEF Init, DInv, Placed, Idle, EmptySession

-----------------------------------------------------------------------------
(***************************************************************************)
(* The shapes of a step of a worker that has a job: it writes at most the  *)
(* document of its task; or it commits; or it leaves.  Whatever it does,   *)
(* it writes about its own task only.                                      *)
(***************************************************************************)
Works(w) ==
  \/ Setup(w) \/ FindTask(w) \/ StartTask(w) \/ SkipPhase(w) \/ InsertRow(w) \/ Deadlock(w)
  \/ RunChunk(w) \/ RaiseInChunk(w) \/ EndPhase(w) \/ ReadIds(w) \/ BuildResult(w)
  \/ Complete(w) \/ SaveFailed(w) \/ Commit(w) \/ InfraError(w) \/ LeavesJob(w)

LEMMA NextWorks ==
  Next => \E w \in Workers : Works(w) \/ \E j \in Jobs : Take(w, j)
BY DEF Next, Step, Works, LeavesJob

Saving(w, p) == GoesOn(w, p) /\ SameTables /\ (tasks' = tasks \/ \E doc : Saves(w, doc))
Storing(w, p) ==
  /\ GoesOn(w, p) /\ p \in {"ack", "rollback"} /\ wk[w].pc = "commit" /\ Commits(w)
  /\ sess'[w] = EmptySession /\ tasks' = tasks
Leaving(w) == (\E job : Leaves(w, job)) /\ tasks' = tasks /\ SameTables

LEMMA WorkShapes ==
  ASSUME TInv, NEW w \in Workers, Works(w)
  PROVE  \/ \E p : Saving(w, p)
         \/ \E p : Storing(w, p)
         \/ Leaving(w)
<1>1. CASE Setup(w) \/ FindTask(w) \/ StartTask(w) \/ InsertRow(w) \/ Deadlock(w) \/ RunChunk(w)
  BY <1>1, SetupEffect, FindTaskEffect, StartTaskEffect, InsertRowEffect, DeadlockEffect,
     RunChunkEffect DEF Saving
<1>2. CASE RaiseInChunk(w) \/ ReadIds(w) \/ BuildResult(w) \/ Complete(w) \/ SaveFailed(w)
  BY <1>2, RaiseInChunkEffect, ReadIdsEffect, BuildResultEffect, CompleteEffect, SaveFailedEffect
     DEF Saving
<1>3. CASE SkipPhase(w) \/ EndPhase(w)
  <2>1. wk[w].cur \in TaskDocs
    BY Typed
  <2>2. /\ GoesOn(w, NextCall(wk[w].stage)) /\ SameTables
        /\ tasks' = tasks \/ Saves(w, Checkpoint(w))
    BY <1>3, <2>1, SkipPhaseEffect, EndPhaseEffect, AfterPhaseEffect
  <2> QED BY <2>2 DEF Saving
<1>4. CASE Commit(w)
  BY <1>4, CommitEffect DEF Storing
<1>5. CASE InfraError(w)
  <2> DEFINE p == IF wk[w].pc \in {"phase", "ids", "result", "complete"} THEN "failed"
                  ELSE "rollback"
  <2>1. /\ GoesOn(w, p)
        /\ \/ SameTables /\ (tasks' = tasks \/ \E doc : Saves(w, doc))
           \/ /\ wk[w].pc = "commit" /\ Commits(w) /\ sess'[w] = EmptySession /\ tasks' = tasks
    BY <1>5, InfraErrorEffect
  <2>2. wk[w].pc = "commit" => p = "rollback"
    OBVIOUS
  <2> HIDE DEF p
  <2> QED BY <2>1, <2>2 DEF Saving, Storing
<1>6. CASE LeavesJob(w)
  BY <1>6, LeaveEffect DEF Leaving
<1> QED BY <1>1, <1>2, <1>3, <1>4, <1>5, <1>6 DEF Works

\* What the step of a worker leaves alone.
OnlyOwn(w) ==
  /\ Busy(w) /\ Frame(w) /\ overlapped' = overlapped /\ db \subseteq db'
  /\ Busy(w)' => wk'[w].job = wk[w].job
  /\ \A t \in Tasks \ {TaskId(w)} :
       tasks'[t] = tasks[t] /\ RecordsOf(t)' = RecordsOf(t) /\ dbRejs'[t] = dbRejs[t]

LEMMA WorksOnItsOwn ==
  ASSUME TInv, DInv, NEW w \in Workers, Works(w)
  PROVE  OnlyOwn(w)
<1>1. /\ tasks \in [Tasks -> TaskDocs] /\ dbRejs \in [Tasks -> [Stages -> Nat]]
      /\ \A rec \in sess[w].rows : rec.task = TaskId(w)
  BY DEF TInv, TypeOK, DInv, Placed
<1>2. ASSUME NEW p, Saving(w, p) PROVE OnlyOwn(w)
  BY <1>1, <1>2 DEF Saving, GoesOn, SameTables, Saves, OnlyOwn, RecordsOf
<1>3. ASSUME NEW p, Storing(w, p) PROVE OnlyOwn(w)
  <2>1. \A t \in Tasks \ {TaskId(w)} : RecordsOf(t)' = RecordsOf(t)
    BY <1>1, <1>3 DEF Storing, Commits, RecordsOf
  <2>2. \A t \in Tasks \ {TaskId(w)} : dbRejs'[t] = dbRejs[t]
    BY <1>1, <1>3 DEF Storing, Commits
  <2> QED BY <1>3, <2>1, <2>2 DEF Storing, Commits, GoesOn, OnlyOwn
<1>4. CASE Leaving(w)
  BY <1>4 DEF Leaving, Leaves, SameTables, OnlyOwn, RecordsOf, Busy, Idle
<1> QED BY <1>2, <1>3, <1>4, WorkShapes

-----------------------------------------------------------------------------
(***************************************************************************)
(* EndsSettled, when the calls before PROCESSING is saved and the save of  *)
(* FAILED succeed: for an active task there is a message in the queue or a *)
(* worker that will still write its end.                                   *)
(***************************************************************************)
Active == {"pending", "processing"}
WillSettle == {"setup", "find", "start", "phase", "ids", "result", "complete", "failed"}
Working(j) == \E w \in Workers : wk[w].pc \in WillSettle /\ wk[w].job = j
Attended(t) == \E j \in Jobs : TaskOf[j] = t /\ (jobs[j].state = "queued" \/ Working(j))

EInv == \A t \in Tasks : tasks[t].status \in Active => Attended(t)

\* A step of one worker leaves to the others what they attend to.
LEMMA KeepsAttended ==
  ASSUME TInv, EInv, NEW w \in Workers, NEW p, GoesOn(w, p), tasks' = tasks,
         wk[w].pc \in WillSettle => p \in WillSettle
  PROVE  EInv'
<1>1. /\ \A v \in Workers : wk'[v].job = wk[v].job
      /\ \A v \in Workers \ {w} : wk'[v] = wk[v]
      /\ wk'[w].pc = p /\ jobs' = jobs
  BY DEF GoesOn, Frame
<1>2. \A j \in Jobs : Working(j) => Working(j)'
  BY <1>1 DEF Working
<1> QED BY <1>1, <1>2 DEF EInv, Attended

\* A save leaves its task active only if the worker goes on to settle it.
LEMMA SavesAttended ==
  ASSUME TInv, EInv, NEW w \in Workers, NEW p, GoesOn(w, p), NEW doc, Saves(w, doc),
         p \in WillSettle \/ doc.status \notin Active
  PROVE  EInv'
<1>1. /\ \A v \in Workers : wk'[v].job = wk[v].job
      /\ \A v \in Workers \ {w} : wk'[v] = wk[v]
      /\ wk'[w].pc = p /\ jobs' = jobs /\ wk[w].job \in Jobs
  BY Typed DEF GoesOn, Frame
<1>2. tasks \in [Tasks -> TaskDocs]
  BY DEF TInv, TypeOK
<1>3. ASSUME NEW t \in Tasks, tasks'[t].status \in Active PROVE Attended(t)'
  <2>1. CASE t = TaskId(w)
    <3>1. p \in WillSettle
      BY <2>1, <1>2, <1>3 DEF Saves
    <3> QED BY <3>1, <2>1, <1>1 DEF Attended, Working, TaskId
  <2>2. CASE t # TaskId(w)
    <3>1. tasks[t].status \in Active
      BY <2>2, <1>2, <1>3 DEF Saves
    <3>2. PICK j \in Jobs : TaskOf[j] = t /\ (jobs[j].state = "queued" \/ Working(j))
      BY <3>1 DEF EInv, Attended
    <3>3. jobs'[j].state = "queued" \/ Working(j)'
      BY <3>2, <2>2, <1>1 DEF Working, TaskId
    <3> QED BY <3>2, <3>3 DEF Attended
  <2> QED BY <2>1, <2>2
<1> QED BY <1>3 DEF EInv

LEMMA SettledStep ==
  ASSUME Faults \intersect {"setup", "find", "start", "failed", "killed"} = {}
  PROVE  TInv /\ DInv /\ EInv /\ [Next]_vars => EInv'
<1> SUFFICES ASSUME TInv, DInv, EInv, [Next]_vars PROVE EInv'
  OBVIOUS
<1>0. \A w \in Workers : Placed(w)
  BY DEF DInv
<1>1. ASSUME NEW w \in Workers, NEW j \in Jobs, Take(w, j) PROVE EInv'
  <2>1. /\ \A v \in Workers \ {w} : wk'[v] = wk[v]
        /\ wk[w].pc = "idle" /\ wk'[w].pc = "setup" /\ wk'[w].job = j
        /\ \A i \in Jobs \ {j} : jobs'[i] = jobs[i]
        /\ tasks' = tasks
    BY <1>1, TakeEffect DEF Frame, TInv, TypeOK, Busy
  <2>2. ASSUME NEW i \in Jobs, jobs[i].state = "queued" \/ Working(i)
        PROVE  jobs'[i].state = "queued" \/ Working(i)'
    BY <2>1, <2>2 DEF Working, WillSettle
  <2> QED BY <2>1, <2>2 DEF EInv, Attended
<1>2. ASSUME NEW w \in Workers, Setup(w) PROVE EInv'
  BY <1>2, SetupEffect, KeepsAttended DEF WillSettle
<1>3. ASSUME NEW w \in Workers, FindTask(w) PROVE EInv'
  BY <1>3, FindTaskEffect, KeepsAttended DEF WillSettle
<1>4. ASSUME NEW w \in Workers, StartTask(w) PROVE EInv'
  BY <1>4, StartTaskEffect, SavesAttended DEF WillSettle
<1>5. ASSUME NEW w \in Workers, SkipPhase(w) \/ EndPhase(w) PROVE EInv'
  <2>1. wk[w].cur \in TaskDocs /\ NextCall(wk[w].stage) \in WillSettle
    BY Typed DEF NextCall, WillSettle
  <2>2. /\ GoesOn(w, NextCall(wk[w].stage))
        /\ tasks' = tasks \/ Saves(w, Checkpoint(w))
    BY <1>5, <2>1, SkipPhaseEffect, EndPhaseEffect, AfterPhaseEffect
  <2> QED BY <2>1, <2>2, KeepsAttended, SavesAttended
<1>6. ASSUME NEW w \in Workers, RunChunk(w) PROVE EInv'
  BY <1>6, RunChunkEffect, KeepsAttended DEF WillSettle
<1>7. ASSUME NEW w \in Workers, RaiseInChunk(w) PROVE EInv'
  BY <1>7, RaiseInChunkEffect, KeepsAttended DEF WillSettle
<1>8. ASSUME NEW w \in Workers, ReadIds(w) PROVE EInv'
  BY <1>8, ReadIdsEffect, KeepsAttended DEF WillSettle
<1>9. ASSUME NEW w \in Workers, BuildResult(w) PROVE EInv'
  BY <1>9, BuildResultEffect, KeepsAttended DEF WillSettle
<1>10. ASSUME NEW w \in Workers, Complete(w) PROVE EInv'
  <2>1. wk[w].task.status \notin Active
    BY <1>0, <1>10, CompleteEffect DEF Placed, Active
  <2> QED BY <1>10, <2>1, CompleteEffect, SavesAttended DEF WillSettle
<1>11. ASSUME NEW w \in Workers, SaveFailed(w) PROVE EInv'
  <2>1. FailWith(wk[w].task).status \notin Active
    BY Typed, TaskWrites DEF Active
  <2> QED BY <1>11, <2>1, SaveFailedEffect, SavesAttended DEF WillSettle
<1>12. ASSUME NEW w \in Workers, Commit(w) PROVE EInv'
  <2>1. GoesOn(w, "ack") /\ tasks' = tasks /\ wk[w].pc = "commit"
    BY <1>12, CommitEffect
  <2>2. wk[w].pc \notin WillSettle
    BY <2>1 DEF WillSettle
  <2> QED BY <2>1, <2>2, KeepsAttended
<1>13. ASSUME NEW w \in Workers, LeavesJob(w) PROVE EInv'
  <2>1. /\ tasks' = tasks /\ wk[w].job \in Jobs /\ jobs[wk[w].job].state = "running"
        /\ \A v \in Workers \ {w} : wk'[v] = wk[v] /\ (Busy(v) => wk[v].job # wk[w].job)
        /\ jobs \in [Jobs -> Messages]
        /\ \E job : jobs' = [jobs EXCEPT ![wk[w].job] = job]
    <3>1. PICK job : Leaves(w, job)
      BY <1>13, LeaveEffect
    <3>2. wk[w].job \in Jobs /\ jobs[wk[w].job].state = "running" /\ jobs \in [Jobs -> Messages]
      BY <3>1 DEF Leaves, TInv, TypeOK, Busy
    <3>3. \A v \in Workers \ {w} : Busy(v) => wk[v].job # wk[w].job
      BY <3>1 DEF Leaves, TInv, Reserved
    <3> QED BY <1>13, <3>1, <3>2, <3>3, LeaveEffect DEF Leaves, Frame
  <2>2. wk[w].pc \in WillSettle => jobs'[wk[w].job].state = "queued"
    <3>1. wk[w].pc \in WillSettle => Crash(w)
      BY <1>13 DEF LeavesJob, Ack, Rollback, SetupError, Kill, WillSettle
    <3> QED BY <2>1, <3>1 DEF Crash, Release, Messages
  <2>3. ASSUME NEW i \in Jobs, jobs[i].state = "queued" \/ Working(i)
        PROVE  jobs'[i].state = "queued" \/ Working(i)'
    <3>1. CASE i = wk[w].job
      BY <2>1, <2>2, <2>3, <3>1 DEF Working, Busy, WillSettle
    <3>2. CASE i # wk[w].job
      BY <2>1, <2>3, <3>2 DEF Working
    <3> QED BY <3>1, <3>2
  <2> QED BY <2>1, <2>3 DEF EInv, Attended
<1>14. ASSUME NEW w \in Workers, InfraError(w) PROVE EInv'
  <2> DEFINE p == IF wk[w].pc \in {"phase", "ids", "result", "complete"} THEN "failed"
                  ELSE "rollback"
  <2>1. /\ GoesOn(w, p) /\ wk[w].pc \in (Faults \intersect Calls) \ {"setup"}
        /\ \/ tasks' = tasks
           \/ PhaseIsOver(w) /\ Saves(w, Checkpoint(w))
           \/ wk[w].pc \in {"start", "complete"} /\ Saves(w, wk[w].task)
           \/ wk[w].pc = "failed"
    BY <1>14, InfraErrorEffect
  <2>2. wk[w].pc \in {"phase", "ids", "result", "complete", "commit"}
    BY <2>1 DEF Calls
  <2>3. /\ wk[w].pc \in WillSettle => p \in WillSettle
        /\ wk[w].pc \in {"phase", "complete"} => p \in WillSettle
    BY <2>2 DEF WillSettle
  <2>4. PhaseIsOver(w) => wk[w].pc = "phase"
    BY DEF PhaseIsOver, InPhase
  <2> HIDE DEF p
  <2>7. CASE PhaseIsOver(w) /\ Saves(w, Checkpoint(w))
    BY <2>1, <2>3, <2>4, <2>7, SavesAttended
  <2>8. CASE wk[w].pc = "complete" /\ Saves(w, wk[w].task)
    BY <2>1, <2>3, <2>8, SavesAttended
  <2>5. CASE tasks' = tasks
    BY <2>1, <2>3, <2>5, KeepsAttended
  <2> QED BY <2>1, <2>2, <2>5, <2>7, <2>8
<1>15. ASSUME NEW w \in Workers, InsertRow(w) PROVE EInv'
  BY <1>15, InsertRowEffect, KeepsAttended DEF WillSettle
<1>16. ASSUME NEW w \in Workers, Deadlock(w) PROVE EInv'
  BY <1>16, DeadlockEffect, KeepsAttended DEF WillSettle
<1>17. CASE UNCHANGED vars
  BY <1>17 DEF vars, EInv, Attended, Working
<1> QED
  BY <1>1, <1>2, <1>3, <1>4, <1>5, <1>6, <1>7, <1>8, <1>9, <1>10, <1>11, <1>12, <1>13,
     <1>14, <1>15, <1>16, <1>17 DEF Next, Step, LeavesJob

\* No task is left PENDING or PROCESSING when the broker has no message of it: whatever the rows
\* raise, whichever call inside execute() fails or INSERT deadlocks, when a worker dies with
\* its message, and with several messages of one task.  What it depends on is named: an error
\* before PROCESSING is saved, or of the save of FAILED, leaves the status as it is, and the
\* retries are counted; a killed pool process ("killed"), whose message is acknowledged, may
\* leave its task PROCESSING for good.
THEOREM TasksEndSettled ==
  ASSUME Faults \intersect {"setup", "find", "start", "failed", "killed"} = {},
         \A t \in Tasks : \E j \in Jobs : TaskOf[j] = t
  PROVE  Spec => []EndsSettled
<1>1. Init => EInv
  BY DEF Init, EInv, Attended
<1>2. TInv /\ EInv => EndsSettled
  <2> SUFFICES ASSUME TInv, EInv, NEW t \in Tasks, Finished(t)
               PROVE  tasks[t].status \in {"completed", "failed"}
    BY DEF EndsSettled
  <2>1. ~Attended(t)
    BY DEF TInv, TypeOK, Finished, Attended, Working, WillSettle
  <2> QED BY <2>1 DEF EInv, TInv, TypeOK, TaskDocs, Active
<1> QED
  BY <1>1, <1>2, TypeInit, TypeStep, PlacedInit, PlacedStep, SettledStep, PTL DEF Spec
=============================================================================
