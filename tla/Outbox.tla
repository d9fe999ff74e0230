------------------------------- MODULE Outbox -------------------------------
(***************************************************************************)
(* The transactional outbox: OutboxRelayService.relay() and                *)
(* recover_zombies() run as Celery tasks by several worker processes over  *)
(* the MongoDB collection "outbox" (app/application/outbox_relay_service.py*)
(* with MongoOutboxRepository and the OutboxMessage state transitions).    *)
(*                                                                         *)
(* Every call of the repository or of the dispatcher is one atomic step,   *)
(* and the steps of all processes interleave.  A message is named by its   *)
(* created_at rank, a number: find_by sorts by it.  updated_at is kept as  *)
(* one bit, stale: whether it is older than the zombie threshold.          *)
(***************************************************************************)
EXTENDS Naturals, FiniteSets

CONSTANTS
  Messages,     \* outbox messages, numbered in the order of created_at
  Relays,       \* executions of outbox.relay that can overlap
  Recoverers,   \* executions of outbox.recover_zombies that can overlap
  FetchLimit,   \* DEFAULT_FETCH_LIMIT
  ZombieLimit,  \* DEFAULT_ZOMBIE_LIMIT
  MaxRetries    \* OutboxMessage.max_retries

ASSUME OutboxAssumption ==
  /\ Messages \subseteq Nat
  /\ FetchLimit \in Nat \ {0}
  /\ ZombieLimit \in Nat \ {0}
  /\ MaxRetries \in Nat \ {0}

VARIABLES
  outbox,       \* the collection: message -> document
  sent,         \* message -> how many process_analysis messages Redis accepted
  relayPc,      \* relay -> the call it makes next on the head of its batch
  relayBatch,   \* relay -> the OutboxMessage objects still to handle
  zombieBatch   \* recoverer -> the OutboxMessage objects still to handle

vars == <<outbox, sent, relayPc, relayBatch, zombieBatch>>

-----------------------------------------------------------------------------
OutboxStatus == {"absent", "pending", "processing", "published", "failed"}
Settled == {"published", "failed"}

\* An OutboxMessage object in the memory of a process: what find_by returned.
Copy == [id : Messages, retry : 0 .. MaxRetries - 1]

Doc(status, retry) == [status |-> status, retry |-> retry, stale |-> FALSE]

\* MongoOutboxRepository.save: replace_one by _id, whatever is stored.
Save(m, doc) == outbox' = [outbox EXCEPT ![m] = doc]

\* Mutation: save_if_status without the status in its filter.
SaveAnyStatus(m, doc) == Save(m, doc)

\* MongoOutboxRepository.save_if_status(doc, PROCESSING).
SaveIfProcessing(m, doc) ==
  outbox' = IF outbox[m].status = "processing"
            THEN [outbox EXCEPT ![m] = doc] ELSE outbox

\* sort("created_at").limit(k) over the documents of S.
Oldest(S, k) == {m \in S : Cardinality({n \in S : n < m}) < k}

\* Mutation: the zombies are looked for among the PENDING messages.
ZombiesAmongPending ==
  Oldest({m \in Messages : outbox[m].status = "pending" /\ outbox[m].stale}, ZombieLimit)

\* MongoOutboxRepository.find_by, without and with the "before" criterion.
FindPending == Oldest({m \in Messages : outbox[m].status = "pending"}, FetchLimit)
FindZombies ==
  Oldest({m \in Messages : outbox[m].status = "processing" /\ outbox[m].stale},
         ZombieLimit)

CopiesOf(S) == {[id |-> m, retry |-> outbox[m].retry] : m \in S}

\* The for loops take the objects in the order find_by sorted them.
IsNext(batch, c) == c \in batch /\ \A d \in batch : c.id <= d.id

-----------------------------------------------------------------------------
Init ==
  /\ outbox = [m \in Messages |-> Doc("absent", 0)]
  /\ sent = [m \in Messages |-> 0]
  /\ relayPc = [r \in Relays |-> "save"]
  /\ relayBatch = [r \in Relays |-> {}]
  /\ zombieBatch = [z \in Recoverers |-> {}]

\* The transaction of AnalysisService.submit() commits a new PENDING message.
Enqueue(m) ==
  /\ outbox[m].status = "absent"
  /\ Save(m, Doc("pending", 0))
  /\ UNCHANGED <<sent, relayPc, relayBatch, zombieBatch>>

\* Five minutes pass without a write to a PROCESSING message.
Expire(m) ==
  /\ outbox[m].status = "processing"
  /\ ~outbox[m].stale
  /\ outbox' = [outbox EXCEPT ![m].stale = TRUE]
  /\ UNCHANGED <<sent, relayPc, relayBatch, zombieBatch>>

\* relay(): messages = find_by(PENDING, limit); nothing happens on an empty list.
RelayFetch(r) ==
  /\ relayBatch[r] = {}
  /\ FindPending # {}
  /\ relayBatch' = [relayBatch EXCEPT ![r] = CopiesOf(FindPending)]
  /\ UNCHANGED <<outbox, sent, relayPc, zombieBatch>>

\* save(msg.mark_processing()): the write does not look at the stored status.
RelaySave(r, c) ==
  /\ relayPc[r] = "save"
  /\ IsNext(relayBatch[r], c)
  /\ Save(c.id, Doc("processing", c.retry))
  /\ relayPc' = [relayPc EXCEPT ![r] = "dispatch"]
  /\ UNCHANGED <<sent, relayBatch, zombieBatch>>

\* Mutation: a dispatcher that swallows the broker's errors.
DispatchSwallowingErrors(r, c) ==
  /\ relayPc[r] = "dispatch"
  /\ IsNext(relayBatch[r], c)
  /\ sent' \in {sent, [sent EXCEPT ![c.id] = @ + 1]}
  /\ relayPc' = [relayPc EXCEPT ![r] = "publish"]
  /\ UNCHANGED <<outbox, relayBatch, zombieBatch>>

\* dispatch(task_id) hands the job to the broker.
RelayDispatch(r, c) ==
  /\ relayPc[r] = "dispatch"
  /\ IsNext(relayBatch[r], c)
  /\ sent' = [sent EXCEPT ![c.id] = @ + 1]
  /\ relayPc' = [relayPc EXCEPT ![r] = "publish"]
  /\ UNCHANGED <<outbox, relayBatch, zombieBatch>>

\* The loop goes on to the next object.
RelayNext(r, c) ==
  /\ relayBatch' = [relayBatch EXCEPT ![r] = @ \ {c}]
  /\ relayPc' = [relayPc EXCEPT ![r] = "save"]

\* save_if_status(msg.mark_published(), PROCESSING).
RelayPublish(r, c) ==
  /\ relayPc[r] = "publish"
  /\ IsNext(relayBatch[r], c)
  /\ SaveIfProcessing(c.id, Doc("published", c.retry))
  /\ RelayNext(r, c)
  /\ UNCHANGED <<sent, zombieBatch>>

\* dispatch or save_if_status raises: the except clause logs it and goes on.
RelayException(r, c) ==
  /\ relayPc[r] \in {"dispatch", "publish"}
  /\ IsNext(relayBatch[r], c)
  /\ RelayNext(r, c)
  /\ UNCHANGED <<outbox, sent, zombieBatch>>

\* The process dies, or the save outside the try block raises: relay() ends.
RelayAbort(r) ==
  /\ relayBatch[r] # {}
  /\ relayBatch' = [relayBatch EXCEPT ![r] = {}]
  /\ relayPc' = [relayPc EXCEPT ![r] = "save"]
  /\ UNCHANGED <<outbox, sent, zombieBatch>>

\* recover_zombies(): zombies = find_by(PROCESSING, before=cutoff, limit).
RecoverFetch(z) ==
  /\ zombieBatch[z] = {}
  /\ FindZombies # {}
  /\ zombieBatch' = [zombieBatch EXCEPT ![z] = CopiesOf(FindZombies)]
  /\ UNCHANGED <<outbox, sent, relayPc, relayBatch>>

\* Mutations: is_retriable with <= for <, and a recovery that counts no retry.
RecoveredOffByOne(c) ==
  IF c.retry + 1 <= MaxRetries THEN Doc("pending", c.retry + 1)
                               ELSE Doc("failed", c.retry + 1)
RecoveredUncounted(c) ==
  IF c.retry < MaxRetries THEN Doc("pending", c.retry) ELSE Doc("failed", c.retry)

\* with_retry_incremented, then back_to_pending or mark_failed.
Recovered(c) ==
  IF c.retry + 1 < MaxRetries THEN Doc("pending", c.retry + 1)
                              ELSE Doc("failed", c.retry + 1)

\* One iteration of the loop over the zombies.
RecoverSave(z, c) ==
  /\ IsNext(zombieBatch[z], c)
  /\ SaveIfProcessing(c.id, Recovered(c))
  /\ zombieBatch' = [zombieBatch EXCEPT ![z] = @ \ {c}]
  /\ UNCHANGED <<sent, relayPc, relayBatch>>

\* save_if_status raises: logged, and the loop goes on to the next zombie.
RecoverException(z, c) ==
  /\ IsNext(zombieBatch[z], c)
  /\ zombieBatch' = [zombieBatch EXCEPT ![z] = @ \ {c}]
  /\ UNCHANGED <<outbox, sent, relayPc, relayBatch>>

\* The process dies inside the loop.
RecoverAbort(z) ==
  /\ zombieBatch[z] # {}
  /\ zombieBatch' = [zombieBatch EXCEPT ![z] = {}]
  /\ UNCHANGED <<outbox, sent, relayPc, relayBatch>>

RelayStep(r) ==
  \/ RelayFetch(r)
  \/ RelayAbort(r)
  \/ \E c \in relayBatch[r] :
       RelaySave(r, c) \/ RelayDispatch(r, c) \/ RelayPublish(r, c) \/ RelayException(r, c)

RecoverStep(z) ==
  \/ RecoverFetch(z)
  \/ RecoverAbort(z)
  \/ \E c \in zombieBatch[z] : RecoverSave(z, c) \/ RecoverException(z, c)

Next ==
  \/ \E m \in Messages : Enqueue(m) \/ Expire(m)
  \/ \E r \in Relays : RelayStep(r)
  \/ \E z \in Recoverers : RecoverStep(z)

Spec == Init /\ [][Next]_vars

-----------------------------------------------------------------------------
\* Beat starts both tasks for ever (WF on the fetches), time passes, a started
\* task is not stopped for ever, and the writes of a loop that runs again and
\* again do not fail every time (SF).  Enqueue, dispatch, exceptions and crashes
\* are left unfair: a broker that never accepts anything is allowed.
Fairness ==
  /\ \A m \in Messages : WF_vars(Expire(m))
  /\ \A r \in Relays :
       /\ WF_vars(RelayFetch(r))
       /\ WF_vars(RelayStep(r))
       /\ SF_vars(\E c \in relayBatch[r] : RelaySave(r, c))
  /\ \A z \in Recoverers :
       /\ WF_vars(RecoverFetch(z))
       /\ SF_vars(\E c \in zombieBatch[z] : RecoverSave(z, c))

FairSpec == Spec /\ Fairness

-----------------------------------------------------------------------------
\* The documents and the copies have the shapes mark_processing, with_retry_
\* incremented and is_retriable allow: a message that can still be relayed has
\* retries left, and a message is FAILED only with all of them used up.
TypeOK ==
  /\ outbox \in [Messages -> [status : OutboxStatus, retry : 0 .. MaxRetries, stale : BOOLEAN]]
  /\ \A m \in Messages :
       (outbox[m].status = "failed") <=> (outbox[m].retry = MaxRetries)
  /\ sent \in [Messages -> Nat]
  /\ relayPc \in [Relays -> {"save", "dispatch", "publish"}]
  /\ relayBatch \in [Relays -> SUBSET Copy]
  /\ zombieBatch \in [Recoverers -> SUBSET Copy]

\* A message marked PUBLISHED has been accepted by the broker, however the
\* relays and recoverers interleave, fail and stop (relay: dispatch before
\* mark_published, and save_if_status under its own try).
PublishedWasSent ==
  \A m \in Messages : outbox[m].status = "published" => sent[m] >= 1

\* PUBLISHED and FAILED have no outgoing transition: relay() and
\* recover_zombies() never take a settled message up again.  The comparison in
\* save_if_status is there for this; relay's first save has none.
SettledIsFinal ==
  [][\A m \in Messages : outbox[m].status \in Settled
                            => outbox'[m].status = outbox[m].status]_vars

\* No message is handed to the broker more often than max_retries allows, late
\* dispatches of a relay that was declared a zombie included.
SendBudget == \A m \in Messages : sent[m] <= MaxRetries

\* Every message the API stored is eventually published or given up, although
\* the broker, the database and the processes may fail at any time.
EverySettles ==
  \A m \in Messages : outbox[m].status = "pending" ~> outbox[m].status \in Settled

-----------------------------------------------------------------------------
\* The state of an event that a document stands for: PENDING and PROCESSING
\* are both "accepted", so a zombie sent back to PENDING is a stutter.
EventOf(status) ==
  CASE status = "absent" -> "none"
    [] status \in {"pending", "processing"} -> "accepted"
    [] status = "published" -> "done"
    [] status = "failed" -> "dead"

EventState == [m \in Messages |-> EventOf(outbox[m].status)]

Delivery == INSTANCE EventDelivery WITH
  Events <- Messages, Budget <- MaxRetries, state <- EventState, deliveries <- sent

\* One relay and one recoverer implement the abstract delivery: every call they
\* make is a step of EventDelivery or invisible to it (save_if_status and the
\* retry count together give "settled once, after at least one and at most
\* max_retries deliveries").
ImplementsDelivery == Delivery!Spec
=============================================================================
