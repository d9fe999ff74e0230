---------------------------- MODULE OutboxProofs ----------------------------
(***************************************************************************)
(* Theorems about Outbox, for any number of messages and any limits.       *)
(***************************************************************************)
EXTENDS Outbox, TLAPS

\* At most one execution of outbox.relay (of outbox.recover_zombies) at a time.
OneRelay == \A r, s \in Relays : r = s
OneRecoverer == \A y, z \in Recoverers : y = z

-----------------------------------------------------------------------------
\* The object a relay is working on, and the objects it has yet to save.
Waiting(r, c) == c \in relayBatch[r] /\ (relayPc[r] = "save" \/ ~IsNext(relayBatch[r], c))
InHand(r, c) == IsNext(relayBatch[r], c) /\ relayPc[r] # "save"

\* Two objects of one batch are different messages.
OneCopyEach(batch) == \A c, d \in batch : c.id = d.id => c = d
DistinctCopies ==
  /\ \A r \in Relays : OneCopyEach(relayBatch[r])
  /\ \A z \in Recoverers : OneCopyEach(zombieBatch[z])

\* With one relay, what it has yet to save is as it was fetched.
WaitingIsPending ==
  \A r \in Relays : \A c \in relayBatch[r] :
    Waiting(r, c) => /\ outbox[c.id].status = "pending"
                     /\ outbox[c.id].retry = c.retry

\* A relay about to publish has sent its message.
SentInHand ==
  \A r \in Relays : \A c \in relayBatch[r] :
    InHand(r, c) /\ relayPc[r] = "publish" => sent[c.id] >= 1

\* With one relay and one recoverer, a PROCESSING document is what they hold.
InHandIsCurrent ==
  \A r \in Relays : \A c \in relayBatch[r] :
    InHand(r, c) /\ outbox[c.id].status = "processing" => outbox[c.id].retry = c.retry
ZombieIsCurrent ==
  \A z \in Recoverers : \A c \in zombieBatch[z] :
    /\ outbox[c.id].status \in {"processing", "published"}
    /\ outbox[c.id].status = "processing" => outbox[c.id].retry = c.retry

\* Attempts the stored document accounts for, against the ones made or begun.
Attempts(m) ==
  IF outbox[m].status = "absent" THEN 0
  ELSE IF outbox[m].status \in {"processing", "published"} THEN outbox[m].retry + 1
  ELSE outbox[m].retry
AboutToSend(m) ==
  \E r \in Relays : \E c \in relayBatch[r] :
    c.id = m /\ InHand(r, c) /\ relayPc[r] = "dispatch"
AttemptsCoverSent ==
  \A m \in Messages : /\ sent[m] <= Attempts(m)
                      /\ AboutToSend(m) => sent[m] < Attempts(m)

\* Nothing a process holds has vanished from the collection.
CopiesExist ==
  /\ \A r \in Relays : \A c \in relayBatch[r] : outbox[c.id].status # "absent"
  /\ \A z \in Recoverers : \A c \in zombieBatch[z] : outbox[c.id].status # "absent"

\* A relay without objects is at the top of its loop.
IdleAtTop == \A r \in Relays : relayBatch[r] = {} => relayPc[r] = "save"

SentInv == IdleAtTop /\ CopiesExist /\ PublishedWasSent /\ SentInHand
IInv == TypeOK /\ SentInv
WaitingInv == DistinctCopies /\ WaitingIsPending
AttemptInv == InHandIsCurrent /\ ZombieIsCurrent /\ AttemptsCoverSent

-----------------------------------------------------------------------------
\* What find_by returns: documents with the status asked for, one copy of each.
LEMMA FindByStatus ==
  /\ FindPending \subseteq {m \in Messages : outbox[m].status = "pending"}
  /\ FindZombies \subseteq {m \in Messages : outbox[m].status = "processing"}
BY DEF FindPending, FindZombies, Oldest

\* The limits and the threshold arithmetic of is_retriable.
LEMMA RecoveredDoc ==
  ASSUME NEW c \in Copy
  PROVE  /\ Recovered(c) \in [status : {"pending", "failed"}, retry : 1 .. MaxRetries, stale : BOOLEAN]
         /\ Recovered(c).retry = c.retry + 1
         /\ Recovered(c).status = "failed" <=> Recovered(c).retry = MaxRetries
BY OutboxAssumption DEF Recovered, Doc, Copy

\* An empty outbox has the types of TypeOK.
LEMMA TypeInit == Init => TypeOK
BY OutboxAssumption DEF Init, TypeOK, Doc, OutboxStatus, Copy

\* Every call of a relay or a recoverer keeps TypeOK.
LEMMA TypeNext == TypeOK /\ [Next]_vars => TypeOK'
<1> SUFFICES ASSUME TypeOK, [Next]_vars PROVE TypeOK'
  OBVIOUS
<1> USE OutboxAssumption
<1>1. ASSUME NEW m \in Messages, Enqueue(m) PROVE TypeOK'
  BY <1>1 DEF Enqueue, Save, Doc, TypeOK, OutboxStatus
<1>2. ASSUME NEW m \in Messages, Expire(m) PROVE TypeOK'
  BY <1>2 DEF Expire, TypeOK, OutboxStatus
<1>3. ASSUME NEW r \in Relays, RelayFetch(r) PROVE TypeOK'
  <2>1. CopiesOf(FindPending) \subseteq Copy
    BY FindByStatus DEF CopiesOf, Copy, TypeOK
  <2> QED BY <1>3, <2>1 DEF RelayFetch, TypeOK
<1>4. ASSUME NEW r \in Relays, RelayAbort(r) PROVE TypeOK'
  BY <1>4 DEF RelayAbort, TypeOK
<1>5. ASSUME NEW r \in Relays, NEW c \in relayBatch[r],
             RelaySave(r, c) \/ RelayDispatch(r, c) \/ RelayPublish(r, c) \/ RelayException(r, c)
      PROVE  TypeOK'
  <2> c \in Copy
    BY DEF TypeOK
  <2>1. CASE RelaySave(r, c)
    BY <2>1 DEF RelaySave, Save, Doc, TypeOK, OutboxStatus, Copy
  <2>2. CASE RelayDispatch(r, c)
    <3>1. c.id \in Messages /\ sent \in [Messages -> Nat]
      BY DEF Copy, TypeOK
    <3>2. sent[c.id] + 1 \in Nat
      <4>1. sent[c.id] \in Nat
        BY <3>1, Zenon
      <4>2. \A n \in Nat : n + 1 \in Nat
        OBVIOUS
      <4> QED BY <4>1, <4>2, Zenon
    <3>3. sent' \in [Messages -> Nat]
      BY <2>2, <3>1, <3>2, Zenon DEF RelayDispatch
    <3>4. relayPc' \in [Relays -> {"save", "dispatch", "publish"}]
      BY <2>2 DEF RelayDispatch, TypeOK
    <3> QED BY <2>2, <3>3, <3>4 DEF RelayDispatch, TypeOK
  <2>3. CASE RelayPublish(r, c)
    BY <2>3 DEF RelayPublish, RelayNext, SaveIfProcessing, Doc, TypeOK, OutboxStatus, Copy
  <2>4. CASE RelayException(r, c)
    BY <2>4 DEF RelayException, RelayNext, TypeOK
  <2> QED BY <1>5, <2>1, <2>2, <2>3, <2>4
<1>6. ASSUME NEW z \in Recoverers, RecoverFetch(z) PROVE TypeOK'
  <2>1. CopiesOf(FindZombies) \subseteq Copy
    BY FindByStatus DEF CopiesOf, Copy, TypeOK
  <2> QED BY <1>6, <2>1 DEF RecoverFetch, TypeOK
<1>7. ASSUME NEW z \in Recoverers, RecoverAbort(z) PROVE TypeOK'
  BY <1>7 DEF RecoverAbort, TypeOK
<1>8. ASSUME NEW z \in Recoverers, NEW c \in zombieBatch[z],
             RecoverSave(z, c) \/ RecoverException(z, c)
      PROVE  TypeOK'
  <2> c \in Copy
    BY DEF TypeOK
  <2>1. CASE RecoverSave(z, c)
    BY <2>1, RecoveredDoc DEF RecoverSave, SaveIfProcessing, TypeOK, OutboxStatus, Copy
  <2>2. CASE RecoverException(z, c)
    BY <2>2 DEF RecoverException, TypeOK
  <2> QED BY <1>8, <2>1, <2>2
<1>9. CASE UNCHANGED vars
  BY <1>9 DEF vars, TypeOK
<1> QED
  BY <1>1, <1>2, <1>3, <1>4, <1>5, <1>6, <1>7, <1>8, <1>9 DEF Next, RelayStep, RecoverStep

\* Documents and copies keep the shapes the domain methods allow, for any
\* number of overlapping relays and recoverers.
THEOREM TypeCorrect == Spec => []TypeOK
<1> QED BY TypeInit, TypeNext, PTL DEF Spec

-----------------------------------------------------------------------------
\* The object handled next is one of the batch, and the only one with its place.
LEMMA IsNextUnique ==
  ASSUME NEW batch \in SUBSET Copy, OneCopyEach(batch),
         NEW c \in batch, NEW d \in batch, IsNext(batch, c), IsNext(batch, d)
  PROVE  c = d
<1>1. c.id \in Nat /\ d.id \in Nat
  BY OutboxAssumption DEF Copy
<1>2. c.id = d.id
  BY <1>1 DEF IsNext
<1> QED BY <1>2 DEF OneCopyEach

\* The objects in memory name messages and have retries left.
LEMMA CopyFields ==
  ASSUME NEW c \in Copy
  PROVE  c.id \in Messages /\ c.id \in Nat /\ c.retry \in Nat /\ c.retry < MaxRetries
<1>1. c.id \in Messages /\ c.retry \in 0 .. MaxRetries - 1
  BY DEF Copy
<1>2. MaxRetries \in Nat /\ Messages \subseteq Nat
  BY OutboxAssumption
<1>3. \A k \in 0 .. MaxRetries - 1 : k \in Nat /\ k < MaxRetries
  BY <1>2
<1> QED BY <1>1, <1>2, <1>3, Zenon

\* The same of an object a relay or a recoverer holds.
LEMMA HeldCopies ==
  ASSUME TypeOK
  PROVE  /\ \A r \in Relays : \A c \in relayBatch[r] :
              c \in Copy /\ c.id \in Messages /\ c.id \in Nat
         /\ \A z \in Recoverers : \A c \in zombieBatch[z] :
              c \in Copy /\ c.id \in Messages /\ c.id \in Nat
<1>1. /\ \A r \in Relays : \A c \in relayBatch[r] : c \in Copy
      /\ \A z \in Recoverers : \A c \in zombieBatch[z] : c \in Copy
  BY DEF TypeOK
<1> QED BY <1>1, CopyFields

-----------------------------------------------------------------------------
(***************************************************************************)
(* What each action does to the documents, the copies and the control      *)
(* points, one entry at a time.                                            *)
(***************************************************************************)
\* Enqueue, document by document.
LEMMA EnqueueEffect ==
  ASSUME TypeOK, NEW m \in Messages, Enqueue(m)
  PROVE  /\ outbox[m].status = "absent" /\ outbox[m].retry # MaxRetries
         /\ outbox'[m].status = "pending" /\ outbox'[m].retry = 0
         /\ \A n \in Messages \ {m} : outbox'[n] = outbox[n]
         /\ UNCHANGED <<sent, relayPc, relayBatch, zombieBatch>>
BY DEF Enqueue, Save, Doc, TypeOK

\* Expire, document by document.
LEMMA ExpireEffect ==
  ASSUME TypeOK, NEW m \in Messages, Expire(m)
  PROVE  /\ \A n \in Messages : /\ outbox'[n].status = outbox[n].status
                                /\ outbox'[n].retry = outbox[n].retry
         /\ UNCHANGED <<sent, relayPc, relayBatch, zombieBatch>>
BY DEF Expire, TypeOK

\* A relay's batch after find_by: copies of PENDING documents.
LEMMA RelayFetchEffect ==
  ASSUME TypeOK, NEW r \in Relays, RelayFetch(r)
  PROVE  /\ relayBatch[r] = {}
         /\ \A s \in Relays \ {r} : relayBatch'[s] = relayBatch[s]
         /\ OneCopyEach(relayBatch'[r])
         /\ \A c \in relayBatch'[r] : /\ outbox[c.id].status = "pending"
                                      /\ outbox[c.id].retry = c.retry
         /\ UNCHANGED <<outbox, sent, relayPc, zombieBatch>>
<1>1. /\ relayBatch[r] = {}
      /\ relayBatch'[r] = CopiesOf(FindPending)
      /\ \A s \in Relays \ {r} : relayBatch'[s] = relayBatch[s]
      /\ UNCHANGED <<outbox, sent, relayPc, zombieBatch>>
  BY DEF RelayFetch, TypeOK
<1>2. \A c \in CopiesOf(FindPending) : /\ outbox[c.id].status = "pending"
                                       /\ outbox[c.id].retry = c.retry
  BY FindByStatus DEF CopiesOf
<1>3. OneCopyEach(CopiesOf(FindPending))
  BY DEF OneCopyEach, CopiesOf
<1> QED BY <1>1, <1>2, <1>3

\* A relay that dies forgets its batch and leaves the documents alone.
LEMMA RelayAbortEffect ==
  ASSUME TypeOK, NEW r \in Relays, RelayAbort(r)
  PROVE  /\ \A s \in Relays : relayBatch'[s] = IF s = r THEN {} ELSE relayBatch[s]
         /\ \A s \in Relays : relayPc'[s] = IF s = r THEN "save" ELSE relayPc[s]
         /\ UNCHANGED <<outbox, sent, zombieBatch>>
BY DEF RelayAbort, TypeOK

\* save(mark_processing): the document becomes PROCESSING with the retry of the copy.
LEMMA RelaySaveEffect ==
  ASSUME TypeOK, NEW r \in Relays, NEW c \in relayBatch[r], RelaySave(r, c)
  PROVE  /\ relayPc[r] = "save" /\ IsNext(relayBatch[r], c)
         /\ outbox'[c.id].status = "processing" /\ outbox'[c.id].retry = c.retry
         /\ \A n \in Messages \ {c.id} : outbox'[n] = outbox[n]
         /\ \A s \in Relays : relayPc'[s] = IF s = r THEN "dispatch" ELSE relayPc[s]
         /\ UNCHANGED <<sent, relayBatch, zombieBatch>>
BY HeldCopies DEF RelaySave, Save, Doc, TypeOK

\* dispatch: one more job in the broker, no document changed.
LEMMA RelayDispatchEffect ==
  ASSUME TypeOK, NEW r \in Relays, NEW c \in relayBatch[r], RelayDispatch(r, c)
  PROVE  /\ relayPc[r] = "dispatch" /\ IsNext(relayBatch[r], c)
         /\ \A n \in Messages : sent[n] \in Nat
         /\ \A n \in Messages : sent'[n] = IF n = c.id THEN sent[n] + 1 ELSE sent[n]
         /\ \A s \in Relays : relayPc'[s] = IF s = r THEN "publish" ELSE relayPc[s]
         /\ UNCHANGED <<outbox, relayBatch, zombieBatch>>
BY DEF RelayDispatch, TypeOK

\* save_if_status(PUBLISHED) or an exception, then the next object.
LEMMA RelayDropEffect ==
  ASSUME TypeOK, NEW r \in Relays, NEW c \in relayBatch[r],
         RelayPublish(r, c) \/ RelayException(r, c)
  PROVE  /\ relayPc[r] # "save" /\ IsNext(relayBatch[r], c)
         /\ \A n \in Messages :
              \/ outbox'[n] = outbox[n]
              \/ /\ n = c.id /\ relayPc[r] = "publish"
                 /\ outbox[n].status = "processing"
                 /\ outbox'[n].status = "published" /\ outbox'[n].retry = c.retry
         /\ \A s \in Relays \ {r} : relayBatch'[s] = relayBatch[s]
         /\ relayBatch'[r] = relayBatch[r] \ {c}
         /\ \A s \in Relays : relayPc'[s] = IF s = r THEN "save" ELSE relayPc[s]
         /\ UNCHANGED <<sent, zombieBatch>>
<1>1. /\ \A s \in Relays \ {r} : relayBatch'[s] = relayBatch[s]
      /\ relayBatch'[r] = relayBatch[r] \ {c}
      /\ \A s \in Relays : relayPc'[s] = IF s = r THEN "save" ELSE relayPc[s]
      /\ UNCHANGED <<sent, zombieBatch>>
  BY DEF RelayPublish, RelayException, RelayNext, TypeOK
<1>2. relayPc[r] # "save" /\ IsNext(relayBatch[r], c)
  BY DEF RelayPublish, RelayException
<1>3. \A n \in Messages :
        \/ outbox'[n] = outbox[n]
        \/ /\ n = c.id /\ relayPc[r] = "publish"
           /\ outbox[n].status = "processing"
           /\ outbox'[n] = Doc("published", c.retry)
  BY HeldCopies DEF RelayPublish, RelayException, SaveIfProcessing, TypeOK
<1> QED BY <1>1, <1>2, <1>3 DEF Doc

\* A recoverer's batch after find_by: copies of PROCESSING documents.
LEMMA RecoverFetchEffect ==
  ASSUME TypeOK, NEW z \in Recoverers, RecoverFetch(z)
  PROVE  /\ \A y \in Recoverers \ {z} : zombieBatch'[y] = zombieBatch[y]
         /\ OneCopyEach(zombieBatch'[z])
         /\ \A c \in zombieBatch'[z] : /\ outbox[c.id].status = "processing"
                                       /\ outbox[c.id].retry = c.retry
         /\ UNCHANGED <<outbox, sent, relayPc, relayBatch>>
<1>1. /\ zombieBatch'[z] = CopiesOf(FindZombies)
      /\ \A y \in Recoverers \ {z} : zombieBatch'[y] = zombieBatch[y]
      /\ UNCHANGED <<outbox, sent, relayPc, relayBatch>>
  BY DEF RecoverFetch, TypeOK
<1>2. \A c \in CopiesOf(FindZombies) : /\ outbox[c.id].status = "processing"
                                       /\ outbox[c.id].retry = c.retry
  BY FindByStatus DEF CopiesOf
<1>3. OneCopyEach(CopiesOf(FindZombies))
  BY DEF OneCopyEach, CopiesOf
<1> QED BY <1>1, <1>2, <1>3

\* A recoverer that dies forgets its batch and leaves the documents alone.
LEMMA RecoverAbortEffect ==
  ASSUME TypeOK, NEW z \in Recoverers, RecoverAbort(z)
  PROVE  /\ \A y \in Recoverers : zombieBatch'[y] = IF y = z THEN {} ELSE zombieBatch[y]
         /\ UNCHANGED <<outbox, sent, relayPc, relayBatch>>
BY DEF RecoverAbort, TypeOK

\* save_if_status of the recovered document or an exception, then the next one.
LEMMA RecoverDropEffect ==
  ASSUME TypeOK, NEW z \in Recoverers, NEW c \in zombieBatch[z],
         RecoverSave(z, c) \/ RecoverException(z, c)
  PROVE  /\ \A n \in Messages :
              \/ outbox'[n] = outbox[n]
              \/ /\ n = c.id /\ outbox[n].status = "processing"
                 /\ outbox'[n].status \in {"pending", "failed"}
                 /\ outbox'[n].retry = c.retry + 1
         /\ \A y \in Recoverers \ {z} : zombieBatch'[y] = zombieBatch[y]
         /\ zombieBatch'[z] = zombieBatch[z] \ {c}
         /\ UNCHANGED <<sent, relayPc, relayBatch>>
<1>1. c \in Copy
  BY HeldCopies
<1>2. /\ \A y \in Recoverers \ {z} : zombieBatch'[y] = zombieBatch[y]
      /\ zombieBatch'[z] = zombieBatch[z] \ {c}
  BY DEF RecoverSave, RecoverException, TypeOK
<1>3. \A n \in Messages :
        \/ outbox'[n] = outbox[n]
        \/ n = c.id /\ outbox[n].status = "processing" /\ outbox'[n] = Recovered(c)
  BY DEF RecoverSave, RecoverException, SaveIfProcessing, TypeOK
<1> QED BY <1>1, <1>2, <1>3, RecoveredDoc DEF RecoverSave, RecoverException

-----------------------------------------------------------------------------
\* IInv holds before the first message.
LEMMA IInvInit == Init => IInv
<1> SUFFICES ASSUME Init PROVE IInv
  OBVIOUS
<1>1. IdleAtTop /\ CopiesExist /\ PublishedWasSent /\ SentInHand
  BY DEF Init, Doc, IdleAtTop, CopiesExist, PublishedWasSent, SentInHand
<1> QED BY <1>1, TypeInit DEF IInv, SentInv

\* Every step of every relay and recoverer keeps IInv.
LEMMA IInvNext == IInv /\ [Next]_vars => IInv'
<1> SUFFICES ASSUME IInv, [Next]_vars PROVE IInv'
  OBVIOUS
<1>0. TypeOK /\ SentInv /\ TypeOK'
  BY TypeNext DEF IInv
<1> USE <1>0, HeldCopies DEF SentInv
<1>1. ASSUME NEW m \in Messages, Enqueue(m) PROVE SentInv'
  BY <1>1, EnqueueEffect DEF IdleAtTop, CopiesExist, PublishedWasSent, SentInHand, InHand
<1>2. ASSUME NEW m \in Messages, Expire(m) PROVE SentInv'
  BY <1>2, ExpireEffect DEF IdleAtTop, CopiesExist, PublishedWasSent, SentInHand, InHand
<1>3. ASSUME NEW r \in Relays, RelayFetch(r) PROVE SentInv'
  BY <1>3, RelayFetchEffect DEF IdleAtTop, CopiesExist, PublishedWasSent, SentInHand, InHand
<1>4. ASSUME NEW r \in Relays, RelayAbort(r) PROVE SentInv'
  BY <1>4, RelayAbortEffect DEF IdleAtTop, CopiesExist, PublishedWasSent, SentInHand, InHand
<1>5. ASSUME NEW r \in Relays, NEW c \in relayBatch[r], RelaySave(r, c) PROVE SentInv'
  <2>1. CopiesExist'
    <3>1. \A n \in Messages : outbox[n].status # "absent" => outbox'[n].status # "absent"
      BY <1>5, RelaySaveEffect
    <3>2. UNCHANGED <<relayBatch, zombieBatch>>
      BY <1>5, RelaySaveEffect
    <3> QED BY <3>1, <3>2 DEF CopiesExist
  <2>3. PublishedWasSent'
    BY <1>5, RelaySaveEffect DEF PublishedWasSent
  <2>2. IdleAtTop' /\ SentInHand'
    BY <1>5, RelaySaveEffect DEF IdleAtTop, SentInHand, InHand
  <2> QED BY <2>1, <2>2, <2>3
<1>6. ASSUME NEW r \in Relays, NEW c \in relayBatch[r], RelayDispatch(r, c) PROVE SentInv'
  <2>1. IdleAtTop' /\ CopiesExist' /\ PublishedWasSent'
    BY <1>6, RelayDispatchEffect DEF IdleAtTop, CopiesExist, PublishedWasSent
  <2>2. ASSUME NEW s \in Relays, NEW d \in relayBatch'[s],
               InHand(s, d)', relayPc'[s] = "publish"
        PROVE  sent'[d.id] >= 1
    <3>1. CASE s = r
      <4>1. d.id = c.id
        BY <3>1, <1>6, <2>2, RelayDispatchEffect DEF InHand, IsNext
      <4> QED BY <4>1, <1>6, RelayDispatchEffect
    <3>2. CASE s # r
      <4>1. sent[d.id] >= 1
        BY <3>2, <1>6, <2>2, RelayDispatchEffect DEF InHand, SentInHand
      <4> QED BY <4>1, <1>6, <2>2, RelayDispatchEffect
    <3> QED BY <3>1, <3>2
  <2> QED BY <2>1, <2>2 DEF SentInHand
<1>7. ASSUME NEW r \in Relays, NEW c \in relayBatch[r],
             RelayPublish(r, c) \/ RelayException(r, c)
      PROVE  SentInv'
  <2>1. CopiesExist'
    <3>1. \A n \in Messages : outbox[n].status # "absent" => outbox'[n].status # "absent"
      BY <1>7, RelayDropEffect
    <3>2. zombieBatch' = zombieBatch /\ \A s \in Relays : \A d \in relayBatch'[s] : d \in relayBatch[s]
      BY <1>7, RelayDropEffect
    <3>3. \A s \in Relays : \A d \in relayBatch'[s] : outbox'[d.id].status # "absent"
      BY <3>1, <3>2 DEF CopiesExist
    <3>4. \A z \in Recoverers : \A d \in zombieBatch'[z] : outbox'[d.id].status # "absent"
      BY <3>1, <3>2 DEF CopiesExist
    <3> QED BY <3>3, <3>4 DEF CopiesExist
  <2>2. IdleAtTop' /\ SentInHand'
    <3>1. \A s \in Relays :
            relayPc'[s] = "save" \/ (relayPc'[s] = relayPc[s] /\ relayBatch'[s] = relayBatch[s])
      BY <1>7, RelayDropEffect
    <3>2. IdleAtTop'
      BY <3>1 DEF IdleAtTop
    <3>3. sent' = sent
      BY <1>7, RelayDropEffect
    <3> QED BY <3>1, <3>2, <3>3 DEF SentInHand, InHand
  <2>3. PublishedWasSent'
    <3>1. relayPc[r] = "publish" => sent[c.id] >= 1
      BY <1>7, RelayDropEffect DEF SentInHand, InHand
    <3> QED BY <3>1, <1>7, RelayDropEffect DEF PublishedWasSent
  <2> QED BY <2>1, <2>2, <2>3
<1>8. ASSUME NEW z \in Recoverers, RecoverFetch(z) PROVE SentInv'
  BY <1>8, RecoverFetchEffect DEF IdleAtTop, CopiesExist, PublishedWasSent, SentInHand, InHand
<1>9. ASSUME NEW z \in Recoverers, RecoverAbort(z) PROVE SentInv'
  BY <1>9, RecoverAbortEffect DEF IdleAtTop, CopiesExist, PublishedWasSent, SentInHand, InHand
<1>10. ASSUME NEW z \in Recoverers, NEW c \in zombieBatch[z],
              RecoverSave(z, c) \/ RecoverException(z, c)
       PROVE  SentInv'
  <2>1. CopiesExist'
    <3>1. \A n \in Messages : outbox[n].status # "absent" => outbox'[n].status # "absent"
      BY <1>10, RecoverDropEffect
    <3>2. relayBatch' = relayBatch /\ \A y \in Recoverers : zombieBatch'[y] \subseteq zombieBatch[y]
      BY <1>10, RecoverDropEffect
    <3> QED BY <3>1, <3>2 DEF CopiesExist
  <2>3. PublishedWasSent'
    BY <1>10, RecoverDropEffect DEF PublishedWasSent
  <2>2. IdleAtTop' /\ SentInHand'
    BY <1>10, RecoverDropEffect DEF IdleAtTop, SentInHand, InHand
  <2> QED BY <2>1, <2>2, <2>3
<1>11. ASSUME UNCHANGED vars PROVE SentInv'
  BY <1>11 DEF vars, IdleAtTop, CopiesExist, PublishedWasSent, SentInHand, InHand
<1> HIDE DEF SentInv
<1>12. SentInv'
  BY <1>1, <1>2, <1>3, <1>4, <1>5, <1>6, <1>7, <1>8, <1>9, <1>10, <1>11
  DEF Next, RelayStep, RecoverStep
<1> QED BY <1>0, <1>12 DEF IInv

\* Whatever overlaps, fails or stops, PUBLISHED means the broker has the job.
THEOREM PublishedIsSent == Spec => []PublishedWasSent
<1>1. IInv => PublishedWasSent
  BY DEF IInv, SentInv
<1> QED BY <1>1, IInvInit, IInvNext, PTL DEF Spec

-----------------------------------------------------------------------------
\* No relay has an object in the beginning.
LEMMA WaitingInit == Init => WaitingInv
BY DEF Init, WaitingInv, DistinctCopies, OneCopyEach, WaitingIsPending

\* With one relay, the objects it has not saved yet stay PENDING in the collection.
LEMMA WaitingNext ==
  ASSUME OneRelay, IInv, WaitingInv, [Next]_vars
  PROVE  WaitingInv'
<1>0. TypeOK /\ IdleAtTop /\ DistinctCopies /\ WaitingIsPending
  BY DEF IInv, SentInv, WaitingInv
<1> USE <1>0, HeldCopies
<1> DEFINE KeepsWaiting ==
      \A r \in Relays : \A c \in relayBatch'[r] : Waiting(r, c)' =>
        /\ c \in relayBatch[r] /\ Waiting(r, c)
        /\ outbox'[c.id].status = outbox[c.id].status
        /\ outbox'[c.id].retry = outbox[c.id].retry
<1>a. KeepsWaiting => WaitingIsPending'
  BY DEF WaitingIsPending
<1>1. ASSUME NEW m \in Messages, Enqueue(m) PROVE WaitingInv'
  <2>1. DistinctCopies'
    BY <1>1, EnqueueEffect DEF DistinctCopies, OneCopyEach
  <2>2. KeepsWaiting
    BY <1>1, EnqueueEffect DEF WaitingIsPending, Waiting
  <2> QED BY <1>a, <2>1, <2>2 DEF WaitingInv
<1>2. ASSUME NEW m \in Messages, Expire(m) PROVE WaitingInv'
  <2>1. DistinctCopies'
    BY <1>2, ExpireEffect DEF DistinctCopies, OneCopyEach
  <2>2. KeepsWaiting
    BY <1>2, ExpireEffect DEF Waiting
  <2> QED BY <1>a, <2>1, <2>2 DEF WaitingInv
<1>3. ASSUME NEW r \in Relays, RelayFetch(r) PROVE WaitingInv'
  <2>1. DistinctCopies'
    BY <1>3, RelayFetchEffect DEF DistinctCopies
  <2>2. WaitingIsPending'
    BY <1>3, RelayFetchEffect DEF WaitingIsPending, OneRelay
  <2> QED BY <2>1, <2>2 DEF WaitingInv
<1>4. ASSUME NEW r \in Relays, RelayAbort(r) PROVE WaitingInv'
  <2>1. DistinctCopies'
    BY <1>4, RelayAbortEffect DEF DistinctCopies, OneCopyEach
  <2>2. KeepsWaiting
    BY <1>4, RelayAbortEffect DEF Waiting
  <2> QED BY <1>a, <2>1, <2>2 DEF WaitingInv
<1>5. ASSUME NEW r \in Relays, NEW c \in relayBatch[r], RelaySave(r, c) PROVE WaitingInv'
  <2>1. DistinctCopies'
    BY <1>5, RelaySaveEffect DEF DistinctCopies, OneCopyEach
  <2>2. ASSUME NEW s \in Relays, NEW d \in relayBatch'[s], Waiting(s, d)'
        PROVE  /\ d \in relayBatch[s] /\ Waiting(s, d)
               /\ outbox'[d.id].status = outbox[d.id].status
               /\ outbox'[d.id].retry = outbox[d.id].retry
    <3>1. s = r /\ relayBatch' = relayBatch /\ relayPc[r] = "save"
      BY <1>5, RelaySaveEffect DEF OneRelay
    <3>2. d.id # c.id
      BY <1>5, <2>2, <3>1, RelaySaveEffect DEF Waiting, DistinctCopies, OneCopyEach
    <3> QED BY <1>5, <2>2, <3>1, <3>2, RelaySaveEffect DEF Waiting
  <2> QED BY <1>a, <2>1, <2>2 DEF WaitingInv
<1>6. ASSUME NEW r \in Relays, NEW c \in relayBatch[r], RelayDispatch(r, c) PROVE WaitingInv'
  <2>1. DistinctCopies'
    BY <1>6, RelayDispatchEffect DEF DistinctCopies, OneCopyEach
  <2>2. KeepsWaiting
    BY <1>6, RelayDispatchEffect DEF Waiting
  <2> QED BY <1>a, <2>1, <2>2 DEF WaitingInv
<1>7. ASSUME NEW r \in Relays, NEW c \in relayBatch[r],
             RelayPublish(r, c) \/ RelayException(r, c)
      PROVE  WaitingInv'
  <2>1. DistinctCopies'
    BY <1>7, RelayDropEffect DEF DistinctCopies, OneCopyEach
  <2>2. ASSUME NEW s \in Relays, NEW d \in relayBatch'[s], Waiting(s, d)'
        PROVE  /\ d \in relayBatch[s] /\ Waiting(s, d)
               /\ outbox'[d.id].status = outbox[d.id].status
               /\ outbox'[d.id].retry = outbox[d.id].retry
    <3>1. s = r
      BY DEF OneRelay
    <3>2. d \in relayBatch[r] /\ d # c
      BY <1>7, <3>1, RelayDropEffect
    <3>3. d.id # c.id
      BY <3>2 DEF DistinctCopies, OneCopyEach
    <3>4. ~IsNext(relayBatch[r], d)
      BY <1>7, <3>2, IsNextUnique, RelayDropEffect DEF DistinctCopies, TypeOK
    <3> QED BY <1>7, <3>1, <3>2, <3>3, <3>4, RelayDropEffect DEF Waiting
  <2> QED BY <1>a, <2>1, <2>2 DEF WaitingInv
<1>8. ASSUME NEW z \in Recoverers, RecoverFetch(z) PROVE WaitingInv'
  <2>1. DistinctCopies'
    BY <1>8, RecoverFetchEffect DEF DistinctCopies
  <2>2. KeepsWaiting
    BY <1>8, RecoverFetchEffect DEF Waiting
  <2> QED BY <1>a, <2>1, <2>2 DEF WaitingInv
<1>9. ASSUME NEW z \in Recoverers, RecoverAbort(z) PROVE WaitingInv'
  <2>1. DistinctCopies'
    BY <1>9, RecoverAbortEffect DEF DistinctCopies, OneCopyEach
  <2>2. KeepsWaiting
    BY <1>9, RecoverAbortEffect DEF Waiting
  <2> QED BY <1>a, <2>1, <2>2 DEF WaitingInv
<1>10. ASSUME NEW z \in Recoverers, NEW c \in zombieBatch[z],
              RecoverSave(z, c) \/ RecoverException(z, c)
       PROVE  WaitingInv'
  <2>1. DistinctCopies'
    <3>1. relayBatch' = relayBatch
      BY <1>10, RecoverDropEffect
    <3>2. \A y \in Recoverers : \A d \in zombieBatch'[y] : d \in zombieBatch[y]
      BY <1>10, RecoverDropEffect
    <3> QED BY <3>1, <3>2 DEF DistinctCopies, OneCopyEach
  <2>2. KeepsWaiting
    <3>1. UNCHANGED <<relayPc, relayBatch>>
      BY <1>10, RecoverDropEffect
    <3>2. \A n \in Messages : outbox[n].status = "pending" => outbox'[n] = outbox[n]
      BY <1>10, RecoverDropEffect
    <3> QED BY <3>1, <3>2 DEF Waiting, WaitingIsPending
  <2> QED BY <1>a, <2>1, <2>2 DEF WaitingInv
<1>11. ASSUME UNCHANGED vars PROVE WaitingInv'
  BY <1>11 DEF vars, WaitingInv, DistinctCopies, OneCopyEach, WaitingIsPending, Waiting
<1> QED
  BY <1>1, <1>2, <1>3, <1>4, <1>5, <1>6, <1>7, <1>8, <1>9, <1>10, <1>11
  DEF Next, RelayStep, RecoverStep

\* With one relay, however many recover_zombies() overlap, a settled message is
\* never written again: save() only hits PENDING, save_if_status only PROCESSING.
THEOREM SettledStays ==
  ASSUME OneRelay
  PROVE  Spec => SettledIsFinal
<1> DEFINE Inv == IInv /\ WaitingInv
<1> DEFINE Keeps == \A m \in Messages : outbox[m].status \in Settled
                                        => outbox'[m].status = outbox[m].status
<1>1. Init => Inv
  BY IInvInit, WaitingInit
<1>2. Inv /\ [Next]_vars => Inv'
  BY IInvNext, WaitingNext
<1>3. Inv /\ [Next]_vars => Keeps
  <2> SUFFICES ASSUME Inv, [Next]_vars PROVE Keeps
    OBVIOUS
  <2>0. TypeOK /\ WaitingIsPending
    BY DEF IInv, WaitingInv
  <2> USE <2>0, HeldCopies DEF Settled
  <2>1. ASSUME NEW m \in Messages, Enqueue(m) \/ Expire(m) PROVE Keeps
    BY <2>1, EnqueueEffect, ExpireEffect
  <2>2. ASSUME NEW r \in Relays, RelayFetch(r) \/ RelayAbort(r) PROVE Keeps
    BY <2>2, RelayFetchEffect, RelayAbortEffect
  <2>3. ASSUME NEW r \in Relays, NEW c \in relayBatch[r], RelaySave(r, c) PROVE Keeps
    <3>1. outbox[c.id].status = "pending"
      BY <2>3, RelaySaveEffect DEF WaitingIsPending, Waiting
    <3> QED BY <2>3, <3>1, RelaySaveEffect
  <2>4. ASSUME NEW r \in Relays, NEW c \in relayBatch[r],
               RelayDispatch(r, c) \/ RelayPublish(r, c) \/ RelayException(r, c)
        PROVE  Keeps
    BY <2>4, RelayDispatchEffect, RelayDropEffect
  <2>5. ASSUME NEW z \in Recoverers, RecoverFetch(z) \/ RecoverAbort(z) PROVE Keeps
    BY <2>5, RecoverFetchEffect, RecoverAbortEffect
  <2>6. ASSUME NEW z \in Recoverers, NEW c \in zombieBatch[z],
               RecoverSave(z, c) \/ RecoverException(z, c)
        PROVE  Keeps
    BY <2>6, RecoverDropEffect
  <2>7. ASSUME UNCHANGED vars PROVE Keeps
    BY <2>7 DEF vars
  <2> HIDE DEF Keeps
  <2> QED BY <2>1, <2>2, <2>3, <2>4, <2>5, <2>6, <2>7 DEF Next, RelayStep, RecoverStep
<1>4. Inv /\ [Next]_vars => [Keeps]_vars
  BY <1>3
<1> QED BY <1>1, <1>2, <1>4, PTL DEF Spec, SettledIsFinal

-----------------------------------------------------------------------------
\* Nothing has been sent in the beginning.
LEMMA AttemptInit == Init => AttemptInv
BY DEF Init, Doc, AttemptInv, InHandIsCurrent, ZombieIsCurrent,
       AttemptsCoverSent, AboutToSend, Attempts

\* With one relay and one recoverer the copies in memory are current, so every
\* dispatch is paid for by the retry count of the stored document.
LEMMA AttemptNext ==
  ASSUME OneRelay, OneRecoverer, IInv, WaitingInv, AttemptInv, [Next]_vars
  PROVE  AttemptInv'
<1>0. /\ TypeOK /\ IdleAtTop /\ CopiesExist
      /\ DistinctCopies /\ WaitingIsPending
      /\ InHandIsCurrent /\ ZombieIsCurrent /\ AttemptsCoverSent
      /\ \A m \in Messages : sent[m] \in Nat /\ outbox[m].retry \in Nat
  BY OutboxAssumption DEF IInv, SentInv, WaitingInv, AttemptInv, TypeOK
<1> USE <1>0, HeldCopies
<1>1. ASSUME NEW m \in Messages, Enqueue(m) PROVE AttemptInv'
  <2>1. InHandIsCurrent'
    BY <1>1, EnqueueEffect DEF InHandIsCurrent, InHand
  <2>2. ZombieIsCurrent'
    BY <1>1, EnqueueEffect DEF ZombieIsCurrent
  <2>3. \A n \in Messages : Attempts(n)' = Attempts(n) /\ AboutToSend(n)' = AboutToSend(n)
    BY <1>1, EnqueueEffect DEF Attempts, AboutToSend, InHand
  <2>4. AttemptsCoverSent'
    BY <1>1, <2>3, EnqueueEffect DEF AttemptsCoverSent
  <2> QED BY <2>1, <2>2, <2>4 DEF AttemptInv
<1>2. ASSUME NEW m \in Messages, Expire(m) PROVE AttemptInv'
  <2>1. InHandIsCurrent'
    BY <1>2, ExpireEffect DEF InHandIsCurrent, InHand
  <2>2. ZombieIsCurrent'
    BY <1>2, ExpireEffect DEF ZombieIsCurrent
  <2>3. \A n \in Messages : Attempts(n)' = Attempts(n) /\ AboutToSend(n)' = AboutToSend(n)
    BY <1>2, ExpireEffect DEF Attempts, AboutToSend, InHand
  <2>4. AttemptsCoverSent'
    BY <1>2, <2>3, ExpireEffect DEF AttemptsCoverSent
  <2> QED BY <2>1, <2>2, <2>4 DEF AttemptInv
<1>3. ASSUME NEW r \in Relays, RelayFetch(r) PROVE AttemptInv'
  <2>1. InHandIsCurrent'
    BY <1>3, RelayFetchEffect DEF InHandIsCurrent, OneRelay
  <2>2. ZombieIsCurrent'
    BY <1>3, RelayFetchEffect DEF ZombieIsCurrent
  <2>3. \A n \in Messages : Attempts(n)' = Attempts(n) /\ ~AboutToSend(n)'
    <3>1. relayPc'[r] = "save"
      BY <1>3, RelayFetchEffect DEF IdleAtTop
    <3> QED BY <1>3, <3>1, RelayFetchEffect DEF Attempts, AboutToSend, OneRelay
  <2>4. AttemptsCoverSent'
    BY <1>3, <2>3, RelayFetchEffect DEF AttemptsCoverSent
  <2> QED BY <2>1, <2>2, <2>4 DEF AttemptInv
<1>4. ASSUME NEW r \in Relays, RelayAbort(r) PROVE AttemptInv'
  <2>1. InHandIsCurrent'
    BY <1>4, RelayAbortEffect DEF InHandIsCurrent, OneRelay
  <2>2. ZombieIsCurrent'
    BY <1>4, RelayAbortEffect DEF ZombieIsCurrent
  <2>3. \A n \in Messages : Attempts(n)' = Attempts(n) /\ ~AboutToSend(n)'
    BY <1>4, RelayAbortEffect DEF Attempts, AboutToSend, OneRelay
  <2>4. AttemptsCoverSent'
    BY <1>4, <2>3, RelayAbortEffect DEF AttemptsCoverSent
  <2> QED BY <2>1, <2>2, <2>4 DEF AttemptInv
<1>5. ASSUME NEW r \in Relays, NEW c \in relayBatch[r], RelaySave(r, c) PROVE AttemptInv'
  <2>0. outbox[c.id].status = "pending" /\ outbox[c.id].retry = c.retry
    BY <1>5, RelaySaveEffect DEF WaitingIsPending, Waiting
  <2>a. \A s \in Relays : \A d \in relayBatch'[s] : InHand(s, d)' => d.id = c.id
    BY <1>5, RelaySaveEffect DEF InHand, IsNext, OneRelay
  <2>1. InHandIsCurrent'
    <3>1. \A s \in Relays : \A d \in relayBatch'[s] : InHand(s, d)' => d = c
      BY <1>5, <2>a, RelaySaveEffect DEF DistinctCopies, OneCopyEach, OneRelay
    <3> QED BY <1>5, <3>1, RelaySaveEffect DEF InHandIsCurrent
  <2>2. ZombieIsCurrent'
    <3>1. \A z \in Recoverers : \A d \in zombieBatch[z] : d.id # c.id
      BY <2>0 DEF ZombieIsCurrent
    <3> QED BY <1>5, <3>1, RelaySaveEffect DEF ZombieIsCurrent
  <2>3. /\ \A n \in Messages \ {c.id} : Attempts(n)' = Attempts(n) /\ ~AboutToSend(n)'
        /\ Attempts(c.id)' = Attempts(c.id) + 1
    BY <1>5, <2>0, <2>a, RelaySaveEffect DEF Attempts, AboutToSend
  <2>4. AttemptsCoverSent'
    <3>1. \A n \in Messages : Attempts(n) \in Nat
      BY DEF Attempts
    <3> QED BY <1>5, <2>3, <3>1, RelaySaveEffect DEF AttemptsCoverSent
  <2> QED BY <2>1, <2>2, <2>4 DEF AttemptInv
<1>6. ASSUME NEW r \in Relays, NEW c \in relayBatch[r], RelayDispatch(r, c) PROVE AttemptInv'
  <2>1. InHandIsCurrent'
    BY <1>6, RelayDispatchEffect DEF InHandIsCurrent, InHand, OneRelay
  <2>2. ZombieIsCurrent'
    BY <1>6, RelayDispatchEffect DEF ZombieIsCurrent
  <2>3. AboutToSend(c.id) /\ \A n \in Messages : Attempts(n)' = Attempts(n) /\ ~AboutToSend(n)'
    BY <1>6, RelayDispatchEffect DEF Attempts, AboutToSend, InHand, OneRelay
  <2>4. AttemptsCoverSent'
    <3>1. \A n \in Messages : Attempts(n) \in Nat
      BY DEF Attempts
    <3> QED BY <1>6, <2>3, <3>1, RelayDispatchEffect DEF AttemptsCoverSent
  <2> QED BY <2>1, <2>2, <2>4 DEF AttemptInv
<1>7. ASSUME NEW r \in Relays, NEW c \in relayBatch[r],
             RelayPublish(r, c) \/ RelayException(r, c)
      PROVE  AttemptInv'
  <2>0. outbox[c.id].status = "processing" => outbox[c.id].retry = c.retry
    BY <1>7, RelayDropEffect DEF InHandIsCurrent, InHand
  <2>a. \A s \in Relays : relayPc'[s] = "save"
    BY <1>7, RelayDropEffect DEF OneRelay
  <2>b. \A n \in Messages : outbox'[n].retry = outbox[n].retry
    BY <1>7, <2>0, RelayDropEffect
  <2>1. InHandIsCurrent'
    BY <2>a DEF InHandIsCurrent, InHand
  <2>2. ZombieIsCurrent'
    BY <1>7, <2>b, RelayDropEffect DEF ZombieIsCurrent
  <2>3. \A n \in Messages : Attempts(n)' = Attempts(n) /\ ~AboutToSend(n)'
    BY <1>7, <2>a, <2>b, RelayDropEffect DEF Attempts, AboutToSend
  <2>4. AttemptsCoverSent'
    BY <1>7, <2>3, RelayDropEffect DEF AttemptsCoverSent
  <2> QED BY <2>1, <2>2, <2>4 DEF AttemptInv
<1>8. ASSUME NEW z \in Recoverers, RecoverFetch(z) PROVE AttemptInv'
  <2>1. InHandIsCurrent'
    BY <1>8, RecoverFetchEffect DEF InHandIsCurrent, InHand
  <2>2. ZombieIsCurrent'
    BY <1>8, RecoverFetchEffect DEF ZombieIsCurrent
  <2>3. \A n \in Messages : Attempts(n)' = Attempts(n) /\ AboutToSend(n)' = AboutToSend(n)
    BY <1>8, RecoverFetchEffect DEF Attempts, AboutToSend, InHand
  <2>4. AttemptsCoverSent'
    BY <1>8, <2>3, RecoverFetchEffect DEF AttemptsCoverSent
  <2> QED BY <2>1, <2>2, <2>4 DEF AttemptInv
<1>9. ASSUME NEW z \in Recoverers, RecoverAbort(z) PROVE AttemptInv'
  <2>1. InHandIsCurrent'
    BY <1>9, RecoverAbortEffect DEF InHandIsCurrent, InHand
  <2>2. ZombieIsCurrent'
    BY <1>9, RecoverAbortEffect DEF ZombieIsCurrent
  <2>3. \A n \in Messages : Attempts(n)' = Attempts(n) /\ AboutToSend(n)' = AboutToSend(n)
    BY <1>9, RecoverAbortEffect DEF Attempts, AboutToSend, InHand
  <2>4. AttemptsCoverSent'
    BY <1>9, <2>3, RecoverAbortEffect DEF AttemptsCoverSent
  <2> QED BY <2>1, <2>2, <2>4 DEF AttemptInv
<1>10. ASSUME NEW z \in Recoverers, NEW c \in zombieBatch[z],
              RecoverSave(z, c) \/ RecoverException(z, c)
       PROVE  AttemptInv'
  <2>0. \A n \in Messages :
          \/ outbox'[n] = outbox[n]
          \/ /\ n = c.id /\ outbox[n].status = "processing"
             /\ outbox'[n].status \in {"pending", "failed"}
             /\ outbox'[n].retry = outbox[n].retry + 1
    BY <1>10, RecoverDropEffect DEF ZombieIsCurrent
  <2>a. UNCHANGED <<sent, relayPc, relayBatch>>
    BY <1>10, RecoverDropEffect
  <2>1. InHandIsCurrent'
    BY <2>0, <2>a DEF InHandIsCurrent, InHand
  <2>2. ZombieIsCurrent'
    <3>1. \A y \in Recoverers : \A d \in zombieBatch'[y] : d \in zombieBatch[y] /\ d.id # c.id
      <4>1. \A y \in Recoverers : \A d \in zombieBatch'[y] : y = z /\ d \in zombieBatch[z] /\ d # c
        BY <1>10, RecoverDropEffect DEF OneRecoverer
      <4> QED BY <4>1 DEF DistinctCopies, OneCopyEach
    <3> QED BY <2>0, <3>1 DEF ZombieIsCurrent
  <2>3. \A n \in Messages : Attempts(n)' = Attempts(n) /\ AboutToSend(n)' = AboutToSend(n)
    BY <2>0, <2>a DEF Attempts, AboutToSend, InHand
  <2>4. AttemptsCoverSent'
    BY <2>3, <2>a DEF AttemptsCoverSent
  <2> QED BY <2>1, <2>2, <2>4 DEF AttemptInv
<1>11. ASSUME UNCHANGED vars PROVE AttemptInv'
  BY <1>11 DEF vars, AttemptInv, InHandIsCurrent, ZombieIsCurrent, AttemptsCoverSent,
               InHand, Attempts, AboutToSend
<1> QED
  BY <1>1, <1>2, <1>3, <1>4, <1>5, <1>6, <1>7, <1>8, <1>9, <1>10, <1>11
  DEF Next, RelayStep, RecoverStep

\* What the three invariants give together, from the initial state on.
LEMMA SingleInv ==
  ASSUME OneRelay, OneRecoverer
  PROVE  Spec => [](IInv /\ WaitingInv /\ AttemptInv)
<1> DEFINE Inv == IInv /\ WaitingInv /\ AttemptInv
<1>1. Init => Inv
  BY IInvInit, WaitingInit, AttemptInit
<1>2. Inv /\ [Next]_vars => Inv'
  BY IInvNext, WaitingNext, AttemptNext
<1> QED BY <1>1, <1>2, PTL DEF Spec

\* The bound on sent follows from AttemptInv and the range of the retry counts.
LEMMA AttemptsBounded ==
  ASSUME TypeOK, NEW m \in Messages
  PROVE  Attempts(m) \in Nat /\ Attempts(m) <= MaxRetries
<1>1. /\ outbox[m].retry \in 0 .. MaxRetries /\ MaxRetries \in Nat
      /\ outbox[m].status # "failed" => outbox[m].retry # MaxRetries
  BY OutboxAssumption DEF TypeOK
<1> QED BY <1>1 DEF Attempts

\* With one relay and one recoverer no event is handed to the broker more often
\* than max_retries, dispatches that come after the recovery included.
THEOREM SendsAreBounded ==
  ASSUME OneRelay, OneRecoverer
  PROVE  Spec => []SendBudget
<1>1. IInv /\ AttemptInv => SendBudget
  <2> SUFFICES ASSUME IInv, AttemptInv, NEW m \in Messages PROVE sent[m] <= MaxRetries
    BY DEF SendBudget
  <2>1. sent[m] \in Nat /\ sent[m] <= Attempts(m)
    BY DEF IInv, AttemptInv, AttemptsCoverSent, TypeOK
  <2> QED BY <2>1, AttemptsBounded, OutboxAssumption DEF IInv
<1> QED BY <1>1, SingleInv, PTL

-----------------------------------------------------------------------------
\* EventOf, status by status.
LEMMA EventTable ==
  /\ EventOf("absent") = "none" /\ EventOf("pending") = "accepted"
  /\ EventOf("processing") = "accepted" /\ EventOf("published") = "done"
  /\ EventOf("failed") = "dead"
BY DEF EventOf

\* Every step of the outbox is a step of EventDelivery or leaves it unchanged.
LEMMA StepImplements ==
  ASSUME OneRelay, IInv, WaitingInv, AttemptInv, Next
  PROVE  [Delivery!Next]_(Delivery!evars)
<1>0. /\ TypeOK /\ CopiesExist /\ SentInHand /\ WaitingIsPending /\ AttemptsCoverSent
      /\ \A m \in Messages : sent[m] \in Nat
  BY DEF IInv, SentInv, WaitingInv, AttemptInv, TypeOK
<1>a. \A n \in Messages : /\ EventState[n] = EventOf(outbox[n].status)
                          /\ EventState'[n] = EventOf(outbox'[n].status)
  BY DEF EventState
<1>b. (\A n \in Messages : EventState'[n] = EventState[n]) => EventState' = EventState
  BY DEF EventState
<1>c. \A m \in Messages : \A v :
        EventState'[m] = v /\ (\A n \in Messages \ {m} : EventState'[n] = EventState[n])
          => EventState' = [EventState EXCEPT ![m] = v]
  BY DEF EventState
<1>d. UNCHANGED <<outbox, sent>> => UNCHANGED Delivery!evars
  BY DEF EventState, Delivery!evars
<1> USE <1>0, <1>a, HeldCopies, EventTable
<1>1. ASSUME NEW m \in Messages, Enqueue(m) PROVE Delivery!Accept(m)
  <2>1. EventState[m] = "none" /\ EventState'[m] = "accepted"
    BY <1>1, EnqueueEffect
  <2>2. \A n \in Messages \ {m} : EventState'[n] = EventState[n]
    BY <1>1, EnqueueEffect
  <2>3. sent' = sent
    BY <1>1, EnqueueEffect
  <2> QED BY <1>c, <2>1, <2>2, <2>3 DEF Delivery!Accept
<1>2. ASSUME NEW m \in Messages, Expire(m) PROVE UNCHANGED Delivery!evars
  BY <1>2, <1>b, ExpireEffect DEF Delivery!evars
<1>3. ASSUME NEW r \in Relays, RelayFetch(r) \/ RelayAbort(r) PROVE UNCHANGED Delivery!evars
  BY <1>3, <1>d, RelayFetchEffect, RelayAbortEffect
<1>4. ASSUME NEW r \in Relays, NEW c \in relayBatch[r], RelaySave(r, c)
      PROVE  UNCHANGED Delivery!evars
  <2>1. outbox[c.id].status = "pending"
    BY <1>4, RelaySaveEffect DEF WaitingIsPending, Waiting
  <2>2. \A n \in Messages : EventState'[n] = EventState[n]
    BY <1>4, <2>1, RelaySaveEffect
  <2>3. sent' = sent
    BY <1>4, RelaySaveEffect
  <2> QED BY <1>b, <2>2, <2>3 DEF Delivery!evars
<1>5. ASSUME NEW r \in Relays, NEW c \in relayBatch[r], RelayDispatch(r, c)
      PROVE  Delivery!Deliver(c.id)
  <2>1. AboutToSend(c.id)
    BY <1>5, RelayDispatchEffect DEF AboutToSend, InHand
  <2>2. sent[c.id] < MaxRetries
    BY <2>1, AttemptsBounded, OutboxAssumption DEF AttemptsCoverSent
  <2>3. EventState[c.id] # "none"
    BY DEF CopiesExist, TypeOK, OutboxStatus
  <2>4. EventState' = EventState
    BY <1>5 DEF RelayDispatch, EventState
  <2> QED BY <1>5, <2>2, <2>3, <2>4 DEF RelayDispatch, Delivery!Deliver
<1>6. ASSUME NEW r \in Relays, NEW c \in relayBatch[r],
             RelayPublish(r, c) \/ RelayException(r, c)
      PROVE  Delivery!Settle(c.id) \/ UNCHANGED Delivery!evars
  <2>0. sent' = sent
    BY <1>6, RelayDropEffect
  <2>1. CASE outbox' = outbox
    BY <2>0, <2>1, <1>d
  <2>2. CASE outbox' # outbox
    <3>1. /\ relayPc[r] = "publish" /\ IsNext(relayBatch[r], c)
          /\ outbox[c.id].status = "processing"
          /\ outbox' = [outbox EXCEPT ![c.id] = Doc("published", c.retry)]
      BY <1>6, <2>2 DEF RelayPublish, RelayException, SaveIfProcessing
    <3>2. sent[c.id] >= 1
      BY <3>1 DEF SentInHand, InHand
    <3>3. EventState[c.id] = "accepted" /\ EventState'[c.id] = "done"
      BY <3>1 DEF TypeOK, Doc
    <3>4. \A n \in Messages \ {c.id} : EventState'[n] = EventState[n]
      BY <3>1 DEF TypeOK
    <3> QED BY <1>c, <2>0, <3>2, <3>3, <3>4 DEF Delivery!Settle
  <2> QED BY <2>1, <2>2
<1>7. ASSUME NEW z \in Recoverers, RecoverFetch(z) \/ RecoverAbort(z)
      PROVE  UNCHANGED Delivery!evars
  BY <1>7, <1>d, RecoverFetchEffect, RecoverAbortEffect
<1>8. ASSUME NEW z \in Recoverers, NEW c \in zombieBatch[z],
             RecoverSave(z, c) \/ RecoverException(z, c)
      PROVE  Delivery!GiveUp(c.id) \/ UNCHANGED Delivery!evars
  <2>0. sent' = sent
    BY <1>8, RecoverDropEffect
  <2>1. \A n \in Messages \ {c.id} : EventState'[n] = EventState[n]
    BY <1>8, RecoverDropEffect
  <2>2. CASE EventState'[c.id] = EventState[c.id]
    BY <1>b, <2>0, <2>1, <2>2 DEF Delivery!evars
  <2>3. CASE EventState'[c.id] # EventState[c.id]
    <3>1. EventState[c.id] = "accepted" /\ EventState'[c.id] = "dead"
      BY <1>8, <2>3, RecoverDropEffect
    <3> QED BY <1>c, <2>0, <2>1, <3>1 DEF Delivery!GiveUp
  <2> QED BY <2>2, <2>3
<1>9. \/ \E m \in Messages : \/ Delivery!Accept(m) \/ Delivery!Deliver(m)
                             \/ Delivery!Settle(m) \/ Delivery!GiveUp(m)
      \/ UNCHANGED Delivery!evars
  BY <1>1, <1>2, <1>3, <1>4, <1>5, <1>6, <1>7, <1>8 DEF Next, RelayStep, RecoverStep
<1> QED BY <1>9 DEF Delivery!Next

\* The outbox keeps the promise of EventDelivery, for any number of messages and
\* whatever fails, as long as neither of its two tasks overlaps with itself.
THEOREM OutboxImplementsDelivery ==
  ASSUME OneRelay, OneRecoverer
  PROVE  Spec => ImplementsDelivery
<1>1. Init => Delivery!Init
  <2> SUFFICES ASSUME Init PROVE Delivery!Init
    OBVIOUS
  <2>1. EventState = [m \in Messages |-> "none"]
    BY EventTable DEF Init, Doc, EventState
  <2> QED BY <2>1 DEF Init, Delivery!Init
<1>2. IInv /\ WaitingInv /\ AttemptInv /\ [Next]_vars => [Delivery!Next]_(Delivery!evars)
  <2>1. ASSUME UNCHANGED vars PROVE UNCHANGED Delivery!evars
    BY <2>1 DEF vars, EventState, Delivery!evars
  <2> QED BY <2>1, StepImplements
<1> QED BY <1>1, <1>2, SingleInv, PTL DEF Spec, ImplementsDelivery, Delivery!Spec
=============================================================================
