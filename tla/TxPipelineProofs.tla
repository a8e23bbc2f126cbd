------------------------- MODULE TxPipelineProofs -------------------------
(* Theorems about NonceTracker and about TxPipeline, for every value of their  *)
(* constants: the tracker's calls are atomic, as the pipeline takes them; types *)
(* and the broadcast semaphore; no trade is executed twice, only mined         *)
(* transactions are credited, no payload object is lost, and no nonce of an    *)
(* acknowledged transaction is handed back.                                    *)
EXTENDS TxPipeline, NonceTracker, FiniteSetTheorems, SequenceTheorems, TLAPS

----------------------------------------------------------------------------
(* The lock-free tracker implements the atomic counter, for any goroutines  *)
(* and any bound on the values.                                             *)

\* A goroutine that has loaded the word for a rollback did not find it zero.
LoadedInv == \A g \in Goroutines : pc[g] = "cas" => current[g] # 0

TrackerInv == TrackerTypeOK /\ LoadedInv

LEMMA TrackerInitially == TrackerInit => TrackerInv /\ Abstract!Init
  BY MaxNonceAssumption
  DEF TrackerInit, TrackerInv, TrackerTypeOK, LoadedInv, Results, Abstract!Init

LEMMA StepTyped ==
  ASSUME TrackerTypeOK, LoadedInv, NEW g \in Goroutines, Step(g)
  PROVE  TrackerTypeOK'
<1>1. CASE NextNonce(g)
  BY <1>1, MaxNonceAssumption DEF TrackerTypeOK, NextNonce, Return, Results
<1>2. CASE RollbackLoad(g)
  BY <1>2, MaxNonceAssumption DEF TrackerTypeOK, RollbackLoad, Return, Goto, Results
<1>3. CASE RollbackSwap(g)
  <2>1. current[g] - 1 \in 0..MaxNonce /\ current[g] - 1 \in Nat
    BY <1>3, MaxNonceAssumption DEF TrackerTypeOK, LoadedInv, RollbackSwap
  <2>2. QED
    BY <1>3, <2>1, MaxNonceAssumption DEF TrackerTypeOK, RollbackSwap, Return, Goto, Results
<1>4. CASE RollbackRetry(g)
  BY <1>4, MaxNonceAssumption DEF TrackerTypeOK, RollbackRetry, Return, Goto, Results
<1>5. CASE SyncFromNodeRead(g)
  BY <1>5, MaxNonceAssumption DEF TrackerTypeOK, SyncFromNodeRead, Goto
<1>6. CASE SyncFromNodeStore(g)
  BY <1>6, MaxNonceAssumption DEF TrackerTypeOK, SyncFromNodeStore, Return, Goto, Results
<1>7. QED
  BY <1>1, <1>2, <1>3, <1>4, <1>5, <1>6 DEF Step

LEMMA StepKeepsLoaded ==
  ASSUME TrackerTypeOK, LoadedInv, NEW g \in Goroutines, Step(g)
  PROVE  LoadedInv'
<1>1. CASE NextNonce(g)
  BY <1>1 DEF LoadedInv, NextNonce
<1>2. CASE RollbackLoad(g)
  BY <1>2 DEF TrackerTypeOK, LoadedInv, RollbackLoad, Goto
<1>3. CASE RollbackSwap(g)
  BY <1>3 DEF TrackerTypeOK, LoadedInv, RollbackSwap, Goto
<1>4. CASE RollbackRetry(g)
  BY <1>4 DEF TrackerTypeOK, LoadedInv, RollbackRetry, Goto
<1>5. CASE SyncFromNodeRead(g)
  BY <1>5 DEF TrackerTypeOK, LoadedInv, SyncFromNodeRead, Goto
<1>6. CASE SyncFromNodeStore(g)
  BY <1>6 DEF TrackerTypeOK, LoadedInv, SyncFromNodeStore, Goto
<1>7. QED
  BY <1>1, <1>2, <1>3, <1>4, <1>5, <1>6 DEF Step

\* Each instruction is a whole operation of the counter, or leaves it alone.
LEMMA StepImplements ==
  ASSUME TrackerTypeOK, LoadedInv, NEW g \in Goroutines, Step(g)
  PROVE  \/ Abstract!NextNonce(g) \/ Abstract!Rollback(g) \/ Abstract!Sync(g)
         \/ UNCHANGED <<nonce, ret>>
<1>1. CASE NextNonce(g)
  BY <1>1 DEF NextNonce, Return, Abstract!NextNonce, Abstract!Return
<1>2. CASE RollbackLoad(g)
  BY <1>2 DEF RollbackLoad, Return, Abstract!Rollback, Abstract!Return
<1>3. CASE RollbackSwap(g)
  <2>1. nonce # 0 /\ nonce' = nonce - 1
    BY <1>3 DEF RollbackSwap, LoadedInv
  <2>2. Return(g, "rollback", nonce')
    BY <1>3 DEF RollbackSwap
  <2>3. QED
    BY <2>1, <2>2 DEF Return, Abstract!Rollback, Abstract!Return
<1>4. CASE RollbackRetry(g)
  BY <1>4 DEF RollbackRetry, Return, Abstract!Rollback, Abstract!Return
<1>5. CASE SyncFromNodeRead(g)
  BY <1>5 DEF SyncFromNodeRead
<1>6. CASE SyncFromNodeStore(g)
  BY <1>6 DEF TrackerTypeOK, SyncFromNodeStore, Return, Abstract!Sync, Abstract!Return
<1>7. QED
  BY <1>1, <1>2, <1>3, <1>4, <1>5, <1>6 DEF Step

LEMMA TrackerKept ==
  TrackerInv /\ [TrackerNext]_trackerVars => TrackerInv' /\ [Abstract!Next]_<<nonce, ret>>
<1> SUFFICES ASSUME TrackerTypeOK, LoadedInv, [TrackerNext]_trackerVars
             PROVE  TrackerTypeOK' /\ LoadedInv' /\ [Abstract!Next]_<<nonce, ret>>
  BY DEF TrackerInv
<1>1. ASSUME NEW g \in Goroutines, Step(g)
      PROVE  TrackerTypeOK' /\ LoadedInv' /\ [Abstract!Next]_<<nonce, ret>>
  BY <1>1, StepTyped, StepKeepsLoaded, StepImplements DEF Abstract!Next
<1>2. CASE UNCHANGED trackerVars
  BY <1>2 DEF trackerVars, TrackerTypeOK, LoadedInv
<1>3. QED
  BY <1>1, <1>2 DEF TrackerNext

\* The word and the locals of the calls keep their types; the word stays within the
\* values that were handed out or reported, so a rollback never takes it below zero.
THEOREM NonceTyped == TrackerSpec => []TrackerTypeOK
<1>1. TrackerSpec => []TrackerInv
  BY TrackerInitially, TrackerKept, PTL DEF TrackerSpec
<1>2. TrackerInv => TrackerTypeOK
  BY DEF TrackerInv
<1>3. QED
  BY <1>1, <1>2, PTL

\* However the instructions of NextNonce, Rollback and SyncFromNode interleave, each
\* call takes effect at once and as a whole (nonce_tracker.go:25-66).
THEOREM ImplementsCounter == TrackerSpec => AtomicCounter
<1>1. TrackerSpec => Abstract!Init /\ [][Abstract!Next]_<<nonce, ret>>
  BY TrackerInitially, TrackerKept, PTL DEF TrackerSpec
<1>2. QED
  BY <1>1 DEF AtomicCounter, Abstract!Spec

----------------------------------------------------------------------------
(* The types, in groups of variables that change together.                  *)

PayloadTypes ==
    /\ pool \in [Payloads -> Nat]
    /\ fresh \subseteq Payloads
    /\ obj \in [Payloads -> Txs]
    /\ trades \in 0..MaxTrades

\* worker3 has a payload in its hand exactly when it should.
WorkerTypes ==
    /\ chan \in Seq(Payloads)
    /\ running \in BOOLEAN
    /\ w3 \in [pc : {"select", "acquire", "launch", "done"}, p : Payloads \cup {Nobody}]
    /\ w3.pc \in {"acquire", "launch"} => w3.p \in Payloads

\* A goroutine that exists was given a payload.
ThreadTypes ==
    /\ th \in [Threads -> ThreadRecords]
    /\ \A t \in Threads : th[t].pc # "idle" => th[t].p \in Payloads

NonceTypes ==
    /\ counter \in Nat
    /\ synced \in Nat \cup {Waiting, Asking, Returned}

PendingTypes ==
    /\ pending \subseteq Entries
    /\ mon \in [todo : SUBSET Entries, hit : Entries \cup {NoEntry}]

ChainTypes ==
    /\ acct \in Nat
    /\ mempool \subseteq Txs
    /\ mined \subseteq Txs
    /\ accepted \subseteq Txs

CreditTypes == credits \subseteq Txs \X (Threads \cup {Nobody})

MainTypes == main \in {"running", "draining", "drained"}

DataTypes ==
    /\ PayloadTypes /\ WorkerTypes /\ ThreadTypes /\ NonceTypes
    /\ PendingTypes /\ ChainTypes /\ CreditTypes /\ MainTypes

\* The sets of values depend on the constants alone.
LEMMA Rigid ==
    /\ Txs' = Txs /\ Entries' = Entries /\ ThreadRecords' = ThreadRecords
    /\ NoEntry' = NoEntry /\ NoEntry.nonce = 0
BY DEF Txs, Entries, ThreadRecords, NoEntry, Blank

\* A step of one thread that writes a well-typed record.
LEMMA ThreadPut ==
    ASSUME ThreadTypes, NEW t \in Threads, NEW r \in ThreadRecords,
           r.p \in Payloads, th' = [th EXCEPT ![t] = r]
    PROVE  ThreadTypes'
BY Rigid DEF ThreadTypes

\* Constants of the module have their types.
LEMMA BlankIsTyped == Blank \in Txs /\ Blank.trade = 0 /\ Blank.nonce = 0
BY PipelineAssumption DEF Blank, Txs

\* A group of variables that do not change keeps its types.
LEMMA Stable ==
    /\ PayloadTypes /\ UNCHANGED <<pool, fresh, obj, trades>> => PayloadTypes'
    /\ WorkerTypes /\ UNCHANGED worker => WorkerTypes'
    /\ ThreadTypes /\ UNCHANGED th => ThreadTypes'
    /\ NonceTypes /\ UNCHANGED <<counter, synced>> => NonceTypes'
    /\ PendingTypes /\ UNCHANGED <<pending, mon>> => PendingTypes'
    /\ ChainTypes /\ UNCHANGED chain => ChainTypes'
    /\ CreditTypes /\ UNCHANGED credits => CreditTypes'
    /\ MainTypes /\ UNCHANGED main => MainTypes'
<1>1. PayloadTypes /\ UNCHANGED <<pool, fresh, obj, trades>> => PayloadTypes'
  BY Rigid DEF PayloadTypes
<1>2. WorkerTypes /\ UNCHANGED worker => WorkerTypes'
  BY DEF WorkerTypes, worker
<1>3. ThreadTypes /\ UNCHANGED th => ThreadTypes'
  BY Rigid DEF ThreadTypes
<1>4. NonceTypes /\ UNCHANGED <<counter, synced>> => NonceTypes'
  BY DEF NonceTypes
<1>5. PendingTypes /\ UNCHANGED <<pending, mon>> => PendingTypes'
  BY Rigid DEF PendingTypes
<1>6. ChainTypes /\ UNCHANGED chain => ChainTypes'
  BY Rigid DEF ChainTypes, chain
<1>7. CreditTypes /\ UNCHANGED credits => CreditTypes'
  BY Rigid DEF CreditTypes
<1>8. MainTypes /\ UNCHANGED main => MainTypes'
  BY DEF MainTypes
<1>9. QED
  BY <1>1, <1>2, <1>3, <1>4, <1>5, <1>6, <1>7, <1>8

\* putPayload keeps the payloads' types.
LEMMA PutTyped ==
    ASSUME PayloadTypes, NEW p \in Payloads, PutPayload(p), UNCHANGED <<fresh, trades>>
    PROVE  PayloadTypes'
BY Rigid, BlankIsTyped DEF PayloadTypes, PutPayload

----------------------------------------------------------------------------
\* Every step of a broadcast goroutine keeps the types.
LEMMA BroadcastTyped ==
    ASSUME DataTypes, NEW t \in Threads, Broadcast(t)
    PROVE  DataTypes'
<1> USE DataTypes DEF DataTypes
<1>0. th[t].tx \in Txs /\ th[t].nonce \in Nat /\ th[t].attempt \in Nat
  BY DEF ThreadTypes, ThreadRecords
<1>1. CASE FirstSignOk(t)
  <2>1. ThreadTypes'
    BY <1>1, Rigid DEF FirstSignOk, ThreadTypes, ThreadRecords
  <2>2. QED
    BY <1>1, <2>1, Stable DEF FirstSignOk, Local, worker, chain
<1>2. CASE FirstSignFail(t)
  <2>1. th[t].p \in Payloads
    BY <1>2 DEF FirstSignFail, ThreadTypes
  <2>2. ThreadTypes'
    BY <1>2, Rigid DEF FirstSignFail, ThreadTypes, ThreadRecords
  <2>3. PayloadTypes'
    BY <1>2, <2>1, PutTyped DEF FirstSignFail, Local
  <2>4. NonceTypes'
    BY <1>2 DEF FirstSignFail, Local, NonceTypes, Back
  <2>5. QED
    BY <1>2, <2>1, <2>2, <2>3, <2>4, Stable DEF FirstSignFail, Local, worker, chain
<1>3. CASE Sign(t)
  <2>1. obj[th[t].p] \in Txs
    BY <1>3 DEF Sign, ThreadTypes, PayloadTypes
  <2>2. EntryNonce(t) \in Nat
    BY <1>0, <2>1 DEF EntryNonce, Txs
  <2>3. ThreadTypes'
    BY <1>3, <2>1, <2>2, Rigid DEF Sign, ThreadTypes, ThreadRecords
  <2>4. QED
    BY <1>3, <2>3, Stable DEF Sign, Local, worker, chain
<1>4. CASE SignFail(t)
  <2>1. obj[th[t].p] \in Txs
    BY <1>4 DEF SignFail, ThreadTypes, PayloadTypes
  <2>2. EntryNonce(t) \in Nat
    BY <1>0, <2>1 DEF EntryNonce, Txs
  <2>3. ThreadTypes'
    <3>1. th[t].attempt + 1 \in Nat /\ th[t] \in ThreadRecords /\ th[t].p \in Payloads
      BY <1>0, <1>4 DEF SignFail, ThreadTypes
    <3> DEFINE r == [th[t] EXCEPT !.attempt = th[t].attempt + 1, !.nonce = EntryNonce(t)]
    <3>2. r \in ThreadRecords /\ r.p = th[t].p
      BY <2>2, <3>1 DEF ThreadRecords
    <3>3. th' = [th EXCEPT ![t] = r]
      BY <1>4 DEF SignFail
    <3> HIDE DEF r
    <3>4. QED
      BY <3>1, <3>2, <3>3, Rigid DEF ThreadTypes
  <2>4. QED
    BY <1>4, <2>3, Stable DEF SignFail, Local, worker, chain
<1>5. CASE OutOfAttempts(t)
  <2>1. obj[th[t].p] \in Txs
    BY <1>5 DEF OutOfAttempts, ThreadTypes, PayloadTypes
  <2>2. EntryNonce(t) \in Nat
    BY <1>0, <2>1 DEF EntryNonce, Txs
  <2>3. ThreadTypes'
    BY <1>5, <2>1, <2>2, Rigid DEF OutOfAttempts, ThreadTypes, ThreadRecords
  <2>4. QED
    BY <1>5, <2>3, Stable DEF OutOfAttempts, Local, worker, chain
<1>6. CASE SendOk(t)
  <2>1. ThreadTypes'
    <3> DEFINE r == [th[t] EXCEPT !.pc = "register", !.acked = TRUE]
    <3>1. th[t] \in ThreadRecords /\ th[t].p \in Payloads
      BY <1>6 DEF SendOk, ThreadTypes
    <3>2. r \in ThreadRecords /\ r.p = th[t].p
      BY <3>1 DEF ThreadRecords
    <3>3. th' = [th EXCEPT ![t] = r]
      BY <1>6 DEF SendOk
    <3> HIDE DEF r
    <3>4. QED
      BY <3>1, <3>2, <3>3, ThreadPut
  <2>2. ChainTypes'
    BY <1>6, <1>0, Rigid DEF SendOk, NodeTakes, ChainTypes, chain
  <2>3. QED
    BY <1>6, <2>1, <2>2, Stable DEF SendOk, Local, worker, chain
<1>7. CASE SendKnown(t)
  <2>1. ThreadTypes'
    BY <1>7, Rigid DEF SendKnown, ThreadTypes, ThreadRecords
  <2>2. QED
    BY <1>7, <2>1, Stable DEF SendKnown, Local, worker, chain
<1>8. CASE SendTooLow(t)
  <2>1. ThreadTypes'
    BY <1>8, Rigid DEF SendTooLow, ThreadTypes, ThreadRecords
  <2>2. QED
    BY <1>8, <2>1, Stable DEF SendTooLow, Local, worker, chain
<1>9. CASE SendError(t)
  <2>1. ThreadTypes'
    BY <1>9, Rigid DEF SendError, ThreadTypes, ThreadRecords
  <2>2. ChainTypes'
    BY <1>9, <1>0, Rigid DEF SendError, NodeTakes, ChainTypes, chain
  <2>3. QED
    BY <1>9, <2>1, <2>2, Stable DEF SendError, Local, worker, chain
<1>10. CASE Register(t)
  <2>1. th[t].p \in Payloads
    BY <1>10 DEF Register, ThreadTypes
  <2>2. ThreadTypes'
    <3> DEFINE r == [th[t] EXCEPT !.pc = "wait", !.sent = TRUE]
    <3>1. th[t] \in ThreadRecords /\ th[t].p \in Payloads
      BY <1>10 DEF Register, ThreadTypes
    <3>2. r \in ThreadRecords /\ r.p = th[t].p
      BY <3>1 DEF ThreadRecords
    <3>3. th' = [th EXCEPT ![t] = r]
      BY <1>10 DEF Register
    <3> HIDE DEF r
    <3>4. QED
      BY <3>1, <3>2, <3>3, ThreadPut
  <2>3. EntryOf(t) \in Entries
    BY <1>0, <2>1 DEF EntryOf, Entries, Txs
  <2>4. PendingTypes'
    BY <1>10, <2>3, Rigid DEF Register, Local, PendingTypes, Without
  <2>5. QED
    BY <1>10, <2>1, <2>2, <2>3, <2>4, Stable DEF Register, Local, worker, chain
<1>11. CASE RegisterKnown(t)
  <2>1. th[t].p \in Payloads
    BY <1>11 DEF RegisterKnown, ThreadTypes
  <2>2. ThreadTypes'
    <3> DEFINE r == [th[t] EXCEPT !.pc = "wait", !.sent = TRUE]
    <3>1. th[t] \in ThreadRecords /\ th[t].p \in Payloads
      BY <1>11 DEF RegisterKnown, ThreadTypes
    <3>2. r \in ThreadRecords /\ r.p = th[t].p
      BY <3>1 DEF ThreadRecords
    <3>3. th' = [th EXCEPT ![t] = r]
      BY <1>11 DEF RegisterKnown
    <3> HIDE DEF r
    <3>4. QED
      BY <3>1, <3>2, <3>3, ThreadPut
  <2>3. EntryOf(t) \in Entries
    BY <1>0, <2>1 DEF EntryOf, Entries, Txs
  <2>4. PendingTypes'
    BY <1>11, <2>3, Rigid DEF RegisterKnown, Local, PendingTypes, Without
  <2>5. QED
    BY <1>11, <2>1, <2>2, <2>3, <2>4, Stable DEF RegisterKnown, Local, worker, chain
<1>12. CASE Confirm(t)
  <2>1. th[t].p \in Payloads
    BY <1>12 DEF Confirm, ThreadTypes
  <2>2. ThreadTypes'
    BY <1>12, Rigid DEF Confirm, ThreadTypes, ThreadRecords
  <2>3. PayloadTypes'
    BY <1>12, <2>1, PutTyped DEF Confirm, Local
  <2>4. PendingTypes'
    BY <1>12, Rigid DEF Confirm, Local, PendingTypes, Without
  <2>5. CreditTypes'
    BY <1>12, <1>0, Rigid DEF Confirm, CreditTypes
  <2>6. QED
    BY <1>12, <2>1, <2>2, <2>3, <2>4, <2>5, Stable DEF Confirm, Local, worker, chain
<1>13. CASE Timeout(t)
  <2>1. ThreadTypes'
    BY <1>13, Rigid DEF Timeout, ThreadTypes, ThreadRecords
  <2>2. QED
    BY <1>13, <2>1, Stable DEF Timeout, Local, worker, chain
<1>14. CASE Replace(t)
  <2>1. th[t].p \in Payloads
    BY <1>14 DEF Replace, ThreadTypes
  <2>2. ThreadTypes'
    BY <1>14, Rigid DEF Replace, ThreadTypes, ThreadRecords
  <2>3. PayloadTypes'
    BY <1>14, <2>1 DEF Replace, Local, PayloadTypes, Txs
  <2>4. QED
    BY <1>14, <2>1, <2>2, <2>3, Stable DEF Replace, Local, worker, chain
<1>15. CASE Cleanup(t) \/ Panic(t)
  <2>1. th[t].p \in Payloads
    BY <1>15 DEF Cleanup, Panic, ThreadTypes
  <2>2. PICK next \in {"finish", "panicked"} : DeferredCleanup(t, next)
    BY <1>15 DEF Cleanup, Panic
  <2>3. ThreadTypes'
    BY <2>1, <2>2, Rigid DEF DeferredCleanup, ThreadTypes, ThreadRecords
  <2>4. PayloadTypes'
    BY <2>1, <2>2, PutTyped DEF DeferredCleanup, Local
  <2>5. NonceTypes'
    BY <2>2 DEF DeferredCleanup, Local, NonceTypes, Back
  <2>6. PendingTypes'
    BY <2>2, Rigid DEF DeferredCleanup, Local, PendingTypes, Without
  <2>7. QED
    BY <2>2, <2>3, <2>4, <2>5, <2>6, Stable DEF DeferredCleanup, Local, worker, chain
<1>16. CASE Recover(t)
  <2>1. th[t].p \in Payloads
    BY <1>16 DEF Recover, ThreadTypes
  <2>2. ThreadTypes'
    BY <1>16, Rigid DEF Recover, ThreadTypes, ThreadRecords
  <2>3. PayloadTypes'
    BY <1>16, <2>1, PutTyped DEF Recover, Local
  <2>4. NonceTypes'
    BY <1>16 DEF Recover, Local, NonceTypes, Back
  <2>5. QED
    BY <1>16, <2>1, <2>2, <2>3, <2>4, Stable DEF Recover, Local, worker, chain
<1>17. CASE Finish(t)
  <2>1. ThreadTypes'
    BY <1>17, Rigid, BlankIsTyped DEF Finish, ThreadTypes, ThreadRecords, IdleThread
  <2>2. QED
    BY <1>17, <2>1, Stable DEF Finish, Local, worker, chain
<1>18. QED
  BY <1>1, <1>2, <1>3, <1>4, <1>5, <1>6, <1>7, <1>8, <1>9, <1>10, <1>11, <1>12, <1>13, <1>14, <1>15, <1>16, <1>17 DEF Broadcast
----------------------------------------------------------------------------
\* The producer keeps the types: the channel grows by the object filled, or the
\* object goes back.
LEMMA SubmitTyped ==
    ASSUME DataTypes, NEW p \in Payloads, Submit(p)
    PROVE  DataTypes'
<1> USE DEF DataTypes
<1>1. [trade |-> trades + 1, nonce |-> 0, ver |-> 0] \in Txs
  BY PipelineAssumption DEF Submit, PayloadTypes, Txs
<1> DEFINE left == IF p \in fresh THEN 0 ELSE pool[p] - 1
<1>2. /\ left \in Nat
      /\ \/ chan' = Append(chan, p) /\ pool' = [pool EXCEPT ![p] = left]
         \/ pool' = [pool EXCEPT ![p] = left + 1] /\ UNCHANGED chan
  BY DEF Submit, PayloadTypes
<1> HIDE DEF left
<1>3. chan' \in Seq(Payloads)
  BY <1>2 DEF WorkerTypes
<1>4. WorkerTypes'
  BY <1>3 DEF Submit, WorkerTypes
<1>5. trades' \in 0..MaxTrades /\ fresh' \subseteq Payloads
  BY PipelineAssumption DEF Submit, PayloadTypes
<1>6. pool' \in [Payloads -> Nat]
  BY <1>2 DEF PayloadTypes
<1>7. obj' \in [Payloads -> Txs]
  BY <1>1 DEF Submit, PayloadTypes
<1>8. PayloadTypes'
  BY <1>5, <1>6, <1>7, Rigid DEF PayloadTypes
<1>9. QED
  BY <1>4, <1>8, Stable DEF Submit, chain

\* worker3 keeps the types.
LEMMA WorkerTyped ==
    ASSUME DataTypes,
           \/ DiscardPaused \/ TakePayload \/ Acquire \/ StopWorker3
           \/ \E t \in Threads : Launch(t)
    PROVE  DataTypes'
<1> USE DEF DataTypes
<1>1. chan # <<>> => Head(chan) \in Payloads /\ Tail(chan) \in Seq(Payloads)
  BY DEF WorkerTypes
<1>2. CASE DiscardPaused
  <2>1. WorkerTypes'
    BY <1>1, <1>2 DEF DiscardPaused, WorkerTypes
  <2>2. PayloadTypes'
    BY <1>1, <1>2, PutTyped DEF DiscardPaused
  <2>3. QED
    BY <1>2, <2>1, <2>2, Stable DEF DiscardPaused, chain
<1>3. CASE TakePayload
  <2>1. WorkerTypes'
    BY <1>1, <1>3 DEF TakePayload, WorkerTypes
  <2>2. obj' \in [Payloads -> Txs]
    BY <1>1, <1>3 DEF TakePayload, PayloadTypes, NonceTypes, Txs
  <2>3. PayloadTypes'
    BY <1>3, <2>2, Rigid DEF TakePayload, PayloadTypes
  <2>4. NonceTypes'
    BY <1>3 DEF TakePayload, NonceTypes
  <2>5. QED
    BY <1>3, <2>1, <2>3, <2>4, Stable DEF TakePayload, chain
<1>4. CASE Acquire
  <2>1. WorkerTypes'
    BY <1>4 DEF Acquire, WorkerTypes
  <2>2. QED
    BY <1>4, <2>1, Stable DEF Acquire, chain
<1>5. CASE StopWorker3
  <2>1. WorkerTypes'
    BY <1>5 DEF StopWorker3, WorkerTypes
  <2>2. PayloadTypes'
    BY <1>5, PutTyped, Stable DEF StopWorker3, WorkerTypes
  <2>3. QED
    BY <1>5, <2>1, <2>2, Stable DEF StopWorker3, chain
<1>6. ASSUME NEW t \in Threads, Launch(t)
      PROVE  DataTypes'
  <2>1. WorkerTypes'
    BY <1>6 DEF Launch, WorkerTypes
  <2>2. [IdleThread EXCEPT !.pc = "start", !.p = w3.p] \in ThreadRecords
    BY <1>6, BlankIsTyped DEF Launch, WorkerTypes, IdleThread, ThreadRecords
  <2>3. ThreadTypes'
    BY <1>6, <2>2, Rigid DEF Launch, WorkerTypes, ThreadTypes, IdleThread
  <2>4. QED
    BY <1>6, <2>1, <2>3, Stable DEF Launch, chain
<1>7. QED
  BY <1>2, <1>3, <1>4, <1>5, <1>6

\* The monitor, the node, the ticker, the operator and main keep the types.
LEMMA OthersTyped ==
    ASSUME DataTypes, Monitor \/ Node \/ Refresh \/ Toggle \/ Cancel \/ Drained
    PROVE  DataTypes'
<1> USE DEF DataTypes
<1>1. CASE Snapshot
  <2>1. PendingTypes'
    BY <1>1, Rigid DEF Snapshot, PendingTypes
  <2>2. QED
    BY <1>1, <2>1, Stable DEF Snapshot, worker, chain
<1>2. ASSUME NEW e \in mon.todo, Lookup(e)
      PROVE  DataTypes'
  <2>1. PendingTypes'
    BY <1>2, Rigid DEF Lookup, PendingTypes
  <2>2. QED
    BY <1>2, <2>1, Stable DEF Lookup, worker, chain
<1>3. CASE MonitorConfirm
  <2>1. mon.hit \in Entries
    BY <1>3 DEF MonitorConfirm, PendingTypes
  <2>2. mon.hit.p \in Payloads /\ mon.hit.tx \in Txs
    BY <2>1 DEF Entries
  <2>3. PayloadTypes'
    BY <1>3, <2>2, PutTyped DEF MonitorConfirm
  <2>4. PendingTypes'
    BY <1>3, Rigid DEF MonitorConfirm, PendingTypes, Without
  <2>5. CreditTypes'
    BY <1>3, <2>2, Rigid DEF MonitorConfirm, CreditTypes
  <2>6. QED
    BY <1>3, <2>3, <2>4, <2>5, Stable DEF MonitorConfirm, worker, chain
<1>4. ASSUME NEW tx \in mempool, Mine(tx) \/ Drop(tx)
      PROVE  DataTypes'
  <2>1. ChainTypes'
    BY <1>4, Rigid DEF Mine, Drop, ChainTypes
  <2>2. QED
    BY <1>4, <2>1, Stable DEF Mine, Drop, worker
<1>5. CASE SyncRead
  <2>1. \A n \in {acct} \cup {tx.nonce + 1 : tx \in mempool} : n \in Nat
    BY DEF ChainTypes, Txs
  <2>2. NonceTypes'
    BY <1>5, <2>1 DEF SyncRead, NonceTypes
  <2>3. QED
    BY <1>5, <2>2, Stable DEF SyncRead, worker, chain
<1>6. CASE SyncStore \/ SyncAsk \/ SyncFails \/ StopRefresh
  <2>1. NonceTypes'
    BY <1>6 DEF SyncStore, SyncAsk, SyncFails, StopRefresh, NonceTypes
  <2>2. QED
    BY <1>6, <2>1, Stable DEF SyncStore, SyncAsk, SyncFails, StopRefresh, worker, chain
<1>7. CASE Toggle
  <2>1. WorkerTypes'
    BY <1>7 DEF Toggle, WorkerTypes
  <2>2. QED
    BY <1>7, <2>1, Stable DEF Toggle
<1>8. CASE Cancel \/ Drained
  <2>1. MainTypes'
    BY <1>8 DEF Cancel, Drained, GotoMain, MainTypes
  <2>2. QED
    BY <1>8, <2>1, Stable DEF Cancel, Drained, GotoMain
<1>9. QED
  BY <1>1, <1>2, <1>3, <1>4, <1>5, <1>6, <1>7, <1>8 DEF Monitor, Node, Refresh

\* Every variable keeps its type, whatever happens to the payloads.
LEMMA DataTyped == Spec => []DataTypes
<1>1. Init => DataTypes
  <2> SUFFICES ASSUME Init PROVE DataTypes
    OBVIOUS
  <2>1. PayloadTypes
    BY BlankIsTyped, PipelineAssumption DEF Init, PayloadTypes
  <2>2. WorkerTypes
    BY DEF Init, WorkerTypes
  <2>3. IdleThread \in ThreadRecords /\ IdleThread.pc = "idle"
    BY BlankIsTyped DEF IdleThread, ThreadRecords
  <2>4. ThreadTypes
    BY <2>3 DEF Init, ThreadTypes
  <2>5. NonceTypes /\ MainTypes /\ PendingTypes
    BY PipelineAssumption DEF Init, NonceTypes, MainTypes, PendingTypes
  <2>6. ChainTypes /\ CreditTypes
    BY PipelineAssumption DEF Init, ChainTypes, CreditTypes
  <2>7. QED
    BY <2>1, <2>2, <2>4, <2>5, <2>6 DEF DataTypes
<1>2. DataTypes /\ [Next]_vars => DataTypes'
  <2>1. DataTypes /\ UNCHANGED vars => DataTypes'
    BY Stable DEF DataTypes, vars
  <2>2. QED
    BY <2>1, BroadcastTyped, SubmitTyped, WorkerTyped, OthersTyped
       DEF Next, SenderNext, Operations
<1>3. QED
  BY <1>1, <1>2, PTL DEF Spec
----------------------------------------------------------------------------
(* The broadcast semaphore.                                                 *)

\* The tokens taken: one for each goroutine, one in worker3's hand.
SemInv ==
    /\ sem \in 0..SemCap
    /\ sem = Cardinality(Live) + (IF w3.pc = "launch" THEN 1 ELSE 0)

\* There are finitely many goroutines.
LEMMA LiveIsFinite == IsFiniteSet(Live) /\ Cardinality(Live) \in Nat
<1>1. Live \subseteq Threads
  BY DEF Live
<1>2. QED
  BY <1>1, PipelineAssumption, FS_Subset, FS_CardinalityType

\* Only Finish ends a goroutine, and no step of one starts another.
LEMMA LiveKept ==
    ASSUME ThreadTypes, NEW t \in Threads, Broadcast(t), ~ Finish(t)
    PROVE  Live' = Live /\ sem' = sem /\ w3' = w3
<1> USE DEF ThreadTypes, ThreadRecords, Local, worker
<1> SUFFICES /\ th[t].pc # "idle" /\ th'[t].pc # "idle"
             /\ \A u \in Threads \ {t} : th'[u] = th[u]
             /\ sem' = sem /\ w3' = w3
  BY DEF Live
<1>1. CASE FirstSignOk(t)
  BY <1>1 DEF FirstSignOk
<1>2. CASE FirstSignFail(t)
  BY <1>2 DEF FirstSignFail
<1>3. CASE Sign(t)
  BY <1>3 DEF Sign
<1>4. CASE SignFail(t)
  BY <1>4 DEF SignFail
<1>5. CASE OutOfAttempts(t)
  BY <1>5 DEF OutOfAttempts
<1>6. CASE SendOk(t)
  BY <1>6 DEF SendOk
<1>7. CASE SendKnown(t)
  BY <1>7 DEF SendKnown
<1>8. CASE SendTooLow(t)
  BY <1>8 DEF SendTooLow
<1>9. CASE SendError(t)
  BY <1>9 DEF SendError
<1>10. CASE Register(t)
  BY <1>10 DEF Register
<1>11. CASE RegisterKnown(t)
  BY <1>11 DEF RegisterKnown
<1>12. CASE Confirm(t)
  BY <1>12 DEF Confirm
<1>13. CASE Timeout(t)
  BY <1>13 DEF Timeout
<1>14. CASE Replace(t)
  BY <1>14 DEF Replace
<1>15. CASE Cleanup(t) \/ Panic(t)
  BY <1>15 DEF Cleanup, Panic, DeferredCleanup
<1>16. CASE Recover(t)
  BY <1>16 DEF Recover
<1>17. QED
  BY <1>1, <1>2, <1>3, <1>4, <1>5, <1>6, <1>7, <1>8, <1>9, <1>10, <1>11, <1>12, <1>13, <1>14, <1>15, <1>16 DEF Broadcast

\* Finish ends the goroutine and returns its token.
LEMMA FinishFrees ==
    ASSUME ThreadTypes, NEW t \in Threads, Finish(t)
    PROVE  t \in Live /\ Live' = Live \ {t} /\ sem' = sem - 1 /\ w3' = w3
<1>1. th' = [th EXCEPT ![t] = IdleThread] /\ th[t].pc = "finish"
  BY DEF Finish
<1>2. IdleThread.pc = "idle"
  BY DEF IdleThread
<1>3. QED
  BY <1>1, <1>2 DEF ThreadTypes, Finish, Live, Local, worker

\* Launch hands worker3's token to a goroutine that did not exist.
LEMMA LaunchHands ==
    ASSUME ThreadTypes, WorkerTypes, NEW t \in Threads, Launch(t)
    PROVE  t \notin Live /\ Live' = Live \cup {t} /\ sem' = sem
           /\ w3.pc = "launch" /\ w3'.pc = "select"
<1> DEFINE r == [IdleThread EXCEPT !.pc = "start", !.p = w3.p]
<1>1. th' = [th EXCEPT ![t] = r] /\ th[t].pc = "idle"
  BY DEF Launch
<1>2. r.pc = "start"
  BY DEF IdleThread
<1> HIDE DEF r
<1>3. QED
  BY <1>1, <1>2 DEF ThreadTypes, Launch, Live

\* Everybody else leaves the semaphore and the goroutines alone.
LEMMA SemElsewhere ==
    ASSUME WorkerTypes,
           \/ \E p \in Payloads : Submit(p)
           \/ DiscardPaused \/ TakePayload \/ StopWorker3
           \/ Monitor \/ Node \/ Refresh \/ Toggle \/ Cancel \/ Drained \/ UNCHANGED vars
    PROVE  UNCHANGED <<sem, th>> /\ (w3.pc = "launch" <=> w3'.pc = "launch")
<1>1. CASE (\E p \in Payloads : Submit(p)) \/ Monitor \/ Node
  BY <1>1 DEF Submit, Monitor, Snapshot, Lookup, MonitorConfirm, Node, Mine, Drop, worker
<1>2. CASE DiscardPaused \/ TakePayload \/ StopWorker3
  BY <1>2 DEF DiscardPaused, TakePayload, StopWorker3
<1>3. CASE Refresh \/ Toggle \/ Cancel \/ Drained \/ UNCHANGED vars
  BY <1>3 DEF Refresh, SyncAsk, SyncRead, SyncFails, SyncStore, StopRefresh, Toggle, Cancel, Drained, GotoMain, vars, worker
<1>4. QED
  BY <1>1, <1>2, <1>3

\* The tokens are those of the goroutines, in every reachable state.
LEMMA SemTyped == Spec => []SemInv
<1>1. Init => SemInv
  <2>1. Init => Live = {} /\ w3.pc = "select" /\ sem = 0
    BY DEF Init, Live, IdleThread
  <2>2. QED
    BY <2>1, FS_EmptySet, PipelineAssumption DEF SemInv
<1>2. DataTypes /\ SemInv /\ [Next]_vars => SemInv'
  <2> SUFFICES ASSUME DataTypes, SemInv, [Next]_vars
               PROVE  SemInv'
    OBVIOUS
  <2> USE DEF DataTypes
  <2>1. ASSUME NEW t \in Threads, Broadcast(t), ~ Finish(t)
        PROVE  SemInv'
    BY <2>1, LiveKept DEF SemInv
  <2>2. ASSUME NEW t \in Threads, Finish(t)
        PROVE  SemInv'
    <3>1. t \in Live /\ Live' = Live \ {t} /\ sem' = sem - 1 /\ w3' = w3
      BY <2>2, FinishFrees
    <3>2. Cardinality(Live') = Cardinality(Live) - 1
      BY <3>1, LiveIsFinite, FS_RemoveElement
    <3>3. Cardinality(Live') \in Nat
      BY <3>1, LiveIsFinite, FS_RemoveElement, FS_CardinalityType
    <3>4. QED
      BY <3>1, <3>2, <3>3, LiveIsFinite, PipelineAssumption DEF SemInv
  <2>3. ASSUME NEW t \in Threads, Launch(t)
        PROVE  SemInv'
    <3>1. t \notin Live /\ Live' = Live \cup {t} /\ sem' = sem
          /\ w3.pc = "launch" /\ w3'.pc = "select"
      BY <2>3, LaunchHands
    <3>2. Cardinality(Live') = Cardinality(Live) + 1
      BY <3>1, LiveIsFinite, FS_AddElement
    <3>3. QED
      BY <3>1, <3>2, LiveIsFinite DEF SemInv
  <2>4. CASE Acquire
    <3>1. sem' = sem + 1 /\ sem < SemCap /\ w3.pc = "acquire" /\ w3'.pc = "launch" /\ th' = th
      BY <2>4 DEF Acquire, WorkerTypes
    <3>2. Live' = Live
      BY <3>1 DEF Live
    <3>3. QED
      BY <3>1, <3>2, LiveIsFinite, PipelineAssumption DEF SemInv
  <2>5. CASE \/ \E p \in Payloads : Submit(p)
             \/ DiscardPaused \/ TakePayload \/ StopWorker3
             \/ Monitor \/ Node \/ Refresh \/ Toggle \/ Cancel \/ Drained \/ UNCHANGED vars
    <3>1. UNCHANGED <<sem, th>> /\ (w3.pc = "launch" <=> w3'.pc = "launch")
      BY <2>5, SemElsewhere
    <3>2. Live' = Live
      BY <3>1 DEF Live
    <3>3. QED
      BY <3>1, <3>2 DEF SemInv
  <2>6. QED
    BY <2>1, <2>2, <2>3, <2>4, <2>5 DEF Next, SenderNext, Operations
<1>3. QED
  BY <1>1, <1>2, DataTyped, PTL DEF Spec

\* Every variable holds a value of its kind, and the semaphore stays within its
\* capacity (main.go:690).
THEOREM TypesHold == Spec => []TypeOK
<1>1. DataTypes /\ SemInv => TypeOK
  BY DEF DataTypes, PayloadTypes, WorkerTypes, ThreadTypes, NonceTypes, PendingTypes,
         ChainTypes, CreditTypes, MainTypes, SemInv, TypeOK
<1>2. QED
  BY <1>1, DataTyped, SemTyped, PTL

\* However many goroutines are started and however they end, at most SemCap exist,
\* and the tokens are theirs (main.go:1316, 1335).
THEOREM BroadcastsBounded == Spec => []BoundedBroadcasts
<1>1. SemInv => BoundedBroadcasts
  BY LiveIsFinite, PipelineAssumption DEF SemInv, BoundedBroadcasts
<1>2. QED
  BY <1>1, SemTyped, PTL

----------------------------------------------------------------------------
(* One trade, one nonce.                                                    *)

\* Every copy of a payload that was ever signed and may still be about.
Seen == accepted \cup {th[t].tx : t \in Threads} \cup {Blank}

\* A trade lives in one object at most, and whatever was signed for it bears the
\* nonce that object has now, or was signed before it had one.
TradeInv ==
    /\ \A p \in Payloads : obj[p].trade <= trades
    /\ \A x \in Seen : x.trade <= trades
    /\ \A p, q \in Payloads : (obj[p].trade = obj[q].trade /\ obj[p].trade # 0) => p = q
    /\ \A p \in Payloads : \A x \in Seen :
          (x.trade = obj[p].trade /\ x.trade # 0) => x.nonce \in {0, obj[p].nonce}
    /\ \A x, y \in Seen :
          (x.trade = y.trade /\ x.trade # 0 /\ x.nonce # 0 /\ y.nonce # 0)
              => x.nonce = y.nonce

\* The node takes nothing with nonce 0, and mines each nonce once.
ChainInv ==
    /\ acct > 0
    /\ mempool \subseteq accepted /\ mined \subseteq accepted
    /\ \A x \in accepted : x.nonce > 0
    /\ \A x \in mined : x.nonce < acct
    /\ \A x, y \in mined : x.nonce = y.nonce => x = y

\* What is seen is typed.
LEMMA SeenTyped == DataTypes => Seen \subseteq Txs
BY BlankIsTyped DEF DataTypes, ChainTypes, ThreadTypes, ThreadRecords, Seen

\* Nothing new is signed, and each object keeps its trade and nonce or is reset.
Keeps ==
    /\ trades' = trades
    /\ accepted' \subseteq Seen
    /\ \A t \in Threads : th'[t].tx \in Seen
    /\ \A p \in Payloads : \/ obj'[p].trade = 0
                           \/ obj'[p].trade = obj[p].trade /\ obj'[p].nonce = obj[p].nonce

LEMMA KeepsTrade ==
    ASSUME TradeInv, Keeps
    PROVE  TradeInv'
<1>1. Blank' = Blank
  BY DEF Blank
<1>2. Seen' \subseteq Seen
  BY <1>1 DEF Keeps, Seen
<1>3. \A p \in Payloads : obj'[p].trade <= trades'
  <2>1. 0 <= trades
    <3>1. Blank \in Seen
      BY DEF Seen
    <3>2. QED
      BY <3>1, BlankIsTyped DEF TradeInv
  <2>2. QED
    BY <2>1 DEF Keeps, TradeInv
<1>4. \A p, q \in Payloads : (obj'[p].trade = obj'[q].trade /\ obj'[p].trade # 0) => p = q
  BY DEF Keeps, TradeInv
<1>5. \A p \in Payloads : \A x \in Seen' :
          (x.trade = obj'[p].trade /\ x.trade # 0) => x.nonce \in {0, obj'[p].nonce}
  BY <1>2 DEF Keeps, TradeInv
<1>6. \A x \in Seen' : x.trade <= trades'
  BY <1>2 DEF Keeps, TradeInv
<1>7. \A x, y \in Seen' :
          (x.trade = y.trade /\ x.trade # 0 /\ x.nonce # 0 /\ y.nonce # 0)
              => x.nonce = y.nonce
  BY <1>2 DEF TradeInv
<1>8. QED
  BY <1>3, <1>4, <1>5, <1>6, <1>7 DEF TradeInv

\* Put resets one object.
LEMMA PutKeeps ==
    ASSUME PayloadTypes, NEW p \in Payloads, PutPayload(p)
    PROVE  \A q \in Payloads : obj'[q] = obj[q] \/ obj'[q].trade = 0
BY BlankIsTyped DEF PayloadTypes, PutPayload

\* A broadcast that does not sign keeps trades and nonces.
LEMMA BroadcastKeeps ==
    ASSUME DataTypes, NEW t \in Threads, Broadcast(t), ~ Sign(t)
    PROVE  Keeps
<1> USE DEF DataTypes
<1>1. th[t].p \in Payloads
  BY DEF Broadcast, ThreadTypes, FirstSignOk, FirstSignFail, SignFail, OutOfAttempts, SendOk,
         SendKnown, SendTooLow, SendError, Register, RegisterKnown, Confirm, Timeout,
         Replace, Cleanup, Panic, DeferredCleanup, Recover, Finish
<1>2. \A u \in Threads : th'[u].tx \in Seen
  <2>1. CASE FirstSignOk(t)
    BY <2>1 DEF FirstSignOk, ThreadTypes, ThreadRecords, Seen
  <2>2. CASE FirstSignFail(t)
    BY <2>2 DEF FirstSignFail, ThreadTypes, ThreadRecords, Seen
  <2>3. CASE SignFail(t)
    BY <2>3 DEF SignFail, ThreadTypes, ThreadRecords, Seen
  <2>4. CASE OutOfAttempts(t)
    BY <2>4 DEF OutOfAttempts, ThreadTypes, ThreadRecords, Seen
  <2>5. CASE SendOk(t)
    BY <2>5 DEF SendOk, ThreadTypes, ThreadRecords, Seen
  <2>6. CASE SendKnown(t)
    BY <2>6 DEF SendKnown, ThreadTypes, ThreadRecords, Seen
  <2>7. CASE SendTooLow(t)
    BY <2>7 DEF SendTooLow, ThreadTypes, ThreadRecords, Seen
  <2>8. CASE SendError(t)
    BY <2>8 DEF SendError, ThreadTypes, ThreadRecords, Seen
  <2>9. CASE Register(t)
    BY <2>9 DEF Register, ThreadTypes, ThreadRecords, Seen
  <2>10. CASE RegisterKnown(t)
    BY <2>10 DEF RegisterKnown, ThreadTypes, ThreadRecords, Seen
  <2>11. CASE Confirm(t)
    BY <2>11 DEF Confirm, ThreadTypes, ThreadRecords, Seen
  <2>12. CASE Timeout(t)
    BY <2>12 DEF Timeout, ThreadTypes, ThreadRecords, Seen
  <2>13. CASE Replace(t)
    BY <2>13 DEF Replace, ThreadTypes, ThreadRecords, Seen
  <2>14. CASE Cleanup(t)
    BY <2>14 DEF Cleanup, DeferredCleanup, ThreadTypes, ThreadRecords, Seen
  <2>15. CASE Panic(t) \/ Recover(t)
    BY <2>15 DEF Panic, DeferredCleanup, Recover, ThreadTypes, ThreadRecords, Seen
  <2>16. CASE Finish(t)
    BY <2>16 DEF Finish, ThreadTypes, ThreadRecords, Seen, IdleThread
  <2>17. QED
    BY <2>1, <2>2, <2>3, <2>4, <2>5, <2>6, <2>7, <2>8, <2>9, <2>10, <2>11, <2>12, <2>13, <2>14, <2>15, <2>16 DEF Broadcast
<1>3. \A p \in Payloads : \/ obj'[p].trade = 0
                          \/ obj'[p].trade = obj[p].trade /\ obj'[p].nonce = obj[p].nonce
  <2>1. CASE FirstSignOk(t)
    BY <2>1 DEF FirstSignOk
  <2>2. CASE FirstSignFail(t)
    BY <2>2, <1>1, PutKeeps DEF FirstSignFail
  <2>3. CASE SignFail(t)
    BY <2>3 DEF SignFail
  <2>4. CASE OutOfAttempts(t)
    BY <2>4 DEF OutOfAttempts
  <2>5. CASE SendOk(t)
    BY <2>5 DEF SendOk
  <2>6. CASE SendKnown(t)
    BY <2>6 DEF SendKnown
  <2>7. CASE SendTooLow(t)
    BY <2>7 DEF SendTooLow
  <2>8. CASE SendError(t)
    BY <2>8 DEF SendError
  <2>9. CASE Register(t)
    BY <2>9 DEF Register
  <2>10. CASE RegisterKnown(t)
    BY <2>10 DEF RegisterKnown
  <2>11. CASE Confirm(t)
    BY <2>11, <1>1, PutKeeps DEF Confirm
  <2>12. CASE Timeout(t)
    BY <2>12 DEF Timeout
  <2>13. CASE Replace(t)
    BY <2>13, <1>1 DEF Replace, PayloadTypes, Txs
  <2>14. CASE Cleanup(t)
    BY <2>14, <1>1, PutKeeps DEF Cleanup, DeferredCleanup
  <2>15. CASE Panic(t) \/ Recover(t)
    BY <2>15, <1>1, PutKeeps DEF Panic, DeferredCleanup, Recover
  <2>16. CASE Finish(t)
    BY <2>16 DEF Finish
  <2>17. QED
    BY <2>1, <2>2, <2>3, <2>4, <2>5, <2>6, <2>7, <2>8, <2>9, <2>10, <2>11, <2>12, <2>13, <2>14, <2>15, <2>16 DEF Broadcast
<1>4. accepted' \subseteq Seen /\ trades' = trades
  <2>1. CASE FirstSignOk(t)
    BY <2>1 DEF FirstSignOk, Local, chain, Seen
  <2>2. CASE FirstSignFail(t)
    BY <2>2 DEF FirstSignFail, Local, chain, Seen
  <2>3. CASE SignFail(t)
    BY <2>3 DEF SignFail, Local, chain, Seen
  <2>4. CASE OutOfAttempts(t)
    BY <2>4 DEF OutOfAttempts, Local, chain, Seen
  <2>5. CASE SendOk(t)
    BY <2>5 DEF SendOk, Local, chain, Seen, NodeTakes
  <2>6. CASE SendKnown(t)
    BY <2>6 DEF SendKnown, Local, chain, Seen
  <2>7. CASE SendTooLow(t)
    BY <2>7 DEF SendTooLow, Local, chain, Seen
  <2>8. CASE SendError(t)
    BY <2>8 DEF SendError, Local, chain, Seen, NodeTakes
  <2>9. CASE Register(t)
    BY <2>9 DEF Register, Local, chain, Seen
  <2>10. CASE RegisterKnown(t)
    BY <2>10 DEF RegisterKnown, Local, chain, Seen
  <2>11. CASE Confirm(t)
    BY <2>11 DEF Confirm, Local, chain, Seen
  <2>12. CASE Timeout(t)
    BY <2>12 DEF Timeout, Local, chain, Seen
  <2>13. CASE Replace(t)
    BY <2>13 DEF Replace, Local, chain, Seen
  <2>14. CASE Cleanup(t)
    BY <2>14 DEF Cleanup, DeferredCleanup, Local, chain, Seen
  <2>15. CASE Panic(t) \/ Recover(t)
    BY <2>15 DEF Panic, DeferredCleanup, Recover, Local, chain, Seen
  <2>16. CASE Finish(t)
    BY <2>16 DEF Finish, Local, chain, Seen
  <2>17. QED
    BY <2>1, <2>2, <2>3, <2>4, <2>5, <2>6, <2>7, <2>8, <2>9, <2>10, <2>11, <2>12, <2>13, <2>14, <2>15, <2>16 DEF Broadcast
<1>5. QED
  BY <1>2, <1>3, <1>4 DEF Keeps

\* The worker's other steps, the monitor, the node and the rest keep them too.
LEMMA OthersKeep ==
    ASSUME DataTypes,
           \/ DiscardPaused \/ Acquire \/ StopWorker3
           \/ \E t \in Threads : Launch(t)
           \/ Monitor \/ Node \/ Refresh \/ Toggle \/ Cancel \/ Drained \/ UNCHANGED vars
    PROVE  Keeps
<1> USE DEF DataTypes
<1>1. CASE UNCHANGED <<obj, th, accepted, trades>>
  BY <1>1 DEF Keeps, Seen
<1>2. CASE DiscardPaused
  <2>1. Head(chan) \in Payloads
    BY <1>2 DEF DiscardPaused, WorkerTypes
  <2>2. QED
    BY <1>2, <2>1, PutKeeps DEF DiscardPaused, chain, Keeps, Seen
<1>3. CASE StopWorker3
  BY <1>3, PutKeeps DEF StopWorker3, WorkerTypes, chain, Keeps, Seen
<1>4. ASSUME NEW t \in Threads, Launch(t)
      PROVE  Keeps
  <2>1. [IdleThread EXCEPT !.pc = "start", !.p = w3.p].tx = Blank
    BY DEF IdleThread
  <2>2. \A u \in Threads : th'[u].tx \in Seen
    BY <1>4, <2>1 DEF Launch, ThreadTypes, Seen
  <2>3. QED
    BY <1>4, <2>2 DEF Launch, chain, Keeps, Seen
<1>5. CASE MonitorConfirm
  <2>1. mon.hit.p \in Payloads
    BY <1>5 DEF MonitorConfirm, PendingTypes, Entries
  <2>2. QED
    BY <1>5, <2>1, PutKeeps DEF MonitorConfirm, chain, Keeps, Seen
<1>6. CASE Snapshot \/ (\E e \in mon.todo : Lookup(e)) \/ Node \/ Refresh
  BY <1>1, <1>6 DEF Snapshot, Lookup, Node, Mine, Drop, Refresh, SyncAsk, SyncRead, SyncFails, SyncStore, StopRefresh, chain
<1>7. CASE Acquire \/ Toggle \/ Cancel \/ Drained \/ UNCHANGED vars
  BY <1>1, <1>7 DEF Acquire, Toggle, Cancel, Drained, GotoMain, vars, chain
<1>8. QED
  BY <1>2, <1>3, <1>4, <1>5, <1>6, <1>7 DEF Monitor

\* A new submission has a number nobody has seen.
LEMMA SubmitTrade ==
    ASSUME DataTypes, TradeInv, NEW p \in Payloads, Submit(p)
    PROVE  TradeInv'
<1>1. trades \in Nat /\ trades' = trades + 1 /\ obj \in [Payloads -> Txs]
  BY PipelineAssumption DEF Submit, DataTypes, PayloadTypes
<1>2. Seen' = Seen
  BY DEF Submit, chain, Seen, Blank
<1>3. obj' = [obj EXCEPT ![p] = [trade |-> trades + 1, nonce |-> 0, ver |-> 0]]
  BY DEF Submit
<1>4. \A q \in Payloads : obj[q].trade \in Nat
  BY <1>1 DEF Txs
<1>5. \A x \in Seen : x.trade \in Nat
  BY SeenTyped DEF Txs
<1>6. /\ obj'[p].trade = trades + 1 /\ obj'[p].nonce = 0
      /\ \A q \in Payloads \ {p} : obj'[q] = obj[q]
  BY <1>1, <1>3
<1>7. \A q \in Payloads : obj'[q].trade <= trades'
  BY <1>1, <1>4, <1>6 DEF TradeInv
<1>8. \A q, r \in Payloads : (obj'[q].trade = obj'[r].trade /\ obj'[q].trade # 0) => q = r
  BY <1>1, <1>4, <1>6 DEF TradeInv
<1>9. \A q \in Payloads : \A x \in Seen :
          (x.trade = obj'[q].trade /\ x.trade # 0) => x.nonce \in {0, obj'[q].nonce}
  BY <1>1, <1>5, <1>6 DEF TradeInv
<1>10. \A x \in Seen : x.trade <= trades'
  BY <1>1, <1>5 DEF TradeInv
<1>11. QED
  BY <1>2, <1>7, <1>8, <1>9, <1>10 DEF TradeInv

\* A nonce is given only to a payload nothing was signed for with one.
LEMMA TakeTrade ==
    ASSUME DataTypes, TradeInv, TakePayload
    PROVE  TradeInv'
<1> DEFINE p == Head(chan)
<1>1. p \in Payloads /\ obj \in [Payloads -> Txs]
  BY DEF TakePayload, DataTypes, WorkerTypes, PayloadTypes
<1>2. Seen' = Seen /\ trades' = trades
  BY DEF TakePayload, chain, Seen, Blank
<1>3. CASE obj[p].nonce # 0
  <2>1. obj' = obj
    BY <1>3 DEF TakePayload
  <2>2. QED
    BY <1>2, <2>1 DEF TradeInv
<1>4. CASE obj[p].nonce = 0
  <2>1. obj' = [obj EXCEPT ![p].nonce = counter]
    BY <1>4 DEF TakePayload
  <2> HIDE DEF p
  <2>2. \A q \in Payloads : obj'[q].trade = obj[q].trade
    BY <1>1, <2>1 DEF Txs
  <2>3. \A q \in Payloads : q # p => obj'[q] = obj[q]
    BY <1>1, <2>1
  <2>4. \A q \in Payloads : \A x \in Seen :
            (x.trade = obj'[q].trade /\ x.trade # 0) => x.nonce \in {0, obj'[q].nonce}
    BY <1>1, <1>4, <2>2, <2>3 DEF TradeInv
  <2>5. QED
    BY <1>2, <2>2, <2>4 DEF TradeInv
<1>5. QED
  BY <1>3, <1>4

\* Signing copies the object.
LEMMA SignTrade ==
    ASSUME DataTypes, TradeInv, NEW t \in Threads, Sign(t)
    PROVE  TradeInv'
<1> DEFINE x == obj[th[t].p]
<1>1. th[t].p \in Payloads /\ obj \in [Payloads -> Txs]
  BY DEF Sign, DataTypes, PayloadTypes, ThreadTypes
<1>2. obj' = obj /\ trades' = trades /\ accepted' = accepted
  BY DEF Sign, Local, chain
<1>3. \A u \in Threads : th'[u].tx \in {x, th[u].tx}
  BY DEF Sign, DataTypes, ThreadTypes, ThreadRecords
<1>4. Seen' \subseteq Seen \cup {x}
  BY <1>2, <1>3 DEF Seen, Blank
<1>5. \A p \in Payloads : (x.trade = obj[p].trade /\ x.trade # 0) => x.nonce = obj[p].nonce
  BY <1>1 DEF TradeInv
<1>6. x.trade <= trades
  BY <1>1 DEF TradeInv
<1>7. \A y \in Seen : (x.trade = y.trade /\ x.trade # 0) => y.nonce \in {0, x.nonce}
  BY <1>1 DEF TradeInv
<1> HIDE DEF x
<1>8. \A p \in Payloads : \A y \in Seen' :
          (y.trade = obj[p].trade /\ y.trade # 0) => y.nonce \in {0, obj[p].nonce}
  BY <1>4, <1>5 DEF TradeInv
<1>9. \A y, z \in Seen' :
          (y.trade = z.trade /\ y.trade # 0 /\ y.nonce # 0 /\ z.nonce # 0)
              => y.nonce = z.nonce
  BY <1>4, <1>7 DEF TradeInv
<1>10. \A y \in Seen' : y.trade <= trades
  BY <1>4, <1>6 DEF TradeInv
<1>11. QED
  BY <1>2, <1>8, <1>9, <1>10 DEF TradeInv

\* One trade keeps one nonce, in every reachable state.
LEMMA OneNonce == Spec => []TradeInv
<1>1. Init => TradeInv
  <2> SUFFICES ASSUME Init PROVE TradeInv
    OBVIOUS
  <2>1. Seen = {Blank}
    BY DEF Init, Seen, IdleThread
  <2>2. \A p \in Payloads : obj[p] = Blank
    BY DEF Init
  <2>3. trades = 0
    BY DEF Init
  <2>4. QED
    BY <2>1, <2>2, <2>3, BlankIsTyped DEF TradeInv
<1>2. DataTypes /\ TradeInv /\ [Next]_vars => TradeInv'
  BY KeepsTrade, BroadcastKeeps, OthersKeep, SubmitTrade, TakeTrade, SignTrade
     DEF Next, SenderNext, Operations
<1>3. QED
  BY <1>1, <1>2, DataTyped, PTL DEF Spec

\* The node mines each nonce once, and only what it was sent.
LEMMA ChainKept == Spec => []ChainInv
<1>1. Init => ChainInv
  BY PipelineAssumption DEF Init, ChainInv
<1>2. DataTypes /\ ChainInv /\ [Next]_vars => ChainInv'
  <2> SUFFICES ASSUME DataTypes, ChainInv, [Next]_vars
               PROVE  ChainInv'
    OBVIOUS
  <2>1. acct \in Nat /\ \A x \in accepted : x.nonce \in Nat
    BY DEF DataTypes, ChainTypes, Txs
  <2>2. CASE UNCHANGED chain
    BY <2>2 DEF chain, ChainInv
  <2>3. ASSUME NEW t \in Threads, NodeTakes(th[t].tx)
        PROVE  ChainInv'
    <3>1. th[t].tx.nonce \in Nat
      BY DEF DataTypes, ThreadTypes, ThreadRecords, Txs
    <3>2. QED
      BY <2>1, <2>3, <3>1 DEF NodeTakes, ChainInv
  <2>4. ASSUME NEW t \in Threads, Broadcast(t)
        PROVE  ChainInv'
    <3>1. CASE SendOk(t) \/ SendError(t)
      BY <2>2, <2>3, <3>1 DEF SendOk, SendError
    <3>2. CASE ~ (SendOk(t) \/ SendError(t))
      BY <2>2, <2>4, <3>2 DEF Broadcast, FirstSignOk, FirstSignFail, Sign, SignFail,
         OutOfAttempts, SendKnown, SendTooLow, Register, RegisterKnown, Confirm, Timeout,
         Replace, Cleanup, Panic, DeferredCleanup, Recover, Finish
    <3>3. QED
      BY <3>1, <3>2
  <2>5. ASSUME NEW tx \in mempool, Mine(tx)
        PROVE  ChainInv'
    BY <2>1, <2>5 DEF Mine, ChainInv
  <2>6. ASSUME NEW tx \in mempool, Drop(tx)
        PROVE  ChainInv'
    BY <2>6 DEF Drop, ChainInv
  <2>7. CASE \/ \E p \in Payloads : Submit(p)
             \/ TakePayload \/ Acquire \/ \E t \in Threads : Launch(t)
    BY <2>2, <2>7 DEF Submit, TakePayload, Acquire, Launch
  <2>8. CASE Monitor \/ Operations
    BY <2>2, <2>8 DEF Monitor, Snapshot, Lookup, MonitorConfirm, Operations, DiscardPaused,
       StopWorker3, Refresh, SyncAsk, SyncRead, SyncFails, SyncStore, StopRefresh, Toggle, Cancel, Drained, GotoMain
  <2>9. CASE UNCHANGED vars
    BY <2>2, <2>9 DEF vars
  <2>10. QED
    BY <2>4, <2>5, <2>6, <2>7, <2>8, <2>9 DEF Next, SenderNext, Node
<1>3. QED
  BY <1>1, <1>2, DataTyped, PTL DEF Spec

\* No trade is executed twice: all that reaches the node for one trade bears one
\* nonce, through retries, replacements, rollbacks and recycled payloads, and so at
\* most one of its transactions is mined.
THEOREM NoTradeTwice == Spec => []TradeMinedOnce
<1>1. TradeInv /\ ChainInv => TradeMinedOnce
  <2> SUFFICES ASSUME TradeInv, ChainInv PROVE TradeMinedOnce
    OBVIOUS
  <2>1. \A x, y \in accepted : (x.trade = y.trade /\ x.trade # 0) => x.nonce = y.nonce
    <3>1. accepted \subseteq Seen /\ \A x \in accepted : x.nonce # 0
      BY DEF Seen, ChainInv
    <3>2. QED
      BY <3>1 DEF TradeInv
  <2>2. QED
    BY <2>1 DEF ChainInv, TradeMinedOnce
<1>2. QED
  BY <1>1, OneNonce, ChainKept, PTL
----------------------------------------------------------------------------
(* Credit.                                                                  *)

\* What a broadcast is about to register has been taken by the node, and the receipt
\* in the monitor's hand is of a mined transaction.
CreditInv ==
    /\ \A t \in Threads : th[t].pc \in {"register", "known"} => th[t].tx \in accepted
    /\ mon.hit # NoEntry => mon.hit.tx \in mined
    /\ CreditedWasMined

\* A step that adds no credit and no entry, and moves no goroutine to the registration.
LEMMA CreditStays ==
    ASSUME CreditInv, credits' = credits, pending' \subseteq pending, mon'.hit = mon.hit,
           accepted \subseteq accepted', mined \subseteq mined',
           \A t \in Threads : \/ th'[t].pc \notin {"register", "known"}
                              \/ th'[t].tx \in accepted'
    PROVE  CreditInv'
BY Rigid DEF CreditInv, CreditedWasMined

\* A step of a broadcast.
LEMMA BroadcastCredit ==
    ASSUME DataTypes, ChainInv, CreditInv, NEW t \in Threads, Broadcast(t)
    PROVE  CreditInv'
<1> USE DEF DataTypes, ThreadTypes, ThreadRecords
<1>1. \A u \in Threads \ {t} : th'[u] = th[u]
  BY DEF Broadcast, FirstSignOk, FirstSignFail, Sign, SignFail, OutOfAttempts, SendOk,
     SendKnown, SendTooLow, SendError, Register, RegisterKnown, Confirm, Timeout, Replace,
     Cleanup, Panic, DeferredCleanup, Recover, Finish
<1>2. CASE FirstSignOk(t)
  BY <1>1, <1>2, CreditStays DEF FirstSignOk, Local, chain, CreditInv
<1>3. CASE FirstSignFail(t)
  BY <1>1, <1>3, CreditStays DEF FirstSignFail, Local, chain, CreditInv
<1>4. CASE Sign(t)
  BY <1>1, <1>4, CreditStays DEF Sign, Local, chain, CreditInv
<1>5. CASE SignFail(t)
  BY <1>1, <1>5, CreditStays DEF SignFail, Local, chain, CreditInv
<1>6. CASE OutOfAttempts(t)
  BY <1>1, <1>6, CreditStays DEF OutOfAttempts, Local, chain, CreditInv
<1>7. CASE SendTooLow(t)
  BY <1>1, <1>7, CreditStays DEF SendTooLow, Local, chain, CreditInv
<1>8. CASE Timeout(t)
  BY <1>1, <1>8, CreditStays DEF Timeout, Local, chain, CreditInv
<1>9. CASE Replace(t)
  BY <1>1, <1>9, CreditStays DEF Replace, Local, chain, CreditInv
<1>10. CASE Cleanup(t)
  BY <1>1, <1>10, CreditStays DEF Cleanup, DeferredCleanup, Local, chain, CreditInv, Without
<1>11. CASE Panic(t) \/ Recover(t)
  BY <1>1, <1>11, CreditStays DEF Panic, DeferredCleanup, Recover, Local, chain, CreditInv, Without
<1>12. CASE Finish(t)
  BY <1>1, <1>12, CreditStays DEF Finish, Local, chain, CreditInv, IdleThread
<1>13. CASE SendOk(t) \/ SendError(t)
  BY <1>1, <1>13, CreditStays DEF SendOk, SendError, NodeTakes, Local, chain, CreditInv
<1>14. CASE SendKnown(t)
  BY <1>1, <1>14, CreditStays DEF SendKnown, Local, chain, CreditInv, ChainInv
<1>15. CASE Register(t) \/ RegisterKnown(t)
  <2>1. pending' \subseteq pending \cup {EntryOf(t)} /\ th[t].tx \in accepted
    BY <1>15 DEF Register, RegisterKnown, Without, CreditInv
  <2>2. th'[t].pc = "wait" /\ credits' = credits /\ mon' = mon /\ UNCHANGED chain
    BY <1>15 DEF Register, RegisterKnown, Local
  <2>3. EntryOf(t).tx = th[t].tx /\ EntryOf(t).nonce = th[t].tx.nonce
    BY DEF EntryOf
  <2>4. \A u \in Threads : th'[u].pc \in {"register", "known"} => th'[u].tx \in accepted'
    BY <1>1, <2>2 DEF chain, CreditInv
  <2>5. QED
    BY <2>1, <2>2, <2>3, <2>4, Rigid DEF chain, CreditInv, CreditedWasMined
<1>16. CASE Confirm(t)
  <2>1. credits' = credits \cup {<<th[t].tx, t>>} /\ th[t].tx \in mined
    BY <1>16 DEF Confirm
  <2>2. pending' \subseteq pending /\ th'[t].pc = "finish" /\ mon' = mon /\ UNCHANGED chain
    BY <1>16 DEF Confirm, Without, Local
  <2>3. \A u \in Threads : th'[u].pc \in {"register", "known"} => th'[u].tx \in accepted'
    BY <1>1, <2>2 DEF chain, CreditInv
  <2>4. QED
    BY <2>1, <2>2, <2>3, Rigid DEF chain, CreditInv, CreditedWasMined
<1>17. QED
  BY <1>2, <1>3, <1>4, <1>5, <1>6, <1>7, <1>8, <1>9, <1>10, <1>11, <1>12, <1>13, <1>14, <1>15, <1>16 DEF Broadcast

\* Credit and tracking follow the node: profit is credited only for what was mined,
\* and Sender.pending holds only what the node has taken, under its own nonce
\* (sender.go:355-363, 489-499, 585-601).
THEOREM CreditIsEarned == Spec => []CreditedWasMined
<1>1. Init => CreditInv
  BY DEF Init, CreditInv, CreditedWasMined, IdleThread
<1>2. DataTypes /\ ChainInv /\ CreditInv /\ [Next]_vars => CreditInv'
  <2> SUFFICES ASSUME DataTypes, ChainInv, CreditInv, [Next]_vars
               PROVE  CreditInv'
    OBVIOUS
  <2>1. CASE UNCHANGED <<th, pending, mon, chain, credits>>
    BY <2>1, Rigid DEF chain, CreditInv, CreditedWasMined
  <2>2. ASSUME NEW t \in Threads, Broadcast(t)
        PROVE  CreditInv'
    BY <2>2, BroadcastCredit
  <2>3. ASSUME NEW t \in Threads, Launch(t)
        PROVE  CreditInv'
    <3>1. [IdleThread EXCEPT !.pc = "start", !.p = w3.p].pc = "start"
      BY DEF IdleThread
    <3>2. \A u \in Threads : u = t \/ th'[u] = th[u]
      BY <2>3 DEF Launch, DataTypes, ThreadTypes
    <3>3. th'[t].pc = "start"
      BY <2>3, <3>1 DEF Launch, DataTypes, ThreadTypes
    <3>4. QED
      BY <2>3, <3>2, <3>3, CreditStays DEF Launch, chain, CreditInv
  <2>4. CASE Snapshot
    BY <2>4, CreditStays DEF Snapshot, DataTypes, PendingTypes, chain, CreditInv
  <2>5. ASSUME NEW e \in mon.todo, Lookup(e)
        PROVE  CreditInv'
    <3>1. UNCHANGED <<th, pending, chain, credits>>
      BY <2>5 DEF Lookup
    <3>2. mon'.hit = mon.hit \/ (mon'.hit = e /\ e.tx \in mined)
      BY <2>5 DEF Lookup, DataTypes, PendingTypes
    <3>3. QED
      BY <3>1, <3>2, Rigid DEF chain, CreditInv, CreditedWasMined
  <2>6. CASE MonitorConfirm
    <3>1. credits' = credits \cup {<<mon.hit.tx, Nobody>>} /\ mon.hit.tx \in mined
      BY <2>6 DEF MonitorConfirm, CreditInv
    <3>2. pending' \subseteq pending /\ mon'.hit = NoEntry /\ UNCHANGED <<th, chain>>
      BY <2>6 DEF MonitorConfirm, Without, DataTypes, PendingTypes
    <3>3. QED
      BY <3>1, <3>2, Rigid DEF chain, CreditInv, CreditedWasMined
  <2>7. ASSUME NEW tx \in mempool, Mine(tx) \/ Drop(tx)
        PROVE  CreditInv'
    BY <2>7, CreditStays DEF Mine, Drop, CreditInv
  <2>8. CASE (\E p \in Payloads : Submit(p)) \/ TakePayload \/ Acquire \/ Operations
    BY <2>1, <2>8 DEF Submit, TakePayload, Acquire, Operations, DiscardPaused, StopWorker3,
       Refresh, SyncAsk, SyncRead, SyncFails, SyncStore, StopRefresh, Toggle, Cancel, Drained, GotoMain
  <2>9. CASE UNCHANGED vars
    BY <2>1, <2>9 DEF vars
  <2>10. QED
    BY <2>2, <2>3, <2>4, <2>5, <2>6, <2>7, <2>8, <2>9
       DEF Next, SenderNext, Node, Monitor
<1>3. CreditInv => CreditedWasMined
  BY DEF CreditInv
<1>4. QED
  BY <1>1, <1>2, <1>3, DataTyped, ChainKept, PTL DEF Spec
----------------------------------------------------------------------------
(* No payload object is lost, with the monitor, panics and shutdown: what   *)
(* the double releases do is the opposite.                                  *)

LeakInv ==
    /\ NothingLeaks
    /\ w3.pc \in {"select", "done"} => w3.p = Nobody

\* Putting an object into the pool takes none away.
LEMMA PutLosesNone ==
    ASSUME PayloadTypes, NEW q \in Payloads, PutPayload(q)
    PROVE  pool'[q] > 0 /\ \A p \in Payloads : pool[p] > 0 => pool'[p] > 0
BY DEF PayloadTypes, PutPayload

\* A step of a broadcast keeps its object in hand, or the object is in the pool.
LEMMA BroadcastLosesNone ==
    ASSUME DataTypes, NEW t \in Threads, Broadcast(t)
    PROVE  /\ UNCHANGED <<fresh, chan, w3>>
           /\ \A u \in Threads \ {t} : th'[u] = th[u]
           /\ \A p \in Payloads : pool[p] > 0 => pool'[p] > 0
           /\ t \in Busy => pool'[th[t].p] > 0 \/ (t \in Busy' /\ th'[t].p = th[t].p)
<1> USE DEF DataTypes
<1>0. /\ th \in [Threads -> ThreadRecords] /\ (th[t].pc # "idle" => th[t].p \in Payloads)
      /\ pool \in [Payloads -> Nat]
  BY DEF ThreadTypes, PayloadTypes
<1>1. UNCHANGED <<fresh, chan, w3>>
  BY DEF Broadcast, FirstSignOk, FirstSignFail, Sign, SignFail, OutOfAttempts, SendOk, SendKnown, SendTooLow,
         SendError, Register, RegisterKnown, Confirm, Timeout, Replace, Cleanup, Panic, DeferredCleanup, Recover,
         Finish, Local, worker
<1>2. \A u \in Threads \ {t} : th'[u] = th[u]
  BY <1>0 DEF Broadcast, FirstSignOk, FirstSignFail, Sign, SignFail, OutOfAttempts, SendOk, SendKnown, SendTooLow,
         SendError, Register, RegisterKnown, Confirm, Timeout, Replace, Cleanup, Panic, DeferredCleanup, Recover,
         Finish
<1>3. CASE FirstSignFail(t) \/ Confirm(t) \/ Cleanup(t) \/ Panic(t) \/ Recover(t)
  <2>1. PutPayload(th[t].p) /\ th[t].p \in Payloads
    BY <1>0, <1>3 DEF FirstSignFail, Confirm, Cleanup, Panic, DeferredCleanup, Recover
  <2>2. pool'[th[t].p] > 0 /\ \A p \in Payloads : pool[p] > 0 => pool'[p] > 0
    BY <2>1, PutLosesNone
  <2>3. QED
    BY <1>1, <1>2, <2>2
<1>4. CASE FirstSignOk(t) \/ Sign(t) \/ SignFail(t) \/ OutOfAttempts(t)
  <2>1. pool' = pool
    BY <1>4 DEF FirstSignOk, Sign, SignFail, OutOfAttempts
  <2>2. th'[t].pc \in {"top", "send", "fail"} /\ th'[t].p = th[t].p
    BY <1>0, <1>4 DEF FirstSignOk, Sign, SignFail, OutOfAttempts, ThreadRecords
  <2>3. QED
    BY <1>1, <1>2, <2>1, <2>2 DEF Busy
<1>5. CASE SendOk(t) \/ SendKnown(t) \/ SendTooLow(t) \/ SendError(t)
  <2>1. pool' = pool
    BY <1>5 DEF SendOk, SendKnown, SendTooLow, SendError
  <2>2. th'[t].pc \in {"register", "known", "fail", "top"} /\ th'[t].p = th[t].p
    BY <1>0, <1>5 DEF SendOk, SendKnown, SendTooLow, SendError, ThreadRecords
  <2>3. QED
    BY <1>1, <1>2, <2>1, <2>2 DEF Busy
<1>6. CASE Register(t) \/ RegisterKnown(t) \/ Timeout(t) \/ Replace(t)
  <2>1. pool' = pool
    BY <1>6 DEF Register, RegisterKnown, Timeout, Replace
  <2>2. th'[t].pc \in {"wait", "stuck", "top"} /\ th'[t].p = th[t].p
    BY <1>0, <1>6 DEF Register, RegisterKnown, Timeout, Replace, ThreadRecords
  <2>3. QED
    BY <1>1, <1>2, <2>1, <2>2 DEF Busy
<1>7. CASE Finish(t)
  BY <1>1, <1>2, <1>7 DEF Finish, Busy
<1>8. QED
  BY <1>3, <1>4, <1>5, <1>6, <1>7 DEF Broadcast

\* What waits in the channel behind its head waits on.
LEMMA TailKeeps ==
    ASSUME WorkerTypes, chan # <<>>, chan' = Tail(chan), NEW p,
           \E i \in DOMAIN chan : chan[i] = p
    PROVE  p = Head(chan) \/ \E i \in DOMAIN chan' : chan'[i] = p
<1>1. PICK i \in 1..Len(chan) : chan[i] = p
  BY DEF WorkerTypes
<1>2. CASE i = 1
  BY <1>1, <1>2 DEF WorkerTypes
<1>3. CASE i # 1
  <2>1. i - 1 \in 1..Len(Tail(chan)) /\ Tail(chan)[i - 1] = chan[i]
    BY <1>1, <1>3 DEF WorkerTypes
  <2>2. i - 1 \in DOMAIN chan' /\ chan'[i - 1] = p
    BY <1>1, <2>1 DEF WorkerTypes
  <2>3. QED
    BY <2>2
<1>4. QED
  BY <1>2, <1>3

\* The producer takes one object and queues it, or puts it back.
LEMMA SubmitLosesNone ==
    ASSUME DataTypes, LeakInv, NEW q \in Payloads, Submit(q)
    PROVE  LeakInv'
<1> USE DEF DataTypes
<1>1. w3' = w3 /\ th' = th /\ fresh' = fresh \ {q}
  BY DEF Submit, worker
<1>2. \A i \in DOMAIN chan : i \in DOMAIN chan' /\ chan'[i] = chan[i]
  BY DEF Submit, WorkerTypes
<1>3. \A p \in Payloads \ {q} : pool'[p] = pool[p]
  BY DEF Submit, PayloadTypes
<1>4. pool'[q] > 0 \/ \E i \in DOMAIN chan' : chan'[i] = q
  <2> DEFINE left == IF q \in fresh THEN 0 ELSE pool[q] - 1
  <2>1. left \in Nat
    BY DEF Submit, PayloadTypes
  <2> HIDE DEF left
  <2>2. CASE chan' = Append(chan, q)
    <3>1. Len(chan) + 1 \in DOMAIN chan' /\ chan'[Len(chan) + 1] = q
      BY <2>2 DEF WorkerTypes
    <3>2. QED
      BY <3>1
  <2>3. CASE pool' = [pool EXCEPT ![q] = left + 1]
    BY <2>1, <2>3 DEF PayloadTypes
  <2>4. QED
    BY <2>2, <2>3 DEF Submit, left
<1>5. NothingLeaks'
  <2> SUFFICES ASSUME NEW p \in Payloads, p \notin fresh'
               PROVE  \/ pool'[p] > 0 \/ p = w3'.p
                      \/ \E i \in DOMAIN chan' : chan'[i] = p
                      \/ \E t \in Busy' : th'[t].p = p
    BY DEF NothingLeaks
  <2>1. CASE p = q
    BY <1>4, <2>1
  <2>2. CASE p # q
    BY <1>1, <1>2, <1>3, <2>2 DEF LeakInv, NothingLeaks, Busy
  <2>3. QED
    BY <2>1, <2>2
<1>6. QED
  BY <1>1, <1>5 DEF LeakInv

LEMMA WorkerLosesNone ==
    ASSUME DataTypes, LeakInv,
           DiscardPaused \/ TakePayload \/ Acquire \/ StopWorker3 \/ \E t \in Threads : Launch(t)
    PROVE  LeakInv'
<1> USE DEF DataTypes
<1>0. fresh' = fresh
  BY DEF DiscardPaused, TakePayload, Acquire, StopWorker3, Launch
<1>1. CASE DiscardPaused
  <2>1. chan # <<>> /\ chan' = Tail(chan) /\ PutPayload(Head(chan)) /\ w3' = w3 /\ th' = th
    BY <1>1 DEF DiscardPaused
  <2>2. Head(chan) \in Payloads
    BY <2>1 DEF WorkerTypes
  <2>3. pool'[Head(chan)] > 0 /\ \A p \in Payloads : pool[p] > 0 => pool'[p] > 0
    BY <2>1, <2>2, PutLosesNone
  <2>4. NothingLeaks'
    BY <1>0, <2>1, <2>3, TailKeeps DEF LeakInv, NothingLeaks, Busy
  <2>5. QED
    BY <2>1, <2>4 DEF LeakInv
<1>2. CASE TakePayload
  <2>1. /\ chan # <<>> /\ chan' = Tail(chan) /\ pool' = pool /\ th' = th /\ w3.pc = "select"
        /\ w3'.p = Head(chan) /\ w3'.pc = "acquire"
    BY <1>2 DEF TakePayload
  <2>2. w3.p = Nobody /\ Nobody \notin Payloads
    BY <2>1, PipelineAssumption DEF LeakInv
  <2>3. NothingLeaks'
    BY <1>0, <2>1, <2>2, TailKeeps DEF LeakInv, NothingLeaks, Busy
  <2>4. QED
    BY <2>1, <2>3 DEF LeakInv
<1>3. CASE Acquire
  <2>1. /\ chan' = chan /\ pool' = pool /\ th' = th /\ w3'.p = w3.p /\ w3'.pc = "launch"
    BY <1>3 DEF Acquire, WorkerTypes
  <2>2. QED
    BY <1>0, <2>1 DEF LeakInv, NothingLeaks, Busy
<1>4. CASE StopWorker3
  <2>1. /\ chan' = chan /\ th' = th /\ w3'.p = Nobody /\ w3'.pc = "done"
        /\ (w3.pc = "select" /\ pool' = pool) \/ (w3.pc = "acquire" /\ PutPayload(w3.p))
    BY <1>4 DEF StopWorker3
  <2>2. CASE w3.pc = "select"
    BY <1>0, <2>1, <2>2, PipelineAssumption DEF LeakInv, NothingLeaks, Busy
  <2>3. CASE w3.pc = "acquire"
    <3>1. w3.p \in Payloads /\ PutPayload(w3.p)
      BY <2>1, <2>3 DEF WorkerTypes
    <3>2. pool'[w3.p] > 0 /\ \A p \in Payloads : pool[p] > 0 => pool'[p] > 0
      BY <3>1, PutLosesNone
    <3>3. QED
      BY <1>0, <2>1, <3>2 DEF LeakInv, NothingLeaks, Busy
  <2>4. QED
    BY <2>1, <2>2, <2>3
<1>5. CASE \E t \in Threads : Launch(t)
  <2>1. PICK t \in Threads : Launch(t)
    BY <1>5
  <2> DEFINE r == [IdleThread EXCEPT !.pc = "start", !.p = w3.p]
  <2>2. /\ th' = [th EXCEPT ![t] = r] /\ th[t].pc = "idle" /\ th \in [Threads -> ThreadRecords]
        /\ chan' = chan /\ pool' = pool /\ w3' = [pc |-> "select", p |-> Nobody]
    BY <2>1 DEF Launch, ThreadTypes
  <2>3. r.pc = "start" /\ r.p = w3.p
    BY DEF IdleThread
  <2> HIDE DEF r
  <2>4. t \in Busy' /\ th'[t].p = w3.p /\ \A u \in Busy : u \in Busy' /\ th'[u] = th[u]
    BY <2>2, <2>3 DEF Busy
  <2>5. NothingLeaks'
    BY <1>0, <2>2, <2>4 DEF LeakInv, NothingLeaks
  <2>6. QED
    BY <2>2, <2>5 DEF LeakInv
<1>6. QED
  BY <1>1, <1>2, <1>3, <1>4, <1>5

LEMMA NoneLost == Spec => []LeakInv
<1>1. Init => LeakInv
  BY DEF Init, LeakInv, NothingLeaks
<1>2. DataTypes /\ LeakInv /\ [Next]_vars => LeakInv'
  <2> SUFFICES ASSUME DataTypes, LeakInv, [Next]_vars PROVE LeakInv'
    OBVIOUS
  <2>1. CASE \E t \in Threads : Broadcast(t)
    <3>1. PICK t \in Threads : Broadcast(t)
      BY <2>1
    <3>2. /\ UNCHANGED <<fresh, chan, w3>>
          /\ \A u \in Threads \ {t} : th'[u] = th[u]
          /\ \A p \in Payloads : pool[p] > 0 => pool'[p] > 0
          /\ t \in Busy => pool'[th[t].p] > 0 \/ (t \in Busy' /\ th'[t].p = th[t].p)
      BY <3>1, BroadcastLosesNone
    <3>3. \A u \in Busy \ {t} : u \in Busy' /\ th'[u].p = th[u].p
      BY <3>2 DEF Busy
    <3>4. NothingLeaks'
      BY <3>2, <3>3 DEF LeakInv, NothingLeaks
    <3>5. QED
      BY <3>2, <3>4 DEF LeakInv
  <2>2. CASE MonitorConfirm
    <3>1. mon.hit.p \in Payloads /\ PutPayload(mon.hit.p) /\ UNCHANGED <<fresh, chan, w3, th>>
      BY <2>2 DEF MonitorConfirm, DataTypes, PendingTypes, Entries, worker
    <3>2. \A p \in Payloads : pool[p] > 0 => pool'[p] > 0
      BY <3>1, PutLosesNone DEF DataTypes
    <3>3. QED
      BY <3>1, <3>2 DEF LeakInv, NothingLeaks, Busy
  <2>3. ASSUME UNCHANGED <<pool, fresh, chan, w3, th>> PROVE LeakInv'
    BY <2>3 DEF LeakInv, NothingLeaks, Busy
  <2>4. CASE Snapshot \/ (\E e \in mon.todo : Lookup(e)) \/ Node \/ Refresh
    BY <2>3, <2>4 DEF Snapshot, Lookup, Node, Mine, Drop, Refresh, SyncAsk, SyncRead, SyncFails, SyncStore,
       StopRefresh, worker
  <2>5. CASE Toggle \/ Cancel \/ Drained \/ UNCHANGED vars
    BY <2>3, <2>5 DEF Toggle, Cancel, Drained, GotoMain, vars, worker
  <2>6. CASE \E p \in Payloads : Submit(p)
    BY <2>6, SubmitLosesNone
  <2>7. CASE DiscardPaused \/ TakePayload \/ Acquire \/ StopWorker3 \/ \E t \in Threads : Launch(t)
    BY <2>7, WorkerLosesNone
  <2>8. QED
    BY <2>1, <2>2, <2>4, <2>5, <2>6, <2>7 DEF Next, SenderNext, Operations, Monitor
<1>3. QED
  BY <1>1, <1>2, DataTyped, PTL DEF Spec

\* On no path is a payload object dropped without being released: not when signing or
\* sending fails, not in a panic, a pause or a shutdown (main.go:1288-1387).
THEOREM PayloadsAreKept == Spec => []NothingLeaks
<1>1. LeakInv => NothingLeaks
  BY DEF LeakInv
<1>2. QED
  BY <1>1, NoneLost, PTL

----------------------------------------------------------------------------
\* A broadcast that the node answered has noted that it sent, or is about to.
AckInv == \A t \in Threads : th[t].acked => th[t].sent \/ th[t].pc \in {"register", "known"}

LEMMA Acknowledged == Spec => []AckInv
<1>1. Init => AckInv
  BY DEF Init, AckInv, IdleThread
<1>2. DataTypes /\ AckInv /\ [Next]_vars => AckInv'
  <2> SUFFICES ASSUME DataTypes, AckInv, [Next]_vars PROVE AckInv'
    OBVIOUS
  <2>0. th \in [Threads -> ThreadRecords]
    BY DEF DataTypes, ThreadTypes
  <2>1. ASSUME NEW t \in Threads, Broadcast(t) \/ Launch(t) PROVE AckInv'
    <3>1. \A u \in Threads \ {t} : th'[u] = th[u]
      BY <2>0, <2>1 DEF Broadcast, Launch, FirstSignOk, FirstSignFail, Sign, SignFail, OutOfAttempts, SendOk,
         SendKnown, SendTooLow, SendError, Register, RegisterKnown, Confirm, Timeout, Replace, Cleanup, Panic, DeferredCleanup, Recover, Finish
    <3>2. th[t].acked => th[t].sent \/ th[t].pc \in {"register", "known"}
      BY DEF AckInv
    <3>3. th'[t].acked => th'[t].sent \/ th'[t].pc \in {"register", "known"}
      <4>1. CASE FirstSignOk(t) \/ FirstSignFail(t) \/ Confirm(t) \/ Timeout(t) \/ Cleanup(t) \/ Panic(t) \/ Recover(t)
        BY <2>0, <3>2, <4>1 DEF ThreadRecords, FirstSignOk, FirstSignFail, Confirm, Timeout, Cleanup, Panic,
           DeferredCleanup, Recover
      <4>2. CASE Sign(t) \/ SignFail(t) \/ OutOfAttempts(t)
        BY <2>0, <3>2, <4>2 DEF ThreadRecords, Sign, SignFail, OutOfAttempts
      <4>3. CASE SendOk(t) \/ SendKnown(t) \/ SendTooLow(t) \/ SendError(t)
        BY <2>0, <3>2, <4>3 DEF ThreadRecords, SendOk, SendKnown, SendTooLow, SendError
      <4>4. CASE Register(t) \/ RegisterKnown(t) \/ Replace(t)
        BY <2>0, <3>2, <4>4 DEF ThreadRecords, Register, RegisterKnown, Replace
      <4>5. CASE Finish(t) \/ Launch(t)
        <5>1. th'[t] = IdleThread \/ th'[t] = [IdleThread EXCEPT !.pc = "start", !.p = w3.p]
          BY <2>0, <4>5 DEF Finish, Launch
        <5>2. IdleThread \in ThreadRecords
          BY BlankIsTyped DEF IdleThread, ThreadRecords
        <5>3. th'[t].acked = IdleThread.acked
          BY <5>1, <5>2 DEF ThreadRecords
        <5>4. ~ IdleThread.acked
          BY DEF IdleThread
        <5>5. QED
          BY <5>3, <5>4
      <4>6. QED
        BY <2>1, <4>1, <4>2, <4>3, <4>4, <4>5 DEF Broadcast
    <3>4. QED
      BY <3>1, <3>3 DEF AckInv
  <2>2. ASSUME UNCHANGED th PROVE AckInv'
    BY <2>2 DEF AckInv
  <2>3. CASE \E p \in Payloads : Submit(p)
    BY <2>2, <2>3 DEF Submit
  <2>4. CASE TakePayload \/ Acquire \/ DiscardPaused \/ StopWorker3 \/ Node \/ Refresh
    BY <2>2, <2>4 DEF TakePayload, Acquire, DiscardPaused, StopWorker3, Node, Mine, Drop, Refresh, SyncAsk, SyncRead, SyncFails, SyncStore, StopRefresh
  <2>5. CASE Monitor \/ Toggle \/ Cancel \/ Drained
    BY <2>2, <2>5 DEF Monitor, Snapshot, Lookup, MonitorConfirm, Toggle, Cancel, Drained, GotoMain
  <2>6. CASE UNCHANGED vars
    BY <2>2, <2>6 DEF vars
  <2>7. QED
    BY <2>1, <2>3, <2>4, <2>5, <2>6 DEF Next, SenderNext, Operations
<1>3. QED
  BY <1>1, <1>2, DataTyped, PTL DEF Spec

\* A broadcast gives its nonce back only if the node acknowledged nothing it sent,
\* however it ends (sender.go:378-399).
THEOREM RollbackIsSafe == Spec => NoRollbackAfterAck
<1>1. DataTypes /\ AckInv /\ [Next]_vars =>
         [\A t \in Threads :
             /\ th[t].pc \in {"fail", "stuck"} /\ th'[t].pc \in {"finish", "panicked"}
             /\ th[t].acked
             => counter' = counter]_vars
  <2> SUFFICES ASSUME DataTypes, AckInv, [Next]_vars, NEW t \in Threads, th[t].acked,
                      th[t].pc \in {"fail", "stuck"}, th'[t].pc \in {"finish", "panicked"}
               PROVE  counter' = counter
    OBVIOUS
  <2>0. th \in [Threads -> ThreadRecords] /\ th' # th
    BY DEF DataTypes, ThreadTypes
  <2>1. th[t].sent
    BY DEF AckInv
  <2>2. CASE \E u \in Threads : Broadcast(u)
    <3>1. PICK u \in Threads : Broadcast(u)
      BY <2>2
    <3>2. CASE u # t
      <4>1. th'[t] = th[t]
        BY <2>0, <3>1, <3>2 DEF Broadcast, FirstSignOk, FirstSignFail, Sign, SignFail, OutOfAttempts, SendOk,
           SendKnown, SendTooLow, SendError, Register, RegisterKnown, Confirm, Timeout, Replace, Cleanup, Panic, DeferredCleanup, Recover, Finish
      <4>2. QED
        BY <4>1
    <3>3. CASE u = t
      <4>0. th[t] \in ThreadRecords
        BY <2>0
      <4>a. ~ (FirstSignOk(t) \/ FirstSignFail(t) \/ Sign(t) \/ SignFail(t) \/ OutOfAttempts(t))
        BY DEF FirstSignOk, FirstSignFail, Sign, SignFail, OutOfAttempts
      <4>b. ~ (SendOk(t) \/ SendKnown(t) \/ SendTooLow(t) \/ SendError(t))
        BY DEF SendOk, SendKnown, SendTooLow, SendError
      <4>c. ~ (Register(t) \/ RegisterKnown(t) \/ Confirm(t) \/ Timeout(t) \/ Recover(t) \/ Finish(t))
        BY DEF Register, RegisterKnown, Confirm, Timeout, Recover, Finish
      <4>d. ~ Replace(t)
        <5>1. SUFFICES ASSUME Replace(t) PROVE FALSE
          OBVIOUS
        <5>2. th' = [th EXCEPT ![t] = [th[t] EXCEPT !.pc = "top", !.attempt = @ + 1]]
          BY <5>1 DEF Replace
        <5>3. th'[t].pc = "top"
          BY <2>0, <4>0, <5>2 DEF ThreadRecords
        <5>4. QED
          BY <5>3
      <4>1. Cleanup(t) \/ Panic(t)
        BY <3>1, <3>3, <4>a, <4>b, <4>c, <4>d DEF Broadcast
      <4>2. QED
        BY <2>1, <4>1 DEF Cleanup, Panic, DeferredCleanup
    <3>4. QED
      BY <3>2, <3>3
  <2>3. CASE \E u \in Threads : Launch(u)
    <3>1. PICK u \in Threads : th[u].pc = "idle" /\ \E r : th' = [th EXCEPT ![u] = r]
      BY <2>3 DEF Launch
    <3>2. th'[t] = th[t]
      BY <2>0, <3>1
    <3>3. QED
      BY <3>2
  <2>4. CASE ~ \E u \in Threads : Broadcast(u) \/ Launch(u)
    <3>1. UNCHANGED th
      <4>1. CASE \E p \in Payloads : Submit(p)
        BY <4>1 DEF Submit
      <4>2. CASE TakePayload \/ Acquire \/ DiscardPaused \/ StopWorker3 \/ Node \/ Refresh
        BY <4>2 DEF TakePayload, Acquire, DiscardPaused, StopWorker3, Node, Mine, Drop, Refresh, SyncAsk, SyncRead, SyncFails, SyncStore, StopRefresh
      <4>3. CASE Monitor \/ Toggle \/ Cancel \/ Drained
        BY <4>3 DEF Monitor, Snapshot, Lookup, MonitorConfirm, Toggle, Cancel, Drained, GotoMain
      <4>4. CASE UNCHANGED vars
        BY <4>4 DEF vars
      <4>5. QED
        BY <2>4, <4>1, <4>2, <4>3, <4>4 DEF Next, SenderNext, Operations
    <3>2. QED
      BY <2>0, <3>1
  <2>5. QED
    BY <2>2, <2>3, <2>4
<1>2. QED
  BY <1>1, Acknowledged, DataTyped, PTL DEF Spec, NoRollbackAfterAck
============================================================================
