---------------------------- MODULE TxPipeline ----------------------------
(* The life of a transaction: a producer takes a payload object from the    *)
(* pool and queues it, worker3 gives it a nonce and starts a broadcast      *)
(* goroutine under a semaphore, the goroutine signs, sends, waits, replaces *)
(* and cleans up (Sender.BroadcastWithRetry), the Sender's monitor confirms *)
(* on its own, a ticker copies the node's nonce, and main shuts down.       *)
(*                                                                          *)
(* Payload objects have identity: a goroutine keeps a pointer and reads the *)
(* object's fields again at each attempt, whoever filled them last.         *)
EXTENDS Integers, Sequences, FiniteSets

CONSTANTS
    Payloads,       \* payload objects, pooled or not yet allocated
    Threads,        \* broadcast goroutines that may exist at a time
    SemCap,         \* capacity of broadcastSem (8 in main.go)
    ChanCap,        \* capacity of executionChan (64 in main.go)
    MaxAttempts,    \* Sender.maxAttempts
    FirstNonce,     \* the account's nonce at start
    MaxTrades,      \* bound: number of submissions
    Nobody,         \* no payload; also the monitor's name in credits
    LostReplies,    \* a send may reach the node although the reply is lost
    CallbackPanics  \* the solver or rebuild callback may panic

ASSUME PipelineAssumption ==
    /\ IsFiniteSet(Threads)
    /\ SemCap \in Nat \ {0}
    /\ ChanCap \in Nat
    /\ MaxAttempts \in Nat
    /\ FirstNonce \in Nat \ {0}
    /\ MaxTrades \in Nat
    /\ Nobody \notin Payloads \cup Threads
    /\ LostReplies \in BOOLEAN
    /\ CallbackPanics \in BOOLEAN

VARIABLES
    pool,       \* how many times each object lies in payloadPool
    fresh,      \* objects not allocated yet (sync.Pool's New)
    obj,        \* the fields of each payload object that the properties need
    trades,     \* submissions so far; submission i carries trade i
    chan,       \* executionChan
    running,    \* dashboard.BotRunning
    w3,         \* worker3: where it stands and the payload it holds
    sem,        \* tokens in broadcastSem
    th,         \* the broadcast goroutines
    counter,    \* NonceTracker.nonce
    synced,     \* the refresh ticker: its RPC's answer, or where it stands
    pending,    \* Sender.pending: at most one entry for a nonce
    mon,        \* the monitor's snapshot and the entry whose receipt it holds
    acct,       \* node: the account's nonce
    mempool,    \* node: transactions not mined yet, at most one for a nonce
    mined,      \* node: transactions with a receipt
    accepted,   \* history: transactions the node ever took
    credits,    \* history: who called confCallback for which transaction
    main        \* main: running, draining or drained

worker == <<chan, running, w3>>
chain == <<acct, mempool, mined, accepted>>
vars == <<pool, fresh, obj, trades, worker, sem, th, counter, synced,
          pending, mon, chain, credits, main>>
----------------------------------------------------------------------------
(* A payload's fields: the trade it was filled for (0 after Reset), its     *)
(* nonce (0: not assigned), and its version, which changes whenever the fee *)
(* is bumped or the calldata rebuilt.  A signed transaction is a copy of    *)
(* these fields; its hash is modelled by the copy itself.                   *)

Blank == [trade |-> 0, nonce |-> 0, ver |-> 0]

Txs == [trade : 0..MaxTrades, nonce : Nat, ver : Nat]

\* PendingTx: its nonce, its hash and the payload it points to.  Checked is
\* left out: only the monitor reads it, and never between its two writes.
Entries == [nonce : Nat, tx : Txs, p : Payloads]

IdleThread ==
    [pc |-> "idle", p |-> Nobody, nonce |-> 0, attempt |-> 0, sent |-> FALSE,
     tx |-> Blank, acked |-> FALSE]

ThreadRecords ==
    [pc : {"idle", "start", "top", "send", "register", "known", "wait", "stuck",
           "fail", "panicked", "finish"},
     p : Payloads \cup {Nobody}, nonce : Nat, attempt : Nat, sent : BOOLEAN,
     tx : Txs, acked : BOOLEAN]

\* A goroutine that exists: its token is taken and broadcastWg counts it.
Live == {t \in Threads : th[t].pc # "idle"}

\* A goroutine that still uses its payload: it has not cleaned up yet.
Busy == {t \in Threads : th[t].pc \notin {"idle", "finish"}}

\* Nil of the pointer fields above.
NoEntry == [nonce |-> 0, tx |-> Blank, p |-> Nobody]

\* The refresh ticker between two ticks, inside its RPC, and after its return.
Waiting == -1
Asking == -2
Returned == -3

Without(entries, n) == {e \in entries : e.nonce # n}

\* putPayload: Reset, then back to the pool.
PutPayload(p) ==
    /\ pool' = [pool EXCEPT ![p] = @ + 1]
    /\ obj' = [obj EXCEPT ![p] = Blank]

\* NonceTracker.Rollback, one step as module NonceTracker shows.
Back(c) == IF c = 0 THEN 0 ELSE c - 1

\* PendingNonceAt: past the mined transactions and the gapless pooled ones.
IsNodePendingNonce(n) ==
    /\ n >= acct
    /\ \A m \in acct..(n - 1) : \E tx \in mempool : tx.nonce = m
    /\ \A tx \in mempool : tx.nonce # n
----------------------------------------------------------------------------
Init ==
    /\ pool = [p \in Payloads |-> 0]
    /\ fresh = Payloads
    /\ obj = [p \in Payloads |-> Blank]
    /\ trades = 0
    /\ chan = <<>>
    /\ running = TRUE
    /\ w3 = [pc |-> "select", p |-> Nobody]
    /\ sem = 0
    /\ th = [t \in Threads |-> IdleThread]
    /\ counter = FirstNonce
    /\ synced = Waiting
    /\ pending = {}
    /\ mon = [todo |-> {}, hit |-> NoEntry]
    /\ acct = FirstNonce
    /\ mempool = {}
    /\ mined = {}
    /\ accepted = {}
    /\ credits = {}
    /\ main = "running"
----------------------------------------------------------------------------
(* The producer, Tracker.sendPayload: get an object, reset and fill it,     *)
(* queue it or, when the channel is full, put it back as it is.             *)

Submit(p) ==
    /\ trades < MaxTrades
    /\ p \in fresh \/ pool[p] > 0
    /\ trades' = trades + 1
    /\ fresh' = fresh \ {p}
    /\ obj' = [obj EXCEPT ![p] = [trade |-> trades + 1, nonce |-> 0, ver |-> 0]]
    /\ LET left == IF p \in fresh THEN 0 ELSE pool[p] - 1
       IN \/ /\ Len(chan) < ChanCap
             /\ chan' = Append(chan, p)
             /\ pool' = [pool EXCEPT ![p] = left]
          \/ /\ Len(chan) = ChanCap
             /\ pool' = [pool EXCEPT ![p] = left + 1]
             /\ UNCHANGED chan
    /\ UNCHANGED <<running, w3, sem, th, counter, synced, pending, mon, chain, credits, main>>
----------------------------------------------------------------------------
(* worker3.                                                                 *)

\* The bot is paused: the payload goes back.
DiscardPaused ==
    /\ w3.pc = "select" /\ chan # <<>> /\ ~ running
    /\ chan' = Tail(chan)
    /\ PutPayload(Head(chan))
    /\ UNCHANGED <<fresh, trades, running, w3, sem, th, counter, synced, pending, mon,
                   chain, credits, main>>

\* A payload without a nonce gets the next one; one that has a nonce keeps it.
TakePayload ==
    /\ w3.pc = "select" /\ chan # <<>> /\ running
    /\ chan' = Tail(chan)
    /\ w3' = [pc |-> "acquire", p |-> Head(chan)]
    /\ IF obj[Head(chan)].nonce = 0
       THEN /\ obj' = [obj EXCEPT ![Head(chan)].nonce = counter]
            /\ counter' = counter + 1
       ELSE UNCHANGED <<obj, counter>>
    /\ UNCHANGED <<pool, fresh, trades, running, sem, th, synced, pending, mon, chain,
                   credits, main>>

\* broadcastSem <- struct{}{}
Acquire ==
    /\ w3.pc = "acquire"
    /\ sem < SemCap
    /\ sem' = sem + 1
    /\ w3' = [w3 EXCEPT !.pc = "launch"]
    /\ UNCHANGED <<pool, fresh, obj, trades, chan, running, th, counter, synced, pending,
                   mon, chain, credits, main>>

\* broadcastWg.Add(1) and the go statement.
Launch(t) ==
    /\ w3.pc = "launch"
    /\ th[t].pc = "idle"
    /\ th' = [th EXCEPT ![t] = [IdleThread EXCEPT !.pc = "start", !.p = w3.p]]
    /\ w3' = [pc |-> "select", p |-> Nobody]
    /\ UNCHANGED <<pool, fresh, obj, trades, chan, running, sem, counter, synced, pending,
                   mon, chain, credits, main>>

\* Faulty variant: the select on executionChan has no ctx.Done() case.
StopWorker3OnlyInAcquire ==
    /\ main # "running"
    /\ w3.pc = "acquire"
    /\ PutPayload(w3.p)
    /\ w3' = [pc |-> "done", p |-> Nobody]
    /\ UNCHANGED <<fresh, trades, chan, running, sem, th, counter, synced, pending, mon,
                   chain, credits, main>>

\* ctx.Done() wins either select; a payload in hand goes back, its nonce does not.
StopWorker3 ==
    /\ main # "running"
    /\ \/ w3.pc = "select" /\ UNCHANGED <<pool, obj>>
       \/ w3.pc = "acquire" /\ PutPayload(w3.p)
    /\ w3' = [pc |-> "done", p |-> Nobody]
    /\ UNCHANGED <<fresh, trades, chan, running, sem, th, counter, synced, pending, mon,
                   chain, credits, main>>
----------------------------------------------------------------------------
(* A broadcast goroutine.                                                   *)

Local(t) == UNCHANGED <<fresh, trades, worker, synced, mon, main>>

\* The goroutine signs once before it calls BroadcastWithRetry.
FirstSignOk(t) ==
    /\ th[t].pc = "start"
    /\ th' = [th EXCEPT ![t].pc = "top"]
    /\ UNCHANGED <<pool, obj, sem, counter, pending, chain, credits>> /\ Local(t)

\* Faulty variants of the next action: no release of the payload, and a semaphore
\* release besides the deferred one.
FirstSignFailNoPut(t) ==
    /\ th[t].pc = "start"
    /\ counter' = IF obj[th[t].p].nonce > 0 THEN Back(counter) ELSE counter
    /\ th' = [th EXCEPT ![t].pc = "finish"]
    /\ UNCHANGED <<pool, obj, sem, pending, chain, credits>> /\ Local(t)

FirstSignFailReleases(t) ==
    /\ th[t].pc = "start"
    /\ counter' = IF obj[th[t].p].nonce > 0 THEN Back(counter) ELSE counter
    /\ PutPayload(th[t].p)
    /\ sem' = sem - 1
    /\ th' = [th EXCEPT ![t].pc = "finish"]
    /\ UNCHANGED <<pending, chain, credits>> /\ Local(t)

\* Signing failed: roll back, put, return.
FirstSignFail(t) ==
    /\ th[t].pc = "start"
    /\ counter' = IF obj[th[t].p].nonce > 0 THEN Back(counter) ELSE counter
    /\ PutPayload(th[t].p)
    /\ th' = [th EXCEPT ![t].pc = "finish"]
    /\ UNCHANGED <<sem, pending, chain, credits>> /\ Local(t)

\* BroadcastWithRetry remembers the payload's nonce when it is entered.
EntryNonce(t) == IF th[t].attempt = 0 THEN obj[th[t].p].nonce ELSE th[t].nonce

\* One round of the loop begins: the payload is signed as it stands now.
Sign(t) ==
    /\ th[t].pc = "top"
    /\ th[t].attempt < MaxAttempts
    /\ th' = [th EXCEPT ![t] = [@ EXCEPT !.pc = "send", !.tx = obj[th[t].p],
                                      !.nonce = EntryNonce(t)]]
    /\ UNCHANGED <<pool, obj, sem, counter, pending, chain, credits>> /\ Local(t)

\* No base fee, or no signature: next round.
SignFail(t) ==
    /\ th[t].pc = "top"
    /\ th[t].attempt < MaxAttempts
    /\ th' = [th EXCEPT ![t] = [@ EXCEPT !.attempt = th[t].attempt + 1,
                                      !.nonce = EntryNonce(t)]]
    /\ UNCHANGED <<pool, obj, sem, counter, pending, chain, credits>> /\ Local(t)

OutOfAttempts(t) ==
    /\ th[t].pc = "top"
    /\ th[t].attempt >= MaxAttempts
    /\ th' = [th EXCEPT ![t] = [@ EXCEPT !.pc = "fail", !.nonce = EntryNonce(t)]]
    /\ UNCHANGED <<pool, obj, sem, counter, pending, chain, credits>> /\ Local(t)

\* The node takes a transaction that is not behind the account; one that has
\* the nonce of a pooled one replaces it.
NodeTakes(tx) ==
    /\ tx.nonce >= acct
    /\ tx \notin mempool
    /\ mempool' = {x \in mempool : x.nonce # tx.nonce} \cup {tx}
    /\ accepted' = accepted \cup {tx}
    /\ UNCHANGED <<acct, mined>>

\* SendTransaction returns no error.
SendOk(t) ==
    /\ th[t].pc = "send"
    /\ NodeTakes(th[t].tx)
    /\ th' = [th EXCEPT ![t].pc = "register", ![t].acked = TRUE]
    /\ UNCHANGED <<pool, obj, sem, counter, pending, credits>> /\ Local(t)

\* The node has this very transaction: "already known".
SendKnown(t) ==
    /\ th[t].pc = "send"
    /\ th[t].tx \in mempool
    /\ th' = [th EXCEPT ![t].pc = "known"]
    /\ UNCHANGED <<pool, obj, sem, counter, pending, chain, credits>> /\ Local(t)

\* "nonce too low": no syncNonce callback is installed, so the loop is left.
SendTooLow(t) ==
    /\ th[t].pc = "send"
    /\ th[t].tx.nonce < acct
    /\ th' = [th EXCEPT ![t].pc = "fail"]
    /\ UNCHANGED <<pool, obj, sem, counter, pending, chain, credits>> /\ Local(t)

\* Any other error: next round.  The node has nothing new, or, when the reply
\* was lost, it has taken the transaction all the same.
SendError(t) ==
    /\ th[t].pc = "send"
    /\ UNCHANGED chain \/ (LostReplies /\ NodeTakes(th[t].tx))
    /\ th' = [th EXCEPT ![t].pc = "top", ![t].attempt = @ + 1]
    /\ UNCHANGED <<pool, obj, sem, counter, pending, credits>> /\ Local(t)

EntryOf(t) == [nonce |-> th[t].tx.nonce, tx |-> th[t].tx, p |-> th[t].p]

\* BroadcastRawTransactionBytes registers what it sent under pendingMu.
Register(t) ==
    /\ th[t].pc = "register"
    /\ pending' = Without(pending, th[t].tx.nonce) \cup {EntryOf(t)}
    /\ th' = [th EXCEPT ![t].pc = "wait", ![t].sent = TRUE]
    /\ UNCHANGED <<pool, obj, sem, counter, chain, credits>> /\ Local(t)

\* For a known transaction an entry that is there is kept.
RegisterKnown(t) ==
    /\ th[t].pc = "known"
    /\ pending' = IF \E e \in pending : e.nonce = th[t].tx.nonce
                  THEN pending ELSE pending \cup {EntryOf(t)}
    /\ th' = [th EXCEPT ![t].pc = "wait", ![t].sent = TRUE]
    /\ UNCHANGED <<pool, obj, sem, counter, chain, credits>> /\ Local(t)

\* The receipt of the latest hash is there: forget the entry, credit, put.
Confirm(t) ==
    /\ th[t].pc = "wait"
    /\ th[t].tx \in mined
    /\ pending' = Without(pending, th[t].nonce)
    /\ credits' = credits \cup {<<th[t].tx, t>>}
    /\ PutPayload(th[t].p)
    /\ th' = [th EXCEPT ![t].pc = "finish"]
    /\ UNCHANGED <<sem, counter, chain>> /\ Local(t)

\* confirmTimeout passes: receipts may lag or lookups fail.
Timeout(t) ==
    /\ th[t].pc = "wait"
    /\ th' = [th EXCEPT ![t].pc = "stuck"]
    /\ UNCHANGED <<pool, obj, sem, counter, pending, chain, credits>> /\ Local(t)

\* Faulty variant: the replacement takes a nonce of its own.
ReplaceFreshNonce(t) ==
    /\ th[t].pc = "stuck"
    /\ obj' = [obj EXCEPT ![th[t].p].ver = @ + 1, ![th[t].p].nonce = counter]
    /\ counter' = counter + 1
    /\ th' = [th EXCEPT ![t].pc = "top", ![t].attempt = @ + 1]
    /\ UNCHANGED <<pool, sem, pending, chain, credits>> /\ Local(t)

\* The payload is rebuilt for another route, or its fees are bumped.
Replace(t) ==
    /\ th[t].pc = "stuck"
    /\ obj' = [obj EXCEPT ![th[t].p].ver = @ + 1]
    /\ th' = [th EXCEPT ![t].pc = "top", ![t].attempt = @ + 1]
    /\ UNCHANGED <<pool, sem, counter, pending, chain, credits>> /\ Local(t)

\* BroadcastWithRetry's deferred cleanup, for a return without success or a panic.
DeferredCleanup(t, next) ==
    /\ pending' = Without(pending, th[t].nonce)
    /\ counter' = IF th[t].sent THEN counter ELSE Back(counter)
    /\ PutPayload(th[t].p)
    /\ th' = [th EXCEPT ![t].pc = next]
    /\ UNCHANGED <<sem, chain, credits>> /\ Local(t)

\* Faulty variant: the cleanup does not ask whether anything was sent.
CleanupAlwaysRollsBack(t) ==
    /\ th[t].pc = "fail"
    /\ pending' = Without(pending, th[t].nonce)
    /\ counter' = Back(counter)
    /\ PutPayload(th[t].p)
    /\ th' = [th EXCEPT ![t].pc = "finish"]
    /\ UNCHANGED <<sem, chain, credits>> /\ Local(t)

\* BroadcastWithRetry returns an error.
Cleanup(t) == th[t].pc = "fail" /\ DeferredCleanup(t, "finish")

\* The solver or rebuild callback panics: on the way up the cleanup of
\* BroadcastWithRetry runs first.
Panic(t) == CallbackPanics /\ th[t].pc = "stuck" /\ DeferredCleanup(t, "panicked")

\* Then the recover of worker3's goroutine looks at the payload, whoever has it by
\* now, rolls back if it bears a nonce and puts it a second time.
Recover(t) ==
    /\ th[t].pc = "panicked"
    /\ counter' = IF obj[th[t].p].nonce > 0 THEN Back(counter) ELSE counter
    /\ PutPayload(th[t].p)
    /\ th' = [th EXCEPT ![t].pc = "finish"]
    /\ UNCHANGED <<sem, pending, chain, credits>> /\ Local(t)

\* <-broadcastSem and broadcastWg.Done()
Finish(t) ==
    /\ th[t].pc = "finish"
    /\ sem' = sem - 1
    /\ th' = [th EXCEPT ![t] = IdleThread]
    /\ UNCHANGED <<pool, obj, counter, pending, chain, credits>> /\ Local(t)

Broadcast(t) ==
    \/ FirstSignOk(t) \/ FirstSignFail(t)
    \/ Sign(t) \/ SignFail(t) \/ OutOfAttempts(t)
    \/ SendOk(t) \/ SendKnown(t) \/ SendTooLow(t) \/ SendError(t)
    \/ Register(t) \/ RegisterKnown(t)
    \/ Confirm(t) \/ Timeout(t) \/ Replace(t) \/ Cleanup(t)
    \/ Panic(t) \/ Recover(t) \/ Finish(t)
----------------------------------------------------------------------------
(* Sender.checkPendingConfirmations, every 500 ms in its own goroutine.     *)

Snapshot ==
    /\ mon.todo = {} /\ mon.hit = NoEntry
    /\ pending # {}
    /\ mon' = [mon EXCEPT !.todo = pending]
    /\ UNCHANGED <<pool, fresh, obj, trades, worker, sem, th, counter, synced, pending,
                   chain, credits, main>>

\* Faulty variant: a lookup that fails is taken for a receipt.
LookupIgnoresError(e) ==
    /\ mon.hit = NoEntry
    /\ e \in mon.todo
    /\ mon' = [todo |-> mon.todo \ {e}, hit |-> e]
    /\ UNCHANGED <<pool, fresh, obj, trades, worker, sem, th, counter, synced, pending,
                   chain, credits, main>>

\* The receipt of one entry of the snapshot is looked up.
Lookup(e) ==
    /\ mon.hit = NoEntry
    /\ e \in mon.todo
    /\ \/ mon' = [mon EXCEPT !.todo = @ \ {e}]
       \/ e.tx \in mined /\ mon' = [todo |-> mon.todo \ {e}, hit |-> e]
    /\ UNCHANGED <<pool, fresh, obj, trades, worker, sem, th, counter, synced, pending,
                   chain, credits, main>>

\* The receipt is there: forget the nonce, credit, put.
MonitorConfirm ==
    /\ mon.hit # NoEntry
    /\ pending' = Without(pending, mon.hit.nonce)
    /\ credits' = credits \cup {<<mon.hit.tx, Nobody>>}
    /\ PutPayload(mon.hit.p)
    /\ mon' = [mon EXCEPT !.hit = NoEntry]
    /\ UNCHANGED <<fresh, trades, worker, sem, th, counter, synced, chain, main>>

Monitor == Snapshot \/ (\E e \in mon.todo : Lookup(e)) \/ MonitorConfirm
----------------------------------------------------------------------------
(* The nonce refresh ticker: SyncFromNode asks the node, then stores.  After *)
(* the signal a tick that is due may still win the select.                  *)

SyncAsk ==
    /\ synced = Waiting
    /\ synced' = Asking
    /\ UNCHANGED <<pool, fresh, obj, trades, worker, sem, th, counter, pending, mon, chain,
                   credits, main>>

\* Faulty variant: the nonce at the latest block, not the pending one.
SyncReadLatest ==
    /\ synced = Asking
    /\ synced' = acct
    /\ UNCHANGED <<pool, fresh, obj, trades, worker, sem, th, counter, pending, mon, chain,
                   credits, main>>

\* The node answers.
SyncRead ==
    /\ synced = Asking
    /\ \E n \in {acct} \cup {tx.nonce + 1 : tx \in mempool} :
          IsNodePendingNonce(n) /\ synced' = n
    /\ UNCHANGED <<pool, fresh, obj, trades, worker, sem, th, counter, pending, mon, chain,
                   credits, main>>

\* The RPC fails: nothing is stored, the next tick tries again.
SyncFails ==
    /\ synced = Asking
    /\ synced' = Waiting
    /\ UNCHANGED <<pool, fresh, obj, trades, worker, sem, th, counter, pending, mon, chain,
                   credits, main>>

SyncStore ==
    /\ synced \in Nat
    /\ counter' = synced
    /\ synced' = Waiting
    /\ UNCHANGED <<pool, fresh, obj, trades, worker, sem, th, pending, mon, chain, credits,
                   main>>

\* ctx.Done() wins the ticker's select.
StopRefresh ==
    /\ synced = Waiting /\ main # "running"
    /\ synced' = Returned
    /\ UNCHANGED <<pool, fresh, obj, trades, worker, sem, th, counter, pending, mon, chain,
                   credits, main>>

Refresh == SyncAsk \/ SyncRead \/ SyncFails \/ SyncStore \/ StopRefresh
----------------------------------------------------------------------------
(* The node: transactions are mined in nonce order, and may be dropped.     *)

Mine(tx) ==
    /\ tx \in mempool /\ tx.nonce = acct
    /\ mempool' = mempool \ {tx}
    /\ mined' = mined \cup {tx}
    /\ acct' = acct + 1
    /\ UNCHANGED <<pool, fresh, obj, trades, worker, sem, th, counter, synced, pending, mon,
                   accepted, credits, main>>

Drop(tx) ==
    /\ tx \in mempool
    /\ mempool' = mempool \ {tx}
    /\ UNCHANGED <<pool, fresh, obj, trades, worker, sem, th, counter, synced, pending, mon,
                   acct, mined, accepted, credits, main>>

Node == \E tx \in mempool : Mine(tx) \/ Drop(tx)
----------------------------------------------------------------------------
(* The dashboard's switch, and main's way out.  The process ends some time  *)
(* after "drained", when the workers are gone or five seconds have passed;  *)
(* what it might have done until then is what the model lets it do.         *)

Toggle ==
    /\ running' = ~ running
    /\ UNCHANGED <<pool, fresh, obj, trades, chan, w3, sem, th, counter, synced, pending,
                   mon, chain, credits, main>>

GotoMain(from, to) ==
    /\ main = from
    /\ main' = to
    /\ UNCHANGED <<pool, fresh, obj, trades, worker, sem, th, counter, synced, pending, mon,
                   chain, credits>>

Cancel == GotoMain("running", "draining")

\* broadcastWg.Wait() returns.
Drained == Live = {} /\ GotoMain("draining", "drained")
----------------------------------------------------------------------------
\* The sending side alone: what BroadcastWithRetry and worker3 do by themselves.
SenderNext ==
    \/ \E p \in Payloads : Submit(p)
    \/ TakePayload \/ Acquire
    \/ \E t \in Threads : Launch(t) \/ Broadcast(t)
    \/ Node

\* What the operator and the clock add: pauses, shutdown, the nonce refresh.
Operations == DiscardPaused \/ StopWorker3 \/ Refresh \/ Toggle \/ Cancel \/ Drained

Next == SenderNext \/ Monitor \/ Operations

MonitorSpec == Init /\ [][SenderNext \/ Monitor]_vars

OperatorSpec == Init /\ [][SenderNext \/ Operations]_vars

Spec == Init /\ [][Next]_vars

\* Goroutines that can run do, and RPCs answer or fail; a select with two ready
\* cases takes either in the long run.  Nothing is asked of the node or of the
\* operator: no call need ever succeed, no transaction ever be mined.
Fairness ==
    /\ \A t \in Threads : WF_vars(Broadcast(t)) /\ WF_vars(Launch(t))
    /\ WF_vars(TakePayload \/ DiscardPaused)
    /\ WF_vars(Acquire)
    /\ SF_vars(StopWorker3)
    /\ WF_vars(Drained)
    /\ WF_vars(Refresh)

FairOperatorSpec == OperatorSpec /\ Fairness
----------------------------------------------------------------------------
\* Every variable holds a value of its kind.
TypeOK ==
    /\ pool \in [Payloads -> Nat]
    /\ fresh \subseteq Payloads
    /\ obj \in [Payloads -> Txs]
    /\ trades \in 0..MaxTrades
    /\ chan \in Seq(Payloads)
    /\ running \in BOOLEAN
    /\ w3 \in [pc : {"select", "acquire", "launch", "done"}, p : Payloads \cup {Nobody}]
    /\ sem \in 0..SemCap
    /\ th \in [Threads -> ThreadRecords]
    /\ counter \in Nat
    /\ synced \in Nat \cup {Waiting, Asking, Returned}
    /\ pending \subseteq Entries
    /\ mon \in [todo : SUBSET Entries, hit : Entries \cup {NoEntry}]
    /\ acct \in Nat
    /\ mempool \subseteq Txs
    /\ mined \subseteq Txs
    /\ accepted \subseteq Txs
    /\ credits \subseteq Txs \X (Threads \cup {Nobody})
    /\ main \in {"running", "draining", "drained"}

\* However many goroutines are started and whichever way each of them ends, no
\* more than SemCap broadcasts exist at a time (main.go:690, 1316, 1335), and the
\* tokens are theirs: none is lost on an error path, none is returned twice.
BoundedBroadcasts ==
    /\ Cardinality(Live) <= SemCap
    /\ sem = Cardinality(Live) + (IF w3.pc = "launch" THEN 1 ELSE 0)

\* No trade is executed twice.  A payload is signed again at every attempt and a
\* failed nonce is handed out again, yet all that ever reaches the node for one
\* trade has one nonce, so at most one of its transactions is mined.
TradeMinedOnce ==
    /\ \A x, y \in accepted : (x.trade = y.trade /\ x.trade # 0) => x.nonce = y.nonce
    /\ \A x, y \in mined : (x.trade = y.trade /\ x.trade # 0) => x = y

\* Profit is credited, by the broadcast or by the monitor, only for a transaction
\* that was mined, and Sender.pending tracks only what the node has taken, under
\* the nonce it was sent with (sender.go:355-363, 489-499, 585-601).
CreditedWasMined ==
    /\ \A c \in credits : c[1] \in mined
    /\ \A e \in pending : e.tx \in accepted /\ e.nonce = e.tx.nonce

\* "It is the sole owner of the transaction lifecycle" (sender.go:368): a payload
\* object lies in the pool once, or waits in the channel, or is in worker3's hand,
\* or belongs to one broadcast.  The monitor, which every Sender starts, breaks it.
SoleOwner ==
    \A p \in Payloads :
        pool[p] + Cardinality({i \in DOMAIN chan : chan[i] = p})
                + Cardinality({t \in Busy : th[t].p = p})
                + (IF w3.p = p THEN 1 ELSE 0)
        = IF p \in fresh THEN 0 ELSE 1

\* However often an object is released, it is never lost: at every moment it lies
\* in the pool, waits in the channel, is in worker3's hand, or some goroutine still
\* has it and will release it (main.go:1293, 1320, 1347, sender.go:397, 600).
NothingLeaks ==
    \A p \in Payloads \ fresh :
        \/ pool[p] > 0
        \/ p = w3.p
        \/ \E i \in DOMAIN chan : chan[i] = p
        \/ \E t \in Busy : th[t].p = p

\* A broadcast gives its nonce back to the tracker only if the node acknowledged
\* nothing it sent, at whichever attempt (sender.go:386-388).  What the node took
\* with the reply lost is another matter: TradeMinedOnce is about that too.
NoRollbackAfterAck ==
    [][\A t \in Threads :
        /\ th[t].pc \in {"fail", "stuck"} /\ th'[t].pc \in {"finish", "panicked"}
        /\ th[t].acked
        => counter' = counter]_vars

\* Every payload taken from the pool comes back to it while the bot runs: each
\* way a broadcast ends, and each early return of worker3, releases it.
PayloadReturns ==
    \A p \in Payloads :
        (p \notin fresh /\ pool[p] = 0) ~> (pool[p] > 0 \/ main # "running")

\* After the signal worker3 stops and main gets past its wait for the broadcasts
\* (main.go:703-711), with the node silent and every broadcast out of attempts.
ShutdownCompletes == (main # "running") ~> (main = "drained" /\ w3.pc = "done")

\* Whatever failed sends, rollbacks, lost nonces and refreshes that were overtaken
\* did to the counter: once the traffic is over, if the bot goes on running and the
\* node answers again and again, the ticker brings it to the node's (main.go:176-190).
RefreshHeals ==
    [](main = "running") /\ []<>(synced \in Nat) => <>[]IsNodePendingNonce(counter)
============================================================================
