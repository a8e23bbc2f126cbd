------------------------------ MODULE Discovery ------------------------------
(* The pools the bot knows: State/matrix.go, registered by the workers of   *)
(* Gatekeeper/gatekeeper.go, touched and cleared by worker1 of main.go.     *)
(* A pool is registered after several RPCs; its tick data is fetched before *)
(* that, and again by a loop.                                               *)
EXTENDS Naturals, Sequences

CONSTANTS
    V3Pools,        \* addresses of concentrated-liquidity pools
    V2Pools,        \* addresses of constant-product pools
    Workers,        \* gatekeeper goroutines
    MaxPools,       \* capacity of the matrix
    QueueCap,       \* capacity of candidateQueue
    MaxClears       \* bound: reorgs worker1 notices

Pools == V3Pools \cup V2Pools

ASSUME DiscoveryAssumption ==
    MaxPools \in Nat \ {0} /\ QueueCap \in Nat \ {0} /\ MaxClears \in Nat

VARIABLES
    order,          \* keys of m.pools by LastUpdated, oldest first
    index,          \* how many objects of a pool are in m.tokenPairToPools
    stats,          \* keys of m.poolStats
    ticks,          \* tick data of each pool in the matrix: none, empty or a bitmap
    queue,          \* candidateQueue
    gk,             \* locals of each gatekeeper worker
    age,            \* poolTickRefresh against the head: never, recent or old
    loop,           \* the refresh loop: the pools to do, the one in hand
    seeder,         \* seedMatrixFromRecentBlocks, run by main and then by worker1
    clears          \* number of Clears

matrix == <<order, index, stats>>
vars == <<order, index, stats, ticks, queue, gk, age, loop, seeder, clears>>
-----------------------------------------------------------------------------
Known == {order[i] : i \in DOMAIN order}

Free == [pc |-> "idle", pool |-> "none"]

Init ==
    /\ order = <<>> /\ stats = {}
    /\ index = [p \in Pools |-> 0]
    /\ ticks = [p \in Pools |-> "none"]
    /\ queue = <<>>
    /\ gk = [w \in Workers |-> Free]
    /\ age = [p \in Pools |-> "never"]
    /\ loop = [todo |-> {}, hand |-> {}]
    /\ seeder = [pc |-> "fetch", found |-> {}]
    /\ clears = 0
-----------------------------------------------------------------------------
\* seedMatrixFromRecentBlocks asks for the logs of the last blocks; an RPC error
\* finds nothing.
SeedFetch ==
    /\ seeder.pc = "fetch"
    /\ \E S \in SUBSET Pools : seeder' = [pc |-> "offer", found |-> S]
    /\ UNCHANGED <<matrix, ticks, queue, gk, age, loop, clears>>

\* Faulty variant: the queue has no limit.
SeedOfferAny(p) ==
    /\ seeder.pc = "offer" /\ p \in seeder.found
    /\ queue' = Append(queue, p)
    /\ seeder' = [seeder EXCEPT !.found = @ \ {p}]
    /\ UNCHANGED <<matrix, ticks, gk, age, loop, clears>>

\* ProcessLog for each pool found: queued, or dropped when the queue is full.  No
\* pool is on the blacklist, which holds tokens only.
SeedOffer(p) ==
    /\ seeder.pc = "offer" /\ p \in seeder.found
    /\ queue' = IF Len(queue) < QueueCap THEN Append(queue, p) ELSE queue
    /\ seeder' = [seeder EXCEPT !.found = @ \ {p}]
    /\ UNCHANGED <<matrix, ticks, gk, age, loop, clears>>

SeedDone ==
    /\ seeder.pc = "offer" /\ seeder.found = {}
    /\ seeder' = [seeder EXCEPT !.pc = "watch"]
    /\ UNCHANGED <<matrix, ticks, queue, gk, age, loop, clears>>

\* worker1 sees a reorg: the matrix is cleared and seeded again.  poolTickRefresh
\* and the queue are left as they are.
Clear ==
    /\ seeder.pc = "watch" /\ clears < MaxClears
    /\ clears' = clears + 1
    /\ order' = <<>> /\ stats' = {}
    /\ index' = [p \in Pools |-> 0]
    /\ ticks' = [p \in Pools |-> "none"]
    /\ seeder' = [pc |-> "fetch", found |-> {}]
    /\ UNCHANGED <<queue, gk, age, loop>>

\* worker1 applies a swap to the pool at place i, which becomes the newest.
Swap(i) ==
    /\ seeder.pc = "watch" /\ i \in DOMAIN order
    /\ order' = [j \in DOMAIN order |->
                    IF j < i THEN order[j]
                    ELSE IF j < Len(order) THEN order[j + 1] ELSE order[i]]
    /\ UNCHANGED <<index, stats, ticks, queue, gk, age, loop, seeder, clears>>
-----------------------------------------------------------------------------
Take(w) ==
    /\ gk[w].pc = "idle" /\ queue # <<>>
    /\ queue' = Tail(queue)
    /\ gk' = [gk EXCEPT ![w] = [pc |-> "check", pool |-> Head(queue)]]
    /\ UNCHANGED <<matrix, ticks, age, loop, seeder, clears>>

\* registerPoolBatch does nothing for a pool that is registered already.
CheckKnown(w) ==
    /\ gk[w].pc = "check" /\ gk[w].pool \in Known
    /\ gk' = [gk EXCEPT ![w] = Free]
    /\ UNCHANGED <<matrix, ticks, queue, age, loop, seeder, clears>>

CheckUnknown(w) ==
    /\ gk[w].pc = "check" /\ gk[w].pool \notin Known
    /\ gk' = [gk EXCEPT ![w] = [@ EXCEPT !.pc = "read"]]
    /\ UNCHANGED <<matrix, ticks, queue, age, loop, seeder, clears>>

\* The multicall reads the pool's tokens, price and reserves, or fails.
ReadPool(w) ==
    /\ gk[w].pc = "read"
    /\ gk' = [gk EXCEPT ![w] =
                [@ EXCEPT !.pc = IF gk[w].pool \in V3Pools THEN "ticks" ELSE "register"]]
    /\ UNCHANGED <<matrix, ticks, queue, age, loop, seeder, clears>>

ReadFails(w) ==
    /\ gk[w].pc = "read"
    /\ gk' = [gk EXCEPT ![w] = Free]
    /\ UNCHANGED <<matrix, ticks, queue, age, loop, seeder, clears>>

\* SetPoolTickData with what was fetched: the words of the tick bitmap, or nothing
\* after RPC errors.  LiquidityNet is empty every time, because ticksABI.Pack refuses
\* an int32 for an int24.  A pool that is not in the matrix is passed over.
TickData(p, data) == IF p \in Known THEN [ticks EXCEPT ![p] = data] ELSE ticks

\* fetchV3TickDataSync before the registration, dated with the candidate's block.
FetchTicks(w, data, date) ==
    /\ gk[w].pc = "ticks"
    /\ ticks' = TickData(gk[w].pool, data)
    /\ age' = [age EXCEPT ![gk[w].pool] = date]
    /\ gk' = [gk EXCEPT ![w] = [@ EXCEPT !.pc = "register"]]
    /\ UNCHANGED <<matrix, queue, loop, seeder, clears>>

\* Faulty variant: RegisterPool trusts the check its caller made before the RPCs.
RegisterKnownAgain(w) ==
    /\ gk[w].pc = "register" /\ gk[w].pool \in Known
    /\ index' = [index EXCEPT ![gk[w].pool] = @ + 1]
    /\ gk' = [gk EXCEPT ![w] = Free]
    /\ UNCHANGED <<order, stats, ticks, queue, age, loop, seeder, clears>>

\* RegisterPool under the lock: somebody else has registered the pool meanwhile.
RegisterKnown(w) ==
    /\ gk[w].pc = "register" /\ gk[w].pool \in Known
    /\ gk' = [gk EXCEPT ![w] = Free]
    /\ UNCHANGED <<matrix, ticks, queue, age, loop, seeder, clears>>

\* RegisterPool: the pool is the newest; beyond MaxPools the oldest is evicted.
Register(w) ==
    LET p == gk[w].pool
        evicted == IF Len(order) + 1 > MaxPools THEN {Head(Append(order, p))} ELSE {}
    IN  /\ gk[w].pc = "register" /\ p \notin Known
        /\ order' = IF evicted # {} THEN Tail(Append(order, p)) ELSE Append(order, p)
        /\ stats' = (stats \cup {p}) \ evicted
        /\ index' = [q \in Pools |-> IF q \in evicted THEN 0
                                     ELSE IF q = p THEN index[q] + 1 ELSE index[q]]
        /\ ticks' = [q \in Pools |-> IF q \in evicted \cup {p} THEN "none" ELSE ticks[q]]
        /\ gk' = [gk EXCEPT ![w] = Free]
        /\ UNCHANGED <<queue, age, loop, seeder, clears>>

Worker(w) ==
    \/ Take(w) \/ CheckKnown(w) \/ CheckUnknown(w) \/ ReadPool(w) \/ ReadFails(w)
    \/ \E data \in {"empty", "bitmap"}, date \in {"recent", "old"} : FetchTicks(w, data, date)
    \/ RegisterKnown(w) \/ Register(w)
-----------------------------------------------------------------------------
\* Faulty variant: only what was never refreshed is collected.
LoopCollectNever ==
    /\ loop = [todo |-> {}, hand |-> {}]
    /\ loop' = [loop EXCEPT !.todo = {p \in V3Pools \cap Known : age[p] = "never"}]
    /\ UNCHANGED <<matrix, ticks, queue, gk, age, seeder, clears>>

\* The ticker of ten minutes: the pools whose tick data was never fetched, or more
\* than 100 blocks ago.
LoopCollect ==
    /\ loop = [todo |-> {}, hand |-> {}]
    /\ loop' = [loop EXCEPT !.todo = {p \in V3Pools \cap Known : age[p] # "recent"}]
    /\ UNCHANGED <<matrix, ticks, queue, gk, age, seeder, clears>>

\* GetPool before each refresh: the pool may have gone.
LoopSkip(p) ==
    /\ loop.hand = {} /\ p \in loop.todo \ Known
    /\ loop' = [loop EXCEPT !.todo = @ \ {p}]
    /\ UNCHANGED <<matrix, ticks, queue, gk, age, seeder, clears>>

LoopStart(p) ==
    /\ loop.hand = {} /\ p \in loop.todo \cap Known
    /\ loop' = [todo |-> loop.todo \ {p}, hand |-> {p}]
    /\ UNCHANGED <<matrix, ticks, queue, gk, age, seeder, clears>>

\* fetchV3TickDataSync dated with the block at which the round began.
LoopFetch(p, data, date) ==
    /\ p \in loop.hand
    /\ ticks' = TickData(p, data)
    /\ age' = [age EXCEPT ![p] = date]
    /\ loop' = [loop EXCEPT !.hand = {}]
    /\ UNCHANGED <<matrix, queue, gk, seeder, clears>>

\* A hundred blocks pass.
BlocksPass ==
    /\ age' = [p \in Pools |-> IF age[p] = "recent" THEN "old" ELSE age[p]]
    /\ age' # age
    /\ UNCHANGED <<matrix, ticks, queue, gk, loop, seeder, clears>>

RefreshOf(p) ==
    \/ LoopSkip(p) \/ LoopStart(p)
    \/ \E data \in {"empty", "bitmap"}, date \in {"recent", "old"} : LoopFetch(p, data, date)

Next ==
    \/ SeedFetch \/ SeedDone \/ Clear
    \/ \E p \in Pools : SeedOffer(p)
    \/ \E i \in DOMAIN order : Swap(i)
    \/ \E w \in Workers : Worker(w)
    \/ LoopCollect
    \/ \E p \in V3Pools : RefreshOf(p)
    \/ BlocksPass

Spec == Init /\ [][Next]_vars

\* The refresh loop runs, the chain grows, and the node answers now and then.
FairSpec ==
    /\ Spec
    /\ WF_vars(LoopCollect)
    /\ WF_vars(BlocksPass)
    /\ \A p \in V3Pools : /\ WF_vars(RefreshOf(p))
                          /\ SF_vars(\E date \in {"recent", "old"} : LoopFetch(p, "bitmap", date))
-----------------------------------------------------------------------------
MatrixTypes == order \in Seq(Pools) /\ stats \subseteq Pools /\ index \in [Pools -> Nat]

TickTypes ==
    /\ ticks \in [Pools -> {"none", "empty", "bitmap"}]
    /\ age \in [Pools -> {"never", "recent", "old"}]
    /\ loop \in [todo : SUBSET V3Pools, hand : SUBSET V3Pools]

QueueTypes == queue \in Seq(Pools) /\ Len(queue) <= QueueCap

WorkerTypes ==
    gk \in [Workers -> [pc : {"idle", "check", "read", "ticks", "register"},
                        pool : Pools \cup {"none"}]]

SeedTypes ==
    /\ seeder \in [pc : {"fetch", "offer", "watch"}, found : SUBSET Pools]
    /\ clears \in 0..MaxClears

TypeOK == MatrixTypes /\ TickTypes /\ QueueTypes /\ WorkerTypes /\ SeedTypes

\* The matrix holds at most MaxPools pools and its maps agree: a pool in it has one
\* object in the pair index and one entry in the statistics, any other has none,
\* although workers race to register and evict for each other (matrix.go:224-271).
MatrixConsistent ==
    /\ Len(order) <= MaxPools
    /\ \A i, j \in DOMAIN order : order[i] = order[j] => i = j
    /\ stats = Known
    /\ \A p \in Pools : index[p] = IF p \in Known THEN 1 ELSE 0

\* A V3 pool that stays gets its tick bitmap, however often it was registered without
\* and dated as if it had been fetched, and an empty one is replaced (gatekeeper.go:106-148).
BitmapsArrive ==
    \A p \in V3Pools : []<>(p \notin Known \/ ticks[p] = "bitmap")

=============================================================================
