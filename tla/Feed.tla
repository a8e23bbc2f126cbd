---------------------------------- MODULE Feed ----------------------------------
(* The swap feed: the chain pushes logs, StartWebSocketReader and readLoop     *)
(* (Ingestion/websocket.go) parse them into pooled SwapLogs, worker1 (main.go) *)
(* looks for reorgs and applies them to the pools of State/matrix.go, which    *)
(* the gatekeeper registers from what it has read meanwhile.                   *)
EXTENDS Naturals, FiniteSets, Sequences

CONSTANTS
    V3Pools, V2Pools,   \* addresses of pools
    Directions,         \* of the swaps: "zeroForOne", "oneForZero"
    Objs,               \* SwapLog objects
    EventCap,           \* capacity of eventChan
    MaxHeight,          \* bound: blocks of the chain
    BlockLogs,          \* bound: swaps in a block
    MaxForks,           \* bound: reorgs
    MaxLogs,            \* bound: logs the chain emits
    MaxLosses           \* bound: connections that break

Pools == V3Pools \cup V2Pools

ASSUME FeedAssumption ==
    /\ {EventCap, MaxHeight} \subseteq Nat \ {0}
    /\ {BlockLogs, MaxForks, MaxLogs, MaxLosses} \subseteq Nat
    /\ Directions \subseteq {"zeroForOne", "oneForZero"}
    /\ "none" \notin Objs       \* no object

VARIABLES
    chain,      \* the canonical chain: of each block its fork, its logs, and the pools after it
    msgs,       \* every log the chain has emitted; a log is known by its place here
    wire,       \* logs on their way to the reader
    losses,     \* connections lost so far
    rd,         \* the reader: where it is, the object in its hand
    free,       \* how many times each object lies in SwapLogPool
    holds,      \* the log parsed into each object, 0 after Reset
    events,     \* eventChan
    w1,         \* worker1: where it is, the object in its hand, the hash it has learnt
    latest,     \* latestBlock, the head cached by the subscription
    last,       \* lastBlock and lastHash of the matrix
    mx,         \* the pools of the matrix
    reading     \* what the gatekeeper has read of a pool and not yet registered

node == <<chain, msgs, wire, losses>>
objects == <<free, holds, events>>
matrix == <<last, mx>>
vars == <<node, rd, objects, w1, latest, matrix, reading>>
-----------------------------------------------------------------------------
NoObj == "none"
NoHash == [n |-> 0, fork |-> 0]
Unknown == [known |-> FALSE, st |-> 0, snap |-> 0, seen |-> {}, by |-> NoHash]

Dist(a, b) == IF a < b THEN b - a ELSE a - b

\* What a constant-product pool pays, and what computeExpectedOut expects of it.
AmountOut(in, out, amount) == (out * amount * 9970) \div (in * 10000 + amount * 9970)

Genesis == [fork |-> 0, logs |-> <<>>,
            st |-> [p \in Pools |-> IF p \in V3Pools THEN 0 ELSE [r0 |-> 100, r1 |-> 400]]]

Init ==
    /\ chain = <<Genesis>> /\ msgs = <<>> /\ wire = <<>> /\ losses = 0
    /\ rd = [pc |-> "dial", obj |-> NoObj]
    /\ free = [o \in Objs |-> 1]
    /\ holds = [o \in Objs |-> 0]
    /\ events = <<>>
    /\ w1 = [pc |-> "idle", obj |-> NoObj, hash |-> NoHash]
    /\ latest = NoHash
    /\ last = NoHash
    /\ mx = [p \in Pools |-> Unknown]
    /\ reading = [p \in Pools |-> Unknown]
-----------------------------------------------------------------------------
(* The chain and its node.                                                  *)

Tip == chain[Len(chain)]
Hash(n) == [n |-> n, fork |-> chain[n].fork]

Paid == 10

\* What a swap pays out of a V2 pool, and the state it leaves any pool in; a V3 state
\* is known by the log that carries it.
PaidOut(old, dir) ==
    IF dir = "zeroForOne" THEN AmountOut(old.r0, old.r1, Paid) ELSE AmountOut(old.r1, old.r0, Paid)

SwapV2(old, dir) ==
    IF dir = "zeroForOne" THEN [r0 |-> old.r0 + Paid, r1 |-> old.r1 - PaidOut(old, dir)]
    ELSE [r0 |-> old.r0 - PaidOut(old, dir), r1 |-> old.r1 + Paid]

Swap(st, s, id) ==
    [st EXCEPT ![s.pool] = IF s.pool \in V3Pools THEN id ELSE SwapV2(@, s.dir)]

\* The pools after each swap of block b on top of the pools st, and what the log of
\* one carries: a V3 log the state it leaves, a V2 log the two amounts.  seq logs were
\* emitted before.
After(b, st, seq) ==
    LET after[i \in 0..Len(b)] == IF i = 0 THEN st ELSE Swap(after[i - 1], b[i], seq + i)
    IN  after

Carried(b, st, seq, i) ==
    IF b[i].pool \in V3Pools THEN seq + i
    ELSE [in |-> Paid, out |-> PaidOut(After(b, st, seq)[i - 1][b[i].pool], b[i].dir)]

\* Block b as number n of a fork.
Mine(b, st, seq, n, fork) ==
    [fork |-> fork,
     logs |-> [i \in 1..Len(b) |->
                 [pool |-> b[i].pool, n |-> n, fork |-> fork, removed |-> FALSE,
                  val |-> Carried(b, st, seq, i)]],
     st |-> After(b, st, seq)[Len(b)]]

Swaps == [pool : Pools, dir : Directions]
Blocks == UNION {[1..k -> Swaps] : k \in 0..BlockLogs}

Subscribed == rd.pc \in {"read", "parsed"}

Push(logs) ==
    /\ msgs' = msgs \o logs
    /\ Len(msgs') <= MaxLogs
    /\ wire' = IF Subscribed THEN wire \o [i \in 1..Len(logs) |-> Len(msgs) + i] ELSE wire

NewBlock ==
    /\ Len(chain) < MaxHeight
    /\ \E b \in Blocks :
         LET new == Mine(b, Tip.st, Len(msgs), Len(chain) + 1, Tip.fork)
         IN  chain' = Append(chain, new) /\ Push(new.logs)
    /\ UNCHANGED <<losses, rd, objects, w1, latest, matrix, reading>>

\* Another block takes the place of the newest: the node sends the logs of the old
\* one again, marked as removed, and then those of the new one.
Reorg ==
    /\ Len(chain) > 1 /\ Tip.fork < MaxForks
    /\ \E b \in Blocks :
         LET n == Len(chain)
             gone == [i \in 1..Len(Tip.logs) |-> [Tip.logs[i] EXCEPT !.removed = TRUE]]
             new == Mine(b, chain[n - 1].st, Len(msgs) + Len(gone), n, Tip.fork + 1)
         IN  chain' = [chain EXCEPT ![n] = new] /\ Push(gone \o new.logs)
    /\ UNCHANGED <<losses, rd, objects, w1, latest, matrix, reading>>

\* The head subscription caches the newest head; once it has failed it never does.
CacheHead ==
    /\ latest' = Hash(Len(chain))
    /\ UNCHANGED <<node, rd, objects, w1, matrix, reading>>
-----------------------------------------------------------------------------
(* The reader.                                                              *)

\* Dial, the deadline and the subscription request; any of them may fail.
Connect ==
    /\ rd.pc = "dial"
    /\ rd' = [rd EXCEPT !.pc = "read"]
    /\ UNCHANGED <<node, objects, w1, latest, matrix, reading>>

ConnectFails ==
    /\ rd.pc = "dial"
    /\ rd' = [rd EXCEPT !.pc = "backoff"]
    /\ UNCHANGED <<node, objects, w1, latest, matrix, reading>>

BackOff ==
    /\ rd.pc = "backoff"
    /\ rd' = [rd EXCEPT !.pc = "dial"]
    /\ UNCHANGED <<node, objects, w1, latest, matrix, reading>>

\* A read error: what was on its way is lost; after a short connection the reader
\* waits before it dials.
Disconnect ==
    /\ rd.pc = "read" /\ losses < MaxLosses
    /\ losses' = losses + 1
    /\ wire' = <<>>
    /\ \E pc \in {"dial", "backoff"} : rd' = [rd EXCEPT !.pc = pc]
    /\ UNCHANGED <<chain, msgs, objects, w1, latest, matrix, reading>>

\* Faulty variant: the message is not copied, and the next one overwrites it.
ReadInPlace(o) ==
    /\ rd.pc = "read" /\ wire # <<>> /\ free[o] > 0
    /\ wire' = Tail(wire)
    /\ free' = [free EXCEPT ![o] = @ - 1]
    /\ holds' = [x \in Objs |-> IF x = o \/ holds[x] > 0 THEN Head(wire) ELSE 0]
    /\ rd' = [pc |-> "parsed", obj |-> o]
    /\ UNCHANGED <<chain, msgs, losses, events, w1, latest, matrix, reading>>

\* readLoop takes a SwapLog from the pool and parses the message into it.
Read(o) ==
    /\ rd.pc = "read" /\ wire # <<>> /\ free[o] > 0
    /\ wire' = Tail(wire)
    /\ free' = [free EXCEPT ![o] = @ - 1]
    /\ holds' = [holds EXCEPT ![o] = Head(wire)]
    /\ rd' = [pc |-> "parsed", obj |-> o]
    /\ UNCHANGED <<chain, msgs, losses, events, w1, latest, matrix, reading>>

\* PutSwapLog
Put(o) ==
    /\ free' = [free EXCEPT ![o] = @ + 1]
    /\ holds' = [holds EXCEPT ![o] = 0]

\* Faulty variant: the channel has no limit.
ForwardAlways ==
    /\ rd.pc = "parsed"
    /\ events' = Append(events, rd.obj)
    /\ rd' = [pc |-> "read", obj |-> NoObj]
    /\ UNCHANGED <<node, free, holds, w1, latest, matrix, reading>>

\* Faulty variant: the object is put back after it was sent, too.
ForwardAndPut ==
    /\ rd.pc = "parsed" /\ Len(events) < EventCap
    /\ events' = Append(events, rd.obj)
    /\ Put(rd.obj)
    /\ rd' = [pc |-> "read", obj |-> NoObj]
    /\ UNCHANGED <<node, w1, latest, matrix, reading>>

Forward ==
    /\ rd.pc = "parsed" /\ Len(events) < EventCap
    /\ events' = Append(events, rd.obj)
    /\ rd' = [pc |-> "read", obj |-> NoObj]
    /\ UNCHANGED <<node, free, holds, w1, latest, matrix, reading>>

\* The parser rejects the log, whatever it says, or the channel is full.
Discard ==
    /\ rd.pc = "parsed"
    /\ Put(rd.obj)
    /\ rd' = [pc |-> "read", obj |-> NoObj]
    /\ UNCHANGED <<node, events, w1, latest, matrix, reading>>

Reader == Connect \/ ConnectFails \/ BackOff \/ (\E o \in Objs : Read(o)) \/ Forward \/ Discard
-----------------------------------------------------------------------------
(* worker1.                                                                 *)

Log == msgs[holds[w1.obj]]

TakeLog ==
    /\ w1.pc = "idle" /\ events # <<>>
    /\ w1' = [w1 EXCEPT !.pc = "hash", !.obj = Head(events)]
    /\ events' = Tail(events)
    /\ UNCHANGED <<node, rd, free, holds, latest, matrix, reading>>

\* worker1 is done with its log.
Release ==
    /\ Put(w1.obj)
    /\ w1' = [pc |-> "idle", obj |-> NoObj, hash |-> NoHash]
    /\ UNCHANGED <<node, rd, events, latest>>

\* The hash of the log's block: the cached head's if it has its number, or what
\* the node says now that the block of that number is.
LearnHash ==
    /\ w1.pc = "hash"
    /\ w1' = [w1 EXCEPT !.pc = "check",
                        !.hash = IF latest.n = Log.n THEN latest ELSE Hash(Log.n)]
    /\ UNCHANGED <<node, rd, objects, latest, matrix, reading>>

HashFails ==
    /\ w1.pc = "hash" /\ latest.n # Log.n
    /\ Release
    /\ UNCHANGED <<matrix, reading>>

\* Faulty variant: only a lower block is a reorg.
IsReorgLower(h) == last.n # 0 /\ h.n < last.n

IsReorg(h) == last.n # 0 /\ (h.n < last.n \/ (h.n = last.n /\ h # last))

\* A reorg: Clear, which resets lastBlock alone.
ClearMatrix ==
    /\ w1.pc = "check" /\ IsReorg(w1.hash)
    /\ mx' = [p \in Pools |-> Unknown]
    /\ last' = [last EXCEPT !.n = 0]
    /\ w1' = [w1 EXCEPT !.pc = "reseed"]
    /\ UNCHANGED <<node, rd, objects, latest, reading>>

\* The matrix is seeded again, which takes some calls, and UpdateLastBlock is told
\* the log's block.  The log itself is not applied.
Reseed ==
    /\ w1.pc = "reseed"
    /\ last' = w1.hash
    /\ Release
    /\ UNCHANGED <<mx, reading>>

\* The operator has paused the bot, or the pool is not in the matrix.
Skip ==
    /\ w1.pc = "check" /\ ~IsReorg(w1.hash)
    /\ Release
    /\ UNCHANGED <<matrix, reading>>

\* Faulty variant: token1 is taken whenever the reserves allow it.
UpdateV2Token1(st, in, out) ==
    IF out <= st.r0 THEN [r0 |-> st.r0 - out, r1 |-> st.r1 + in]
    ELSE [r0 |-> st.r0 + in, r1 |-> st.r1 - out]

\* updateV2Pool guesses from the amounts which token went in: token1 if token0
\* cannot have, or if both fit the pool's price and token1 fits it better.
UpdateV2(st, in, out) ==
    LET okA == out <= st.r1
        okB == out <= st.r0
        diffA == Dist(AmountOut(st.r0, st.r1, in), out)
        diffB == Dist(AmountOut(st.r1, st.r0, in), out)
        tolerance == IF out \div 10000 = 0 THEN 1 ELSE out \div 10000
        reverse == okB /\ (~okA \/ (diffA <= tolerance /\ diffB <= tolerance /\ diffA > diffB))
    IN  IF reverse THEN [r0 |-> st.r0 - out, r1 |-> st.r1 + in]
        ELSE IF okA THEN [r0 |-> st.r0 + in, r1 |-> st.r1 - out]
        ELSE st

\* UpdateFromLog: the state a V3 log carries, the amounts of a V2 log.
Updated(p) ==
    [mx[p] EXCEPT !.st = IF p \in V3Pools THEN Log.val
                         ELSE UpdateV2(@, Log.val.in, Log.val.out),
                  !.seen = @ \cup {holds[w1.obj]},
                  !.by = w1.hash]

\* The log is applied, whether it was removed or not; then UpdateLastBlock.
Apply ==
    /\ w1.pc = "check" /\ ~IsReorg(w1.hash) /\ mx[Log.pool].known
    /\ mx' = [mx EXCEPT ![Log.pool] = Updated(Log.pool)]
    /\ last' = w1.hash
    /\ Release
    /\ UNCHANGED reading

Worker1 ==
    TakeLog \/ LearnHash \/ HashFails \/ ClearMatrix \/ Reseed \/ Skip \/ Apply
-----------------------------------------------------------------------------
(* The gatekeeper: a pool is registered from what was read of it before.  Its  *)
(* queue is in Discovery.tla; here any unknown pool may be its candidate.      *)

ReadPool(p) ==
    /\ ~mx[p].known /\ ~reading[p].known
    /\ reading' = [reading EXCEPT ![p] =
                      [Unknown EXCEPT !.known = TRUE, !.st = Tip.st[p], !.snap = Len(msgs)]]
    /\ UNCHANGED <<node, rd, objects, w1, latest, matrix>>

\* RegisterPool keeps a pool that is there.
RegisterPool(p) ==
    /\ reading[p].known
    /\ mx' = [mx EXCEPT ![p] = IF @.known THEN @ ELSE reading[p]]
    /\ reading' = [reading EXCEPT ![p] = Unknown]
    /\ UNCHANGED <<node, rd, objects, w1, latest, last>>

Gatekeeper == \E p \in Pools : ReadPool(p) \/ RegisterPool(p)

Next == NewBlock \/ Reorg \/ CacheHead \/ Disconnect \/ Reader \/ Worker1 \/ Gatekeeper

Spec == Init /\ [][Next]_vars
-----------------------------------------------------------------------------
HashTypes == [n : 0..MaxHeight, fork : 0..MaxForks]

NodeTypes ==
    /\ Len(chain) \in 1..MaxHeight /\ Len(msgs) <= MaxLogs /\ losses <= MaxLosses
    /\ \A i \in DOMAIN msgs : msgs[i].pool \in Pools /\ msgs[i].n \in 1..Len(chain)
    /\ \A i \in DOMAIN wire : wire[i] \in DOMAIN msgs

ObjectTypes ==
    /\ free \in [Objs -> Nat] /\ holds \in [Objs -> 0..MaxLogs]
    /\ events \in Seq(Objs) /\ Len(events) <= EventCap
    /\ rd \in [pc : {"dial", "read", "backoff"}, obj : {NoObj}] \cup [pc : {"parsed"}, obj : Objs]
    /\ w1 \in [pc : {"idle"}, obj : {NoObj}, hash : {NoHash}]
              \cup [pc : {"hash", "check", "reseed"}, obj : Objs, hash : HashTypes]

MatrixTypes ==
    /\ {last, latest} \subseteq HashTypes
    /\ \A p \in Pools : /\ mx[p].by \in HashTypes /\ mx[p].seen \subseteq DOMAIN msgs
                       /\ mx[p] # Unknown => mx[p].known
                       /\ mx[p].snap <= Len(msgs) /\ reading[p].seen = {}

TypeOK == NodeTypes /\ ObjectTypes /\ MatrixTypes

\* A SwapLog is in one place: the pool, the reader's hand, eventChan or worker1's
\* hand, on whichever of their exits it is put back (websocket.go:316-327, main.go:931-1061).
OneHolder ==
    \A o \in Objs :
        free[o] + (IF rd.obj = o THEN 1 ELSE 0) + (IF w1.obj = o THEN 1 ELSE 0)
            + Cardinality({i \in DOMAIN events : events[i] = o}) = 1

Hand(o) == IF o = NoObj THEN <<>> ELSE <<holds[o]>>

InTransit == Hand(w1.obj) \o [i \in 1..Len(events) |-> holds[events[i]]] \o Hand(rd.obj) \o wire

\* Logs reach the matrix in the order the node sent them, each with what it said,
\* across reconnections and reuse of the objects (websocket.go:223-342).
InOrder == \A i, j \in DOMAIN InTransit : i < j => InTransit[i] < InTransit[j]

\* What the matrix took from logs is of one fork as far as worker1 has learnt: no
\* pool is ahead of lastBlock, and those at its number were updated under lastHash
\* (matrix.go:174-198, main.go:939-952).
SameFork ==
    \A p \in Pools :
        mx[p].by.n > 0 => \/ mx[p].by.n < last.n
                          \/ mx[p].by = last

LogsOf(p) == {i \in DOMAIN msgs : msgs[i].pool = p}

\* No log of p since it was read was lost, or the newest log of a V3 pool was not;
\* nor has the chain taken any of them back.
UpToDate(p) ==
    LET new == {i \in LogsOf(p) : i > mx[p].snap}
        newest == {i \in LogsOf(p) : \A j \in LogsOf(p) : j <= i}
    IN  /\ mx[p].known
        /\ IF p \in V3Pools /\ mx[p].seen # {}
           THEN newest \subseteq mx[p].seen /\ \A i \in newest : ~msgs[i].removed
           ELSE mx[p].seen = new /\ \A i \in new : ~msgs[i].removed

\* A pool whose logs all arrived, or a V3 pool whose newest did, is in the state the
\* chain has it in, however many logs, blocks and connections that took
\* (matrix.go:352-500).
FollowsChain == \A p \in Pools : UpToDate(p) => mx[p].st = Tip.st[p]
=============================================================================
