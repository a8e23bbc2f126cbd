------------------------------ MODULE Simulation ------------------------------
(* worker2 of main.go and its simulator: candidate routes are taken from a     *)
(* channel, filled into payloads, tried in the local EVM or by eth_call, and   *)
(* sent for execution; tokens of a route that reverts are blacklisted for a    *)
(* while.  The chain, the matrix and the caches change under every step.       *)
(* main.go starts the workers in a block that is commented out at present.     *)
EXTENDS Integers, Sequences, FiniteSets

CONSTANTS
    Workers,        \* worker2 goroutines
    Routes,         \* candidates: [pools, tokens, profit]
    Anchors,        \* anchor assets
    Payloads,       \* payload objects
    SemCap,         \* simulations at the node at one time; 8 in the code
    CandCap,        \* size of candidateChan
    ExecCap,        \* size of executionChan
    MinProfit,      \* MinProfitUSD
    LocalGas,       \* dollars that the gas measured by the local EVM costs
    RemoteGas,      \* dollars that the whole gas limit costs
    Unfetched,      \* addresses whose code could not be fetched when the bot started
    MaxChanges,     \* bound: changes of the chain, the matrix and the prices
    MaxFaults       \* bound: failed calls

Executor == "executor"
Pools == UNION {r.pools : r \in Routes}
Tokens == UNION {r.tokens : r \in Routes}
Code == {Executor} \cup Pools

ASSUME SimulationAssumption ==
    /\ IsFiniteSet(Workers)
    /\ \A r \in Routes : r.profit \in Nat /\ r.pools # {}
    /\ SemCap \in Nat \ {0} /\ CandCap \in Nat \ {0} /\ ExecCap \in Nat
    /\ MinProfit \in Nat /\ LocalGas \in Nat /\ RemoteGas \in Nat
    /\ MaxChanges \in Nat /\ MaxFaults \in Nat

VARIABLES
    works,          \* routes that succeed on the chain now
    believed,       \* routes that succeed on the reserves the matrix holds
    matrix,         \* pools in the matrix
    priced,         \* the price of ether is known, and not the initial 3000
    running,        \* dashboard.BotRunning
    changes, faults,
    code,           \* StateCache: the executor and the pools, with their tokens, whose bytecode is cached
    blacklist,      \* Blacklist.m
    expired,        \* entries of the blacklist whose time is over
    candidates,     \* candidateChan
    worker,         \* locals of the workers
    slots,          \* tokens in remoteSem
    pool,           \* payloadPool
    load,           \* load[p]: route of a payload, the routes seen to work since it was filled, and
                    \* whether the node's answer for it was hollow
    exec,           \* executionChan
    guilty          \* history: tokens of routes that reverted at the node since they were last free

environment == <<works, believed, matrix, priced, running, changes>>
banned == <<blacklist, expired, guilty>>
output == <<pool, load, exec>>
vars == <<environment, faults, code, banned, candidates, worker, slots, output>>

Nothing == "nothing"
NoRoute == [pools |-> {}, tokens |-> {}, profit |-> 0]
-----------------------------------------------------------------------------
Blank == [route |-> NoRoute, seen |-> {}, hollow |-> FALSE]

IdleWorker == [pc |-> "idle", route |-> NoRoute, payload |-> Nothing, gas |-> 0]

\* main warms the caches; a fetch that fails is only logged.
Init ==
    /\ works \in SUBSET Routes /\ believed = works
    /\ matrix = Pools /\ priced = TRUE /\ running = TRUE
    /\ changes = 0 /\ faults = 0
    /\ code = Code \ Unfetched
    /\ blacklist = {} /\ expired = {} /\ guilty = {}
    /\ candidates = <<>>
    /\ worker = [w \in Workers |-> IdleWorker]
    /\ slots = 0
    /\ pool = Payloads /\ load = [p \in Payloads |-> Blank] /\ exec = <<>>
-----------------------------------------------------------------------------
(* What changes under the workers. *)

\* A route that works, on the chain or in the matrix, is noted for every
\* payload that is filled with it.
Note(ws, bs, in) ==
    load' = [p \in Payloads |->
                IF load[p].route \in ws \/ (load[p].route \in bs /\ load[p].route.pools \subseteq in)
                THEN [load[p] EXCEPT !.seen = @ \cup {load[p].route}] ELSE load[p]]

Change == changes < MaxChanges /\ changes' = changes + 1

\* A trade on the chain makes a route work, or ends it.
ChainMoves(r) ==
    /\ Change
    /\ works' = IF r \in works THEN works \ {r} ELSE works \cup {r}
    /\ Note(works', believed, matrix)
    /\ UNCHANGED <<believed, matrix, priced, running, faults, code, banned, candidates, worker, slots, pool, exec>>

\* worker1 brings the matrix up to date.
MatrixFollows ==
    /\ believed # works
    /\ believed' = works
    /\ Note(works, believed', matrix)
    /\ UNCHANGED <<works, matrix, priced, running, changes, faults, code, banned, candidates, worker, slots, pool, exec>>

\* A reorg clears the matrix, or pools are registered anew.
MatrixChanges ==
    /\ Change
    /\ matrix' \in {{}, Pools} \ {matrix}
    /\ Note(works, believed, matrix')
    /\ UNCHANGED <<works, believed, priced, running, faults, code, banned, candidates, worker, slots, pool, exec>>

\* The gatekeeper fetches the code of a pool it registers, and of its tokens.
WarmUpAddress(a) ==
    /\ a \in Pools \ code
    /\ code' = code \cup {a}
    /\ UNCHANGED <<environment, faults, banned, candidates, worker, slots, output>>

\* SetEthPrice, and the buttons of the dashboard.
SettingChanges ==
    /\ Change
    /\ \/ priced' = ~ priced /\ UNCHANGED running
       \/ running' = ~ running /\ UNCHANGED priced
    /\ UNCHANGED <<works, believed, matrix, faults, code, banned, candidates, worker, slots, output>>
-----------------------------------------------------------------------------
(* The blacklist. *)

\* Blacklist.Add, for the tokens of a route: nothing protected is added, and an
\* entry that exists starts again.
Add(tokens) ==
    /\ blacklist' = blacklist \cup (tokens \ Anchors)
    /\ expired' = expired \ tokens

\* The tokens that a worker has yet to add.
Accused == UNION {worker[w].route.tokens : w \in {v \in Workers : worker[v].pc = "reverted"}}

\* IsBlacklisted, for each token of a route: what is over is removed.
Forget(tokens) ==
    /\ blacklist' = blacklist \ (tokens \cap expired)
    /\ expired' = expired \ tokens
    /\ guilty' = guilty \ ((tokens \cap expired) \ Accused)

IsBlacklisted(token) == token \in blacklist \ expired

\* Five minutes after it was added.
Expire(token) ==
    /\ token \in blacklist \ expired
    /\ expired' = expired \cup {token}
    /\ UNCHANGED <<environment, faults, code, blacklist, guilty, candidates, worker, slots, output>>

\* worker1 passes a candidate on unless one of its tokens is blacklisted or the
\* channel is full.
Offer(r) ==
    /\ Len(candidates) < CandCap
    /\ Forget(r.tokens)
    /\ candidates' = IF \E t \in r.tokens : IsBlacklisted(t) THEN candidates ELSE Append(candidates, r)
    /\ UNCHANGED <<environment, faults, code, worker, slots, output>>
-----------------------------------------------------------------------------
(* worker2. *)

Goto(w, pc) == worker' = [worker EXCEPT ![w].pc = pc]

\* The next candidate; while the bot is paused it is thrown away after 50 ms.
Take(w) ==
    /\ worker[w].pc = "idle"
    /\ candidates # <<>>
    /\ candidates' = Tail(candidates)
    /\ worker' = [worker EXCEPT ![w] =
                    [IdleWorker EXCEPT !.pc = IF running THEN "vet" ELSE "paused", !.route = Head(candidates)]]
    /\ UNCHANGED <<environment, faults, code, banned, slots, output>>

Resume(w) ==
    /\ worker[w].pc = "paused"
    /\ worker' = [worker EXCEPT ![w] = IdleWorker]
    /\ UNCHANGED <<environment, faults, code, banned, candidates, slots, output>>

\* The candidate is dropped without the price of ether or of the loan token, or
\* if its calldata does not build; else a payload is taken from the pool, reset
\* and filled.
Drop(w) ==
    /\ worker[w].pc = "vet"
    /\ \/ ~ priced /\ UNCHANGED faults
       \/ faults < MaxFaults /\ faults' = faults + 1
    /\ worker' = [worker EXCEPT ![w] = IdleWorker]
    /\ UNCHANGED <<environment, code, banned, candidates, slots, output>>

Fill(w) ==
    /\ worker[w].pc = "vet" /\ priced
    /\ \E p \in pool : LET r == worker[w].route IN
        /\ pool' = pool \ {p}
        /\ load' = [load EXCEPT ![p] =
                [route |-> r, hollow |-> FALSE,
                 seen |-> IF r \in works \/ (r \in believed /\ r.pools \subseteq matrix) THEN {r} ELSE {}]]
        /\ worker' = [worker EXCEPT ![w].pc = "choose", ![w].payload = p]
    /\ UNCHANGED <<environment, faults, code, banned, candidates, slots, exec>>

\* The local EVM if every pool of the route is in the matrix.
ChooseBackend(w) ==
    /\ worker[w].pc = "choose"
    /\ Goto(w, IF worker[w].route.pools \subseteq matrix THEN "local" ELSE "remote")
    /\ UNCHANGED <<environment, faults, code, banned, candidates, slots, output>>

\* The accounts of the local EVM: a contract without its code, or a pool without
\* its reserves, makes the executor revert.
Injected(r) == r.pools \subseteq matrix \cap code

\* SimulateNative.  A call of an address without code succeeds at no cost.
SimulateNative(w) ==
    /\ worker[w].pc = "local"
    /\ LET r == worker[w].route IN
        worker' = [worker EXCEPT ![w].pc = IF Executor \in code => (Injected(r) /\ r \in believed)
                                           THEN "passed" ELSE "remote",
                                 ![w].gas = IF Executor \in code THEN LocalGas ELSE 0]
    /\ UNCHANGED <<environment, faults, code, banned, candidates, slots, output>>

\* A place among the simulations at the node.
AcquireSlot(w) ==
    /\ worker[w].pc = "remote" /\ slots < SemCap
    /\ slots' = slots + 1
    /\ Goto(w, "call")
    /\ UNCHANGED <<environment, faults, code, banned, candidates, output>>

\* payload returned, the worker takes the next candidate
PutPayload(w) ==
    /\ pool' = pool \cup {worker[w].payload}
    /\ load' = [load EXCEPT ![worker[w].payload] = Blank]
    /\ worker' = [worker EXCEPT ![w] = IdleWorker]
    /\ UNCHANGED exec

\* No place for half a second.
SlotTimeout(w) ==
    /\ worker[w].pc = "remote" /\ slots = SemCap
    /\ PutPayload(w)
    /\ UNCHANGED <<environment, faults, code, banned, candidates, slots>>

\* The answer of eth_call: success, a revert, or no answer; the place is free.
\* An answer without a result, or with an error of code 0, is hollow: the call is
\* taken for a success although the node has not run it.
CallPasses(w) ==
    /\ worker[w].pc = "call" /\ worker[w].route \in works
    /\ slots' = slots - 1
    /\ worker' = [worker EXCEPT ![w].pc = "passed", ![w].gas = RemoteGas]
    /\ UNCHANGED <<environment, faults, code, banned, candidates, output>>

HollowAnswer(w) ==
    /\ worker[w].pc = "call"
    /\ faults < MaxFaults /\ faults' = faults + 1
    /\ slots' = slots - 1
    /\ worker' = [worker EXCEPT ![w].pc = "passed", ![w].gas = RemoteGas]
    /\ load' = [load EXCEPT ![worker[w].payload].hollow = TRUE]
    /\ UNCHANGED <<environment, code, banned, candidates, pool, exec>>

\* An error of the executor that decodeCustomError knows replaces the words
\* "execution reverted", so it is dropped as other failures are.
CustomError(w) ==
    /\ worker[w].pc = "call" /\ worker[w].route \notin works
    /\ slots' = slots - 1
    /\ PutPayload(w)
    /\ UNCHANGED <<environment, faults, code, banned, candidates>>

CallReverts(w) ==
    /\ worker[w].pc = "call" /\ worker[w].route \notin works
    /\ slots' = slots - 1
    /\ Goto(w, "reverted")
    /\ guilty' = guilty \cup worker[w].route.tokens
    /\ UNCHANGED <<environment, faults, code, blacklist, expired, candidates, output>>

\* Faulty variant: the place is kept when the call fails.
CallFailsKeepsSlot(w) ==
    /\ worker[w].pc = "call"
    /\ faults < MaxFaults /\ faults' = faults + 1
    /\ PutPayload(w)
    /\ UNCHANGED <<environment, code, banned, candidates, slots>>

\* Faulty variant: every failure counts as the token's.
CallFailsBlames(w) ==
    /\ worker[w].pc = "call"
    /\ faults < MaxFaults /\ faults' = faults + 1
    /\ slots' = slots - 1
    /\ Add(worker[w].route.tokens)
    /\ PutPayload(w)
    /\ UNCHANGED <<environment, code, guilty, candidates>>

\* Faulty variant: a call without an answer counts as passed.
CallFailsPasses(w) ==
    /\ worker[w].pc = "call"
    /\ faults < MaxFaults /\ faults' = faults + 1
    /\ slots' = slots - 1
    /\ worker' = [worker EXCEPT ![w].pc = "passed", ![w].gas = RemoteGas]
    /\ UNCHANGED <<environment, code, banned, candidates, output>>

CallFails(w) ==
    /\ worker[w].pc = "call"
    /\ faults < MaxFaults /\ faults' = faults + 1
    /\ slots' = slots - 1
    /\ PutPayload(w)
    /\ UNCHANGED <<environment, code, banned, candidates>>

\* The tokens of the route are blacklisted, anchors apart.
Reverted(w) ==
    /\ worker[w].pc = "reverted"
    /\ Add(worker[w].route.tokens)
    /\ PutPayload(w)
    /\ UNCHANGED <<environment, faults, code, guilty, candidates, slots>>

\* Less gas, is there enough profit?
Worth(w) == worker[w].route.profit - worker[w].gas >= MinProfit

TooPoor(w) ==
    /\ worker[w].pc = "passed" /\ ~ Worth(w)
    /\ PutPayload(w)
    /\ UNCHANGED <<environment, faults, code, banned, candidates, slots>>

\* The payload goes to worker3, or back to the pool if the channel is full.
Send(w) ==
    /\ worker[w].pc = "passed" /\ Worth(w)
    /\ IF Len(exec) < ExecCap
       THEN /\ exec' = Append(exec, worker[w].payload)
            /\ worker' = [worker EXCEPT ![w] = IdleWorker]
            /\ UNCHANGED <<pool, load>>
       ELSE PutPayload(w)
    /\ UNCHANGED <<environment, faults, code, banned, candidates, slots>>

worker2(w) ==
    \/ Take(w) \/ Resume(w) \/ Drop(w) \/ Fill(w) \/ ChooseBackend(w)
    \/ SimulateNative(w) \/ AcquireSlot(w) \/ SlotTimeout(w)
    \/ CallPasses(w) \/ HollowAnswer(w)
    \/ CallReverts(w) \/ CustomError(w) \/ CallFails(w)
    \/ Reverted(w) \/ TooPoor(w) \/ Send(w)

\* worker3 takes a payload and returns the object when it is done with it.
Consume ==
    /\ exec # <<>>
    /\ exec' = Tail(exec)
    /\ pool' = pool \cup {Head(exec)}
    /\ load' = [load EXCEPT ![Head(exec)] = Blank]
    /\ UNCHANGED <<environment, faults, code, banned, candidates, worker, slots>>

Next ==
    \/ \E r \in Routes : ChainMoves(r) \/ Offer(r)
    \/ MatrixFollows \/ MatrixChanges \/ SettingChanges
    \/ \E t \in Tokens : Expire(t)
    \/ \E a \in Code : WarmUpAddress(a)
    \/ \E w \in Workers : worker2(w)
    \/ Consume

Spec == Init /\ [][Next]_vars
-----------------------------------------------------------------------------
Pcs == {"idle", "paused", "vet", "choose", "local", "remote", "call", "reverted", "passed"}

WorkerRecords ==
    [pc : Pcs, route : Routes \cup {NoRoute}, payload : Payloads \cup {Nothing}, gas : {0, LocalGas, RemoteGas}]

\* Types of the variables of worker2, the simulator and the blacklist; a place
\* at the node is taken exactly while a worker has a call there.
TypeOK ==
    /\ works \subseteq Routes /\ believed \subseteq Routes /\ matrix \subseteq Pools
    /\ priced \in BOOLEAN /\ running \in BOOLEAN
    /\ changes \in 0..MaxChanges /\ faults \in 0..MaxFaults
    /\ code \subseteq Code /\ blacklist \subseteq Tokens /\ expired \subseteq blacklist
    /\ candidates \in Seq(Routes) /\ Len(candidates) <= CandCap
    /\ worker \in [Workers -> WorkerRecords]
    /\ slots = Cardinality({w \in Workers : worker[w].pc = "call"}) /\ slots <= SemCap
    /\ pool \subseteq Payloads /\ exec \in Seq(Payloads) /\ Len(exec) <= ExecCap

\* The route of a payload worked at some moment since it was filled, or the node
\* gave a hollow answer for it, which doEthCall cannot tell from a success.
Vouched(p) == load[p].route \in load[p].seen \/ load[p].hollow

\* What is sent worked at some moment after its payload was filled, on the chain
\* or on the reserves of the matrix with every pool there, though the backend is
\* chosen, the reserves are read and the node is asked at different moments; only
\* a hollow answer of the node sends a route that never worked (doEthCall,
\* main.go:1213-1268).
SentHasWorked ==
    \A i \in 1..Len(exec) : Vouched(exec[i])

\* A blacklisted token is no anchor, and was in a route that reverted at the
\* node since it was last free: a call that fails, a full node, a price that is
\* missing or a failure of the local EVM blacklists nothing.
BlacklistIsEarned == blacklist \subseteq guilty \ Anchors
=============================================================================
