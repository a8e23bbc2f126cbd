-------------------------------- MODULE Evaluation --------------------------------
(* The evaluation of a swap (Solver/simd_solver.go): EvaluateEvent hands round  *)
(* trips of two or three hops to a pool of workers shared by every caller,      *)
(* collects the candidates they send, and the sender's solver callback          *)
(* (main.go) chooses among them while the pools go on moving.                   *)
EXTENDS Integers, FiniteSets, SequencesExt

CONSTANTS
    Callers,        \* broadcasts that may ask for another route
    Workers,        \* goroutines that range over taskCh
    TaskCap,        \* capacity of taskCh
    ResultCap,      \* capacity of each resultCh
    AnchorAssets,   \* the sequence of tokens trips start from
    Pools,          \* address -> [t0, t1, fee, stable, v3], the fee out of FeeUnit
    PairPools,      \* tokenPairToPools: {token, token} -> sequence of addresses
    Logs,           \* token pairs of swaps: <<TokenIn, TokenOut>>
    Start,          \* the pools at the start: address -> <<r0, r1>>, or
                    \* <<r0, r1, sqrtPrice, liquidity>> for a V3 pool
    Moves,          \* bound: what a pool may move to, <<address, such a tuple>>
    Q96,            \* the scale of square roots of prices (2^96)
    MinSqrt, MaxSqrt,   \* what V3Calculator takes for the ends of that scale
    FeeUnit,        \* the whole of which a fee is a part (10000 basis points)
    Pips,           \* V3 pips in one such part (100)
    PipsLimit,      \* the fee up to which a V3 fee is read as basis points (100)
    DefaultFee,     \* what a fee of 0 is taken for (30 basis points)
    DefaultPips,    \* the same for a V3 pool (3000 pips)
    Accuracy,       \* a float64 result is off by at most one part in this many
    Roundoff(_, _), \* by how much, for a numerator and a denominator
    MinProfit,      \* MinProfitUSD, in units of the start token
    Costs,          \* l1Cost + 0.50, in the same units
    MaxReturn,      \* candidates the callback returns at most
    MaxCalls,       \* bound: calls of EvaluateEvent
    MaxMoves        \* bound: changes of reserves

Anchors == ToSet(AnchorAssets)

ASSUME EvaluationAssumption ==
    /\ {TaskCap, MaxReturn, Q96, MinSqrt} \subseteq Nat \ {0}
    /\ MaxSqrt \in Nat /\ MinSqrt < MaxSqrt
    /\ {MinProfit, Costs, MaxCalls, MaxMoves} \subseteq Nat
    /\ AnchorAssets \in Seq(Anchors)
    /\ ResultCap \in Nat /\ ResultCap >= 2 * Len(AnchorAssets)
    /\ IsFiniteSet(Workers) /\ Workers # {}

(* Some of every payment is left after a default fee, and the buffer of 1 % is wider *)
(* than two float64 results are off.                                                 *)
ASSUME FeeAssumption ==
    /\ {FeeUnit, Pips} \subseteq Nat \ {0} /\ PipsLimit \in 1 .. FeeUnit
    /\ DefaultFee \in 1 .. FeeUnit - 1 /\ DefaultPips \in 1 .. FeeUnit * Pips - 1
    /\ Accuracy \in Nat /\ Accuracy >= 200

(* What is known of a pool: its reserves, and of a V3 pool its price and liquidity.  *)
(* The price is 0 until it is read; a V3 pool keeps its own between the two ends.    *)
IsReserves(p, s) ==
    /\ s \in Seq(Nat)
    /\ Len(s) = IF Pools[p].v3 THEN 4 ELSE 2
    /\ Pools[p].v3 => s[3] = 0 \/ s[3] \in MinSqrt .. MaxSqrt

(* A pool is of two tokens, it is registered once and for these two, and it keeps    *)
(* something of what it is paid.                                                     *)
ASSUME RegistryAssumption ==
    /\ \A p \in DOMAIN Pools :
        /\ Pools[p].fee \in 0 .. FeeUnit - 1
        /\ Pools[p].t0 # Pools[p].t1
    /\ \A pair \in DOMAIN PairPools :
        /\ PairPools[pair] \in Seq({p \in DOMAIN Pools : {Pools[p].t0, Pools[p].t1} = pair})
        /\ IsInjective(PairPools[pair])
    /\ Start \in [DOMAIN Pools -> Seq(Nat)]
    /\ \A p \in DOMAIN Pools : IsReserves(p, Start[p])
    /\ \A m \in Moves : m[1] \in DOMAIN Pools /\ IsReserves(m[1], m[2])

VARIABLES
    caller,     \* each call of EvaluateEvent: tasks to enqueue, wait group, resultCh
    taskCh,     \* tasks waiting for a worker
    wk,         \* each worker: its task, the routes left to try, its best candidate
    res,        \* reserves of the pools
    calls, moves

vars == <<caller, taskCh, wk, res, calls, moves>>
-----------------------------------------------------------------------------
NoTask == [by |-> "none", path |-> <<>>]
NotCalled == [pc |-> "idle", todo |-> <<>>, wg |-> 0, open |-> TRUE, chan |-> <<>>,
              got |-> {}, answer |-> {}]
Idle == [pc |-> "idle", task |-> NoTask, routes |-> <<>>, amounts |-> <<>>, best |-> <<>>]

PairOf(a, b) == IF {a, b} \in DOMAIN PairPools THEN PairPools[{a, b}] ELSE <<>>

(* The reserves of a pool seen by one who pays token t into it. *)
In(p, t, r) == IF Pools[p].t0 = t THEN r[p][1] ELSE r[p][2]
Out(p, t, r) == IF Pools[p].t0 = t THEN r[p][2] ELSE r[p][1]
Product(p, r) == r[p][1] * r[p][2]

(* What a pool keeps of a payment, and what getFeeFactor makes of it: a fee of 0 is *)
(* taken for one that is not known.                                                 *)
Kept(p) == FeeUnit - Pools[p].fee
FeeFactor(p) == IF Pools[p].fee = 0 THEN FeeUnit - DefaultFee ELSE Kept(p)

(* x may be the integer part of numerator / denominator in float64: within one part *)
(* in Accuracy of the quotient, so that it may be rounded up.                       *)
IsFloatQuotient(x, numerator, denominator) ==
    /\ x \in Nat
    /\ Accuracy * (denominator * x - numerator) <= numerator
    /\ Accuracy * (numerator - denominator * (x + 1)) < numerator

FloatQuotient(numerator, denominator) ==
    LET exact == numerator \div denominator
        rounded == exact + Roundoff(numerator, denominator)
    IN IF IsFloatQuotient(rounded, numerator, denominator) THEN rounded ELSE exact

SquareRoot[x \in Nat] ==
    IF x = 0 THEN 0
    ELSE LET even == 2 * SquareRoot[x \div 4]
         IN IF (even + 1) * (even + 1) > x THEN even ELSE even + 1

SwapV2(p, t, r) ==
    [amount \in Nat |->
        IF amount = 0 \/ Product(p, r) = 0 THEN 0
        ELSE FloatQuotient(Out(p, t, r) * amount * FeeFactor(p),
                           In(p, t, r) * FeeUnit + amount * FeeFactor(p))]

(* A V3 pool within one range of liquidity.  Its tick data always lacks the net     *)
(* liquidities (the ABI packs no int32 as int24), so that crossing ticks is not     *)
(* reached.                                                                         *)
SqrtPrice(p, r) == r[p][3]
Liquidity(p, r) == r[p][4]
Clamped(price) == IF price < MinSqrt THEN MinSqrt ELSE IF price > MaxSqrt THEN MaxSqrt ELSE price
LeastOf(a, b) == IF a < b THEN a ELSE b

(* A fee above the limit is taken for pips, one at the limit loses a pip. *)
FeeInPips(p) ==
    LET pips == IF Pools[p].fee <= PipsLimit THEN Pools[p].fee * Pips ELSE Pools[p].fee
    IN IF pips >= PipsLimit * Pips THEN PipsLimit * Pips - 1
       ELSE IF pips = 0 THEN DefaultPips ELSE pips
KeptV3(p) == FeeUnit * Pips - FeeInPips(p)

(* What of an amount counts: less the fee, and no more than moves the price to its end. *)
PaidIn(p, zeroForOne, r) ==
    [amount \in Nat |->
        LET sp == SqrtPrice(p, r)
            room == IF zeroForOne THEN ((sp - MinSqrt) * Liquidity(p, r) * Q96) \div (sp * MinSqrt)
                                  ELSE ((MaxSqrt - sp) * Liquidity(p, r)) \div Q96
        IN LeastOf((amount * KeptV3(p)) \div (FeeUnit * Pips), room)]

NextFromAmount0(sp, liquidity, paid) ==
    LET den == liquidity * Q96 + paid * sp
    IN Clamped((liquidity * Q96 * sp + den - 1) \div den)

NextFromAmount1(sp, liquidity, paid) == Clamped(sp + (paid * Q96) \div liquidity)

SwapV3(p, t, r) ==
    LET sp == SqrtPrice(p, r)
        liquidity == Liquidity(p, r)
        zeroForOne == Pools[p].t0 = t
    IN [amount \in Nat |->
        IF amount = 0 \/ sp = 0 \/ liquidity = 0 THEN 0
        ELSE LET paid == PaidIn(p, zeroForOne, r)[amount]
                 next == IF zeroForOne THEN NextFromAmount0(sp, liquidity, paid)
                                       ELSE NextFromAmount1(sp, liquidity, paid)
             IN IF paid = 0 THEN 0
                ELSE IF zeroForOne
                     THEN IF next >= sp THEN 0 ELSE (liquidity * (sp - next)) \div Q96
                ELSE IF next <= sp THEN 0
                     ELSE (liquidity * Q96 * (next - sp)) \div (sp * next)]

(* ComputeSwap, as a function of the amount paid in; 0 also stands for its errors,  *)
(* which no round trip survives.                                                    *)
ComputeSwap(p, t, r) == IF Pools[p].v3 THEN SwapV3(p, t, r) ELSE SwapV2(p, t, r)

(* Faulty variant: the minimum is the computed output itself. *)
Unbuffered(amount) == amount

(* applySlippageBuffer, in a big.Float of 53 or 64 bits. *)
Buffered(amount) == FloatQuotient(99 * amount, 100)

(* Faulty variant: an optimum below zero is an amount as well. *)
AnySign(p, t, r) ==
    IF Product(p, r) = 0 THEN 0
    ELSE SquareRoot[(Product(p, r) * FeeUnit) \div FeeFactor(p)] - In(p, t, r)

ComputeOptimalInputRaw(p, t, r) ==
    IF Product(p, r) = 0 THEN 0
    ELSE LET best == SquareRoot[(Product(p, r) * FeeUnit) \div FeeFactor(p)] - In(p, t, r)
         IN IF best > 0 THEN best ELSE 0

(* Both fees, without the default, weigh on the product of the two reserves of the *)
(* start token.                                                                    *)
ComputeOptimalAmount2Hop(fwd, rev, t, r) ==
    LET fees == Kept(fwd) * Kept(rev)
        whole == FeeUnit * FeeUnit
    IN IF \/ Pools[fwd].v3 \/ Pools[rev].v3
          \/ 0 \in {In(fwd, t, r), Out(fwd, t, r), In(rev, t, r)} \/ fees >= whole THEN 0
       ELSE LET best == SquareRoot[(In(fwd, t, r) * In(rev, t, r) * fees) \div (whole - fees)]
                        - In(fwd, t, r)
            IN IF best > 0 THEN best ELSE 0

(* What the golden section over (0, 10 * base) may end at: a sample of it, where 0 *)
(* stands for no amount and falls back to the base.                               *)
Optimal3Hop(base) == {base, 2 * base}

(* The same search over what one V3 pool pays for the amount. *)
OptimalV3(base) == {0, 2 * base}

Scaled(amount, percents) == [i \in DOMAIN percents |-> (amount * percents[i]) \div 100]
AroundOptimum == <<80, 85, 90, 95, 100, 105, 110, 114, 120>>
AroundBase == <<50, 75, 100, 125, 150>>
AroundAmount3Hop == <<80, 90, 100, 110, 120>>
-----------------------------------------------------------------------------
(* Routes. A path lists the tokens of a round trip, which ends where it begins. *)
Hops(path) == 1 .. Len(path)

(* What each hop pays out, from the amount that enters the first. *)
Outs(path, route, amount, r) ==
    LET paid[i \in 0 .. Len(path)] ==
            IF i = 0 THEN amount ELSE ComputeSwap(route[i], path[i], r)[paid[i - 1]]
    IN [i \in Hops(path) |-> paid[i]]

ZeroForOne(p, t) == Pools[p].t0 = t

(* The fields outs and read are history: what was computed, and from which reserves. *)
Candidate(path, route, amount, r) ==
    LET outs == Outs(path, route, amount, r)
    IN [pools |-> route,
        zeroForOnes |-> [i \in Hops(path) |-> ZeroForOne(route[i], path[i])],
        amountIn |-> amount,
        outs |-> outs,
        minOuts |-> [i \in Hops(path) |-> Buffered(outs[i])],
        net |-> outs[Len(path)] - amount,
        read |-> [i \in Hops(path) |-> r[route[i]]]]

(* The candidates of a list of amounts, each with its place in the list. *)
Worthwhile(path, route, amounts, r) ==
    {o \in {[at |-> i, cand |-> Candidate(path, route, amounts[i], r)] :
                i \in {j \in DOMAIN amounts : amounts[j] > 0}} :
        o.cand.net > 0 /\ o.cand.net >= MinProfit}

(* tryMultipliers stops at the first profit lower than the one before: the best is *)
(* the end of the first climb, the earliest of equals.                             *)
FirstPeak(offers) ==
    {o \in offers :
        /\ \A e, d \in offers : e.at < d.at /\ d.at <= o.at => e.cand.net <= d.cand.net
        /\ \A e \in offers : e.at < o.at => e.cand.net < o.cand.net
        /\ \A e \in offers : e.at > o.at /\ e.cand.net > o.cand.net =>
                \E d \in offers : d.at > o.at /\ d.at < e.at /\ d.cand.net < o.cand.net}

(* The loop of BuildRoundTrip3Hop keeps the most profitable, the earliest of equals. *)
Highest(offers) ==
    {o \in offers : \A e \in offers :
        e.cand.net < o.cand.net \/ (e.cand.net = o.cand.net /\ o.at <= e.at)}

(* getTopTwoPools: sort.Slice leaves pools of equal product in any order. *)
TopTwo(pools, r) ==
    LET volatile == {i \in DOMAIN pools : ~Pools[pools[i]].stable}
        atLeast(i, others) == \A k \in others : Product(pools[i], r) >= Product(pools[k], r)
    IN {<<pools[top[1]], pools[top[2]]>> : top \in
            {ij \in volatile \X volatile :
                /\ ij[1] # ij[2]
                /\ atLeast(ij[1], volatile)
                /\ atLeast(ij[2], volatile \ {ij[1]})}}

(* getBestPool keeps the first pool of the pair even when it is a stable one. *)
BestPool(pools, r) ==
    LET eligible == {i \in DOMAIN pools : i = 1 \/ ~Pools[pools[i]].stable}
        score(i) == Product(pools[i], r)
    IN pools[CHOOSE i \in eligible :
                \A k \in eligible : score(k) < score(i) \/ (score(k) = score(i) /\ i <= k)]

(* The sequences of routes BuildRoundTrip2Hop or BuildRoundTrip3Hop tries. *)
RoutesOf(path, r) ==
    LET pools == [i \in Hops(path) |-> PairOf(path[i], path[(i % Len(path)) + 1])]
        best == [i \in Hops(path) |-> BestPool(pools[i], r)]
    IN IF Len(path) = 2
       THEN IF TopTwo(pools[1], r) = {} THEN {<<>>}
            ELSE {<<top, <<top[2], top[1]>> >> : top \in TopTwo(pools[1], r)}
       ELSE IF \E i \in Hops(path) : pools[i] = <<>> \/ Pools[best[i]].stable THEN {<<>>}
            ELSE {<<best>>}

Paths(tokenA, tokenB) ==
    IF {tokenA, tokenB} \subseteq Anchors THEN <<>>
    ELSE IF tokenA \in Anchors THEN <<<<tokenA, tokenB>>>>
    ELSE IF tokenB \in Anchors THEN <<<<tokenB, tokenA>>>>
    ELSE [i \in 1 .. 2 * Len(AnchorAssets) |->
            LET anchor == AnchorAssets[(i + 1) \div 2]
            IN IF i % 2 = 1 THEN <<anchor, tokenA, tokenB>> ELSE <<anchor, tokenB, tokenA>>]
-----------------------------------------------------------------------------
Init ==
    /\ caller = [c \in Callers |-> NotCalled]
    /\ taskCh = <<>>
    /\ wk = [w \in Workers |-> Idle]
    /\ res = Start
    /\ calls = 0
    /\ moves = 0

(* The sender asks for another route after the swap worker1 has seen last. *)
EvaluateEvent(c) ==
    /\ caller[c].pc = "idle"
    /\ calls < MaxCalls
    /\ calls' = calls + 1
    /\ \E log \in Logs :
        /\ PairOf(log[1], log[2]) # <<>>
        /\ caller' = [caller EXCEPT ![c] = [NotCalled EXCEPT !.pc = "enqueue",
                                                             !.todo = Paths(log[1], log[2])]]
    /\ UNCHANGED <<taskCh, wk, res, moves>>

(* The wait group counts the task before taskCh has room for it. *)
Add(c) ==
    /\ caller[c].pc = "enqueue"
    /\ caller[c].todo # <<>>
    /\ caller' = [caller EXCEPT ![c].pc = "sending", ![c].wg = @ + 1]
    /\ UNCHANGED <<taskCh, wk, res, calls, moves>>

Enqueue(c) ==
    /\ caller[c].pc = "sending"
    /\ Len(taskCh) < TaskCap
    /\ taskCh' = Append(taskCh, [by |-> c, path |-> Head(caller[c].todo)])
    /\ caller' = [caller EXCEPT ![c].pc = "enqueue", ![c].todo = Tail(@)]
    /\ UNCHANGED <<wk, res, calls, moves>>

(* The goroutine that closes resultCh starts with the draining of it. *)
Collect(c) ==
    /\ caller[c].pc = "enqueue"
    /\ caller[c].todo = <<>>
    /\ caller' = [caller EXCEPT ![c].pc = "drain"]
    /\ UNCHANGED <<taskCh, wk, res, calls, moves>>

(* Faulty variant: the closing goroutine starts before the tasks are enqueued. *)
ClosesEarly(c) == caller[c].pc # "idle" /\ caller[c].wg = 0

MayClose(c) == caller[c].pc = "drain" /\ caller[c].wg = 0

CloseResults(c) ==
    /\ MayClose(c)
    /\ caller[c].open
    /\ caller' = [caller EXCEPT ![c].open = FALSE]
    /\ UNCHANGED <<taskCh, wk, res, calls, moves>>

Receive(c) ==
    /\ caller[c].pc = "drain"
    /\ caller[c].chan # <<>>
    /\ caller' = [caller EXCEPT ![c].chan = Tail(@), ![c].got = @ \cup {Head(caller[c].chan)}]
    /\ UNCHANGED <<taskCh, wk, res, calls, moves>>

(* The callback leaves out the pools of the failed route; the scores order the rest *)
(* of what pays the costs, and any may come first.                                  *)
Eligible(c, avoid) ==
    {cand \in caller[c].got :
        /\ cand.net >= MinProfit + Costs
        /\ ToSet(cand.pools) \cap avoid = {}}

Answer(c) ==
    /\ caller[c].pc = "drain"
    /\ caller[c].chan = <<>>
    /\ ~caller[c].open
    /\ \E avoid \in {{}} \cup {{p} : p \in DOMAIN Pools} :
       \E answer \in SUBSET Eligible(c, avoid) :
        /\ \/ answer = Eligible(c, avoid) /\ Cardinality(answer) <= MaxReturn
           \/ Cardinality(answer) = MaxReturn
        /\ caller' = [caller EXCEPT ![c] = [NotCalled EXCEPT !.answer = answer]]
    /\ UNCHANGED <<taskCh, wk, res, calls, moves>>
-----------------------------------------------------------------------------
(* Faulty variant: only a task with a candidate is counted as done. *)
FinishUncounted(w, best) ==
    IF best # <<>> /\ Head(best).net > MinProfit
    THEN /\ wk' = [wk EXCEPT ![w].pc = "send", ![w].routes = <<>>, ![w].amounts = <<>>,
                             ![w].best = best]
         /\ UNCHANGED caller
    ELSE /\ wk' = [wk EXCEPT ![w] = Idle]
         /\ UNCHANGED caller

(* What a worker does next: its wait group when the task is over, the channel when *)
(* its candidate is worth sending.                                                 *)
Finish(w, best) ==
    IF best # <<>> /\ Head(best).net > MinProfit
    THEN /\ wk' = [wk EXCEPT ![w].pc = "send", ![w].routes = <<>>, ![w].amounts = <<>>,
                             ![w].best = best]
         /\ UNCHANGED caller
    ELSE /\ wk' = [wk EXCEPT ![w] = Idle]
         /\ caller' = [caller EXCEPT ![wk[w].task.by].wg = @ - 1]

(* A worker takes a task and chooses the pools; without them the task is over. *)
TakeTask(w) ==
    /\ wk[w].pc = "idle"
    /\ taskCh # <<>>
    /\ taskCh' = Tail(taskCh)
    /\ \E routes \in RoutesOf(Head(taskCh).path, res) :
        IF routes = <<>>
        THEN /\ caller' = [caller EXCEPT ![Head(taskCh).by].wg = @ - 1]
             /\ UNCHANGED wk
        ELSE /\ wk' = [wk EXCEPT ![w] = [Idle EXCEPT !.pc = "size", !.task = Head(taskCh),
                                                     !.routes = routes]]
             /\ UNCHANGED caller
    /\ UNCHANGED <<res, calls, moves>>

(* The amounts to try, from reserves that may have moved since the pools were chosen. *)
Size(w) ==
    LET path == wk[w].task.path
        route == Head(wk[w].routes)
    IN /\ wk[w].pc = "size"
       /\ \E base \in {ComputeOptimalInputRaw(route[1], path[1], res)} :
          \E optimum \in
             IF Pools[route[1]].v3 THEN OptimalV3(base)
             ELSE {ComputeOptimalAmount2Hop(route[1], route[2], path[1], res)} :
          \E amounts \in
             IF base = 0 THEN {<<>>}
             ELSE IF Len(path) = 3
                  THEN {Scaled(a, AroundAmount3Hop) : a \in Optimal3Hop(base)}
             ELSE {IF optimum > 0 THEN Scaled(optimum, AroundOptimum)
                                  ELSE Scaled(base, AroundBase)} :
             wk' = [wk EXCEPT ![w].pc = "try", ![w].amounts = amounts]
       /\ UNCHANGED <<caller, taskCh, res, calls, moves>>

(* The reserves are read again for the swaps. Without a price of the start token *)
(* there is no candidate.                                                        *)
Try(w) ==
    LET path == wk[w].task.path
        route == Head(wk[w].routes)
    IN /\ wk[w].pc = "try"
       /\ \E offers \in {Worthwhile(path, route, wk[w].amounts, res)}, priced \in BOOLEAN :
          \E found \in {IF Len(path) = 3 THEN Highest(offers) ELSE FirstPeak(offers)} :
            LET better == {o.cand : o \in {f \in found : priced
                              /\ \A old \in ToSet(wk[w].best) : f.cand.net > old.net}}
                best == IF better = {} THEN wk[w].best ELSE SetToSeq(better)
            IN IF Len(wk[w].routes) = 1 THEN Finish(w, best)
               ELSE /\ wk' = [wk EXCEPT ![w].pc = "size", ![w].routes = Tail(@),
                                        ![w].amounts = <<>>, ![w].best = best]
                    /\ UNCHANGED caller
       /\ UNCHANGED <<taskCh, res, calls, moves>>

SendResult(w) ==
    LET by == wk[w].task.by
    IN /\ wk[w].pc = "send"
       /\ caller[by].open
       /\ Len(caller[by].chan) < ResultCap
       /\ caller' = [caller EXCEPT ![by].chan = Append(@, Head(wk[w].best)), ![by].wg = @ - 1]
       /\ wk' = [wk EXCEPT ![w] = Idle]
       /\ UNCHANGED <<taskCh, res, calls, moves>>

Worker(w) == TakeTask(w) \/ Size(w) \/ Try(w) \/ SendResult(w)

(* worker1 applies a swap to a pool. *)
Move ==
    /\ moves < MaxMoves
    /\ moves' = moves + 1
    /\ \E m \in Moves : res' = [res EXCEPT ![m[1]] = m[2]]
    /\ UNCHANGED <<caller, taskCh, wk, calls>>
-----------------------------------------------------------------------------
Call(c) == Add(c) \/ Enqueue(c) \/ Collect(c) \/ CloseResults(c) \/ Receive(c) \/ Answer(c)

Next ==
    \/ \E c \in Callers : EvaluateEvent(c) \/ Call(c)
    \/ \E w \in Workers : Worker(w)
    \/ Move

Spec == Init /\ [][Next]_vars
-----------------------------------------------------------------------------
Tokens == Anchors \cup UNION {{Pools[p].t0, Pools[p].t1} : p \in DOMAIN Pools}
Tasks == [by : Callers, path : Seq(Tokens)]
Candidates == [pools : Seq(DOMAIN Pools), zeroForOnes : Seq(BOOLEAN), amountIn : Nat,
               outs : Seq(Nat), minOuts : Seq(Nat), net : Nat, read : Seq(Seq(Nat))]

TypeOK ==
    /\ caller \in [Callers ->
            [pc : {"idle", "enqueue", "sending", "drain"}, todo : Seq(Seq(Tokens)), wg : Nat,
             open : BOOLEAN, chan : Seq(Candidates), got : SUBSET Candidates,
             answer : SUBSET Candidates]]
    /\ wk \in [Workers ->
            [pc : {"idle", "size", "try", "send"}, task : Tasks \cup {NoTask},
             routes : Seq(Seq(DOMAIN Pools)), amounts : Seq(Nat), best : Seq(Candidates)]]
    /\ taskCh \in Seq(Tasks) /\ Len(taskCh) <= TaskCap
    /\ \A c \in Callers : Len(caller[c].chan) <= ResultCap
    /\ res \in [DOMAIN Pools -> Seq(Nat)]
    /\ calls \in 0..MaxCalls /\ moves \in 0..MaxMoves

(* Nobody sends on the resultCh of a call after it is closed: then every task of    *)
(* the call is over (simd_solver.go:289-316: wg.Add before the task is in taskCh,   *)
(* wg.Done after the send, close after wg.Wait).                                    *)
NoSendAfterClose ==
    \A c \in Callers : ~caller[c].open =>
        /\ \A i \in DOMAIN taskCh : taskCh[i].by # c
        /\ \A w \in Workers : wk[w].pc # "idle" => wk[w].task.by # c

(* What a pool pays out by its own rule, which counts in integers and rounds down, *)
(* for the fee it really charges; the executor tells it a direction, not a token.  *)
PaidByV2(p, zeroForOne, r, amount) ==
    LET in == IF zeroForOne THEN r[1] ELSE r[2]
        out == IF zeroForOne THEN r[2] ELSE r[1]
    IN (out * Kept(p) * amount) \div (in * FeeUnit + Kept(p) * amount)

(* The pool stops at a price that covers what it was paid in full, and pays no more  *)
(* than the liquidity holds between the two prices; token1 per token0 falls when     *)
(* token0 comes in.  No price is beyond MaxSqrt in either direction.                 *)
PaidByV3(p, zeroForOne, r, amount) ==
    LET sp == r[3]
        liquidity == r[4]
        paid == ((FeeUnit * Pips - Pools[p].fee * Pips) * amount) \div (FeeUnit * Pips)
        covers(n) ==
            IF zeroForOne THEN liquidity * Q96 * (sp - n) <= paid * sp * n
                          ELSE liquidity * (n - sp) <= paid * Q96
        last(n) == IF zeroForOne THEN n = MinSqrt \/ ~covers(n - 1)
                                 ELSE n = MaxSqrt \/ ~covers(n + 1)
        stop == CHOOSE n \in MinSqrt .. MaxSqrt : covers(n) /\ last(n)
    IN IF zeroForOne THEN (liquidity * (sp - stop)) \div Q96
       ELSE (liquidity * Q96 * (stop - sp)) \div (sp * stop)

PaidBy(p, zeroForOne, r, amount) ==
    IF Pools[p].v3 THEN PaidByV3(p, zeroForOne, r, amount) ELSE PaidByV2(p, zeroForOne, r, amount)

(* The amount the solver counted as entering hop i, and the tokens that hop trades *)
(* in the direction the executor is told.                                          *)
Entering(cand, i) == IF i = 1 THEN cand.amountIn ELSE cand.outs[i - 1]
Sells(cand, i) == IF cand.zeroForOnes[i] THEN Pools[cand.pools[i]].t0 ELSE Pools[cand.pools[i]].t1
Buys(cand, i) == IF cand.zeroForOnes[i] THEN Pools[cand.pools[i]].t1 ELSE Pools[cand.pools[i]].t0

(* In the directions it names a candidate is a round trip from an anchor through    *)
(* different pools; each hop clears its minimum output on the reserves it was       *)
(* computed from.                                                                   *)
HoldsUp(cand) ==
    LET hops == DOMAIN cand.pools
    IN /\ IsInjective(cand.pools)
       /\ Sells(cand, 1) \in Anchors
       /\ \A i \in hops : Buys(cand, i) = Sells(cand, (i % Len(cand.pools)) + 1)
       /\ \A i \in hops :
            PaidBy(cand.pools[i], cand.zeroForOnes[i], cand.read[i], Entering(cand, i))
                >= cand.minOuts[i]

(* The solver computes V2 swaps in float64, may round them up and takes a fee of 0  *)
(* for 30 basis points: yet every candidate it sends or the callback returns holds  *)
(* up against pools that count in integers, the buffer of 1 % covering the rest,    *)
(* and what is returned pays the costs (simd_solver.go:616-742, 786-907;            *)
(* v3_math.go:277-340; main.go:378-439).                                            *)
OffersHoldUp ==
    \A c \in Callers :
        /\ \A cand \in caller[c].got \cup ToSet(caller[c].chan) \cup caller[c].answer :
            HoldsUp(cand) /\ cand.net > MinProfit
        /\ \A cand \in caller[c].answer : cand.net >= MinProfit + Costs

(* What a call and a worker can be waiting for. *)
Waits(c) ==
    \/ caller[c].pc = "sending" /\ Len(taskCh) = TaskCap
    \/ caller[c].pc = "drain" /\ caller[c].chan = <<>> /\ caller[c].open /\ caller[c].wg > 0
Starved(w) ==
    \/ wk[w].pc = "idle" /\ taskCh = <<>>
    \/ wk[w].pc = "send" /\ Len(caller[wk[w].task.by].chan) = ResultCap

(* No call waits while every other call and every worker waits too, although the    *)
(* tasks of all calls share taskCh and the workers, a worker may wait for room in a *)
(* resultCh, and a call receives nothing before its last task is in taskCh          *)
(* (simd_solver.go:248-258, 289-321).                                               *)
NobodyWaitsOnEverybody ==
    (/\ \A w \in Workers : Starved(w)
     /\ \A c \in Callers : caller[c].pc = "idle" \/ Waits(c))
    => \A c \in Callers : caller[c].pc = "idle"

=============================================================================
