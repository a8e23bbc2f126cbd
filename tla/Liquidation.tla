----------------------------- MODULE Liquidation -----------------------------
(* The liquidation tracker of liquidity.go: two log processors and a poller   *)
(* read the lending protocols, keep the positions they find, and turn an      *)
(* unhealthy one into a payload, one attempt per user at a time.  What users  *)
(* owe changes between any two calls to the node; a call may fail, come back  *)
(* empty or in a form that cannot be decoded.                                 *)
(* Amounts are US dollars, factors are percents and profits are cents.        *)
EXTENDS Integers, Sequences, FiniteSets

CONSTANTS
    Users,          \* borrowers
    Processors,     \* goroutines that handle events; Run starts two
    Protocols,      \* the lending protocols in use
    Accounts,       \* [coll, rest, debt] records a user may have at a protocol
    Payloads,       \* payload objects
    LogCap,         \* size of logChan
    ExecCap,        \* size of the execution channel
    MinProfit,      \* LiquidationMinProfitUSD
    WithGEVM,       \* the tracker has a simulator
    AbiParses,      \* abi.JSON accepts the text of executorABI
    MaxChanges,     \* bound: changes of accounts and prices
    MaxFaults       \* bound: bad answers, failed simulations, silent periods

ProtocolNames == {"Aave", "Compound", "Morpho", "Exactly", "Moonwell", "Ionic"}

\* Of a user's collateral, coll is WETH and rest is in another asset.
Empty == [coll |-> 0, rest |-> 0, debt |-> 0]

ASSUME LiquidationAssumption ==
    /\ Protocols \subseteq ProtocolNames /\ "poller" \notin Processors
    /\ "none" \notin Payloads
    /\ Accounts \subseteq [coll : Nat, rest : Nat, debt : Nat] /\ Empty \in Accounts
    /\ LogCap \in Nat /\ ExecCap \in Nat /\ MinProfit \in Nat
    /\ WithGEVM \in BOOLEAN /\ AbiParses \in BOOLEAN
    /\ MaxChanges \in Nat /\ MaxFaults \in Nat

VARIABLES
    chain,          \* chain[u][pr]: what u has at protocol pr
    priced,         \* the matrix has a price for WETH
    changes, faults,
    justified,      \* history: accounts that were liquidatable, or looked so without a price
    logChan,        \* events received and not handled
    positions,      \* Tracker.positions, at most one per user
    known,          \* Tracker.knownUsers
    quiet,          \* users whose position is older than ten minutes
    liquidating,    \* Tracker.liquidating
    actor,          \* locals of the processors and of the poller
    pool,           \* payloadPool
    load,           \* contents of the payload objects
    exec            \* executionChan

environment == <<chain, priced, changes, justified>>
tracker == <<positions, known, quiet>>
output == <<pool, load, exec>>
vars == <<environment, faults, logChan, tracker, liquidating, actor, output>>

Actors == Processors \cup {"poller"}
Nobody == "nobody"
None == "none"
-----------------------------------------------------------------------------
(* The six readings.  A handler calls the node twice, and what it learns is  *)
(* of the account at the first call (a) and at the second (b); it finds no   *)
(* position, or one with a debt and a verdict on its health.  A reading is   *)
(* sound if it is of one account, and of all that the account holds.         *)

NoReading == {}
Found(pr, debt, unhealthy, sound) ==
    {[proto |-> pr, debt |-> debt, unhealthy |-> unhealthy, sound |-> sound]}

Total(acc) == acc.coll + acc.rest

\* getUserReserves, then the health factor that the pool computes itself.
updateAave(a, b) ==
    IF Total(a) = 0 \/ a.debt = 0 THEN NoReading
    ELSE Found("Aave", a.debt, Total(b) * 80 < b.debt * 100, a = b)

\* What Compound's handler makes of an account whose WETH it has not seen: the next
\* asset's six decimals are taken for eighteen, and it counts for nothing.
WithoutWETH(a, b) ==
    IF a.debt = 0 \/ b.rest = 0 THEN NoReading ELSE Found("Compound", a.debt, TRUE, FALSE)

\* The debt, then the first asset with a balance, valued with the price of WETH,
\* which is not tested.  The calls for the assets are one: a reading that reaches
\* the second is not sound, whatever moves between them.
updateCompound(a, b) ==
    IF a.debt = 0 THEN NoReading
    ELSE IF b.coll = 0 THEN WithoutWETH(a, b)
    ELSE Found("Compound", a.debt, ~ priced \/ b.coll * 85 < a.debt * 100, a = b /\ b.rest = 0)

\* The market's parameters, then the position; both prices are needed.
updateMorpho(a, b) ==
    IF b.debt = 0 \/ ~ priced THEN NoReading
    ELSE Found("Morpho", b.debt, Total(b) * 86 < b.debt * 100, a = b)

\* The markets entered, then the account's liquidity.
updateExactly(a, b) ==
    IF a = Empty \/ Total(b) = 0 \/ b.debt = 0 THEN NoReading
    ELSE Found("Exactly", b.debt, Total(b) < b.debt, a = b)

\* The snapshot, then the underlying asset; a debt without a price is worth 0.
updateMoonwell(a, b) ==
    IF a.debt = 0 THEN NoReading
    ELSE Found("Moonwell", a.debt, ~ priced \/ Total(a) < a.debt, a = b)

updateIonic(a, b) ==
    IF b.debt = 0 THEN NoReading ELSE Found("Ionic", b.debt, Total(b) < b.debt, a = b)

\* An empty second answer.  Aave's health is then 0 and no error; Compound's handler
\* goes on to the next asset, Moonwell's without the underlying asset; the others
\* return.
Unanswered(pr, a, b) ==
    CASE pr = "Aave" /\ Total(a) > 0 /\ a.debt > 0 -> Found("Aave", a.debt, TRUE, FALSE)
      [] pr = "Compound"                           -> WithoutWETH(a, b)
      [] pr = "Moonwell"                           -> updateMoonwell(a, b)
      [] OTHER                                     -> NoReading

updatePosition(pr, a, b) ==
    CASE pr = "Aave"     -> updateAave(a, b)
      [] pr = "Compound" -> updateCompound(a, b)
      [] pr = "Morpho"   -> updateMorpho(a, b)
      [] pr = "Exactly"  -> updateExactly(a, b)
      [] pr = "Moonwell" -> updateMoonwell(a, b)
      [] pr = "Ionic"    -> updateIonic(a, b)

\* Bonus in percent: Aave's for volatile collateral, 5 elsewhere; Morpho's 86 %
\* market is above the thresholds of the higher bonuses.
Bonus(pr) == IF pr = "Aave" THEN 10 ELSE 5

\* estimateProfit: the bonus less half a percent, less two dollars.
estimateProfit(pr, debt) ==
    LET net == (debt * Bonus(pr) * 995) \div 1000 - 200 IN IF net < 0 THEN 0 ELSE net

\* The user handleLog takes from an event, if it finds one: an Aave repayment
\* and every Morpho event name something else first.
EventUser(pr, kind, u) ==
    IF pr = "Morpho" \/ (pr = "Aave" /\ kind = "repay") THEN Nobody ELSE u
-----------------------------------------------------------------------------
NoPosition == [proto |-> None, debt |-> 0, unhealthy |-> FALSE, sound |-> TRUE]

Blank == [user |-> Nobody, pos |-> NoPosition]

IdleActor ==
    [pc |-> "idle", user |-> Nobody, proto |-> None, first |-> Empty,
     pos |-> NoPosition, payload |-> None, todo |-> {}]

Init ==
    /\ chain = [u \in Users |-> [pr \in Protocols |-> Empty]]
    /\ priced = TRUE /\ changes = 0 /\ faults = 0 /\ justified = {}
    /\ logChan = <<>>
    /\ positions = [u \in Users |-> NoPosition] /\ known = {} /\ quiet = {}
    /\ liquidating = {}
    /\ actor = [a \in Actors |-> IdleActor]
    /\ pool = Payloads
    /\ load = [p \in Payloads |-> Blank]
    /\ exec = <<>>
-----------------------------------------------------------------------------
(* The lending protocols and the prices. *)

\* Where the rule of a protocol allows a liquidation.
Threshold(pr) ==
    CASE pr = "Aave" -> 80 [] pr = "Compound" -> 85 [] pr = "Morpho" -> 86 [] OTHER -> 100

Under(pr, acc) == acc.debt > 0 /\ Total(acc) * Threshold(pr) < acc.debt * 100

\* Protocols whose debt or collateral the tracker values with the price of WETH
\* without asking whether there is one.
Blind == {"Compound", "Moonwell"}

Justify ==
    justified' = justified \cup
        {up \in Users \X Protocols :
            Under(up[2], chain'[up[1]][up[2]]) \/ (~ priced' /\ up[2] \in Blind)}

\* A user borrows, repays or is hit by a price; the subscription delivers the
\* event of the first two unless the channel is full or the connection is down.
AccountMoves(u, pr, acc) ==
    /\ changes < MaxChanges
    /\ acc # chain[u][pr]
    /\ chain' = [chain EXCEPT ![u][pr] = acc]
    /\ changes' = changes + 1
    /\ LET kind == IF acc.debt > chain[u][pr].debt THEN "borrow" ELSE "repay"
           event == [user |-> EventUser(pr, kind, u), proto |-> pr] IN
        \/ Len(logChan) < LogCap /\ logChan' = Append(logChan, event)
        \/ UNCHANGED logChan
    /\ UNCHANGED priced /\ Justify
    /\ UNCHANGED <<faults, tracker, liquidating, actor, output>>

\* The matrix loses or regains its pool of WETH and USDC.
PriceMoves ==
    /\ changes < MaxChanges
    /\ priced' = ~ priced
    /\ changes' = changes + 1
    /\ UNCHANGED chain /\ Justify
    /\ UNCHANGED <<faults, logChan, tracker, liquidating, actor, output>>
-----------------------------------------------------------------------------
(* Processors and poller. *)

Goto(a, pc) == actor' = [actor EXCEPT ![a].pc = pc]

\* The handler of one position ends; the poller goes on with what is left.
Done(a) ==
    LET left == actor[a].todo IN
    actor' = [actor EXCEPT ![a] =
                [IdleActor EXCEPT !.todo = left, !.pc = IF left = {} THEN "idle" ELSE "next"]]

\* handleLog: an event without a user is ignored.
TakeLog(a) ==
    /\ a \in Processors /\ actor[a].pc = "idle"
    /\ logChan # <<>>
    /\ logChan' = Tail(logChan)
    /\ LET event == Head(logChan) IN
        actor' = IF event.user \notin Users THEN actor
                 ELSE [actor EXCEPT ![a].pc = "first", ![a].user = event.user, ![a].proto = event.proto]
    /\ UNCHANGED <<environment, faults, tracker, liquidating, output>>

\* checkAllPositions copies the known users and asks every protocol for each.
PollStart ==
    /\ actor["poller"].pc = "idle"
    /\ actor' = [actor EXCEPT !["poller"].pc = IF known = {} THEN "idle" ELSE "next",
                              !["poller"].todo = known \X Protocols]
    /\ UNCHANGED <<environment, faults, logChan, tracker, liquidating, output>>

PollNext ==
    /\ actor["poller"].pc = "next"
    /\ \E job \in actor["poller"].todo :
        actor' = [actor EXCEPT !["poller"].pc = "first", !["poller"].todo = @ \ {job},
                               !["poller"].user = job[1], !["poller"].proto = job[2]]
    /\ UNCHANGED <<environment, faults, logChan, tracker, liquidating, output>>

\* The first answer of the node about the account.
ReadFirst(a) ==
    /\ actor[a].pc = "first"
    /\ actor' = [actor EXCEPT ![a].pc = "second", ![a].first = chain[actor[a].user][actor[a].proto]]
    /\ UNCHANGED <<environment, faults, logChan, tracker, liquidating, output>>

\* The handler has learnt what it can: it returns or has a position.
Conclude(a, found) ==
    \/ found = NoReading /\ Done(a)
    \/ \E pos \in found :
          actor' = [actor EXCEPT ![a].pc = "store", ![a].pos = pos, ![a].first = Empty]

\* The second answer, and what the handler makes of the two.
ReadSecond(a) ==
    /\ actor[a].pc = "second"
    /\ LET u == actor[a].user
           pr == actor[a].proto IN
        Conclude(a, updatePosition(pr, actor[a].first, chain[u][pr]))
    /\ UNCHANGED <<environment, faults, logChan, tracker, liquidating, output>>

\* A call fails: the handler returns, or goes on without what it asked for.
ReadFails(a) ==
    /\ actor[a].pc \in {"first", "second"}
    /\ faults < MaxFaults /\ faults' = faults + 1
    /\ LET u == actor[a].user
           pr == actor[a].proto IN
        \/ Done(a)
        \/ /\ actor[a].pc = "second"
           /\ Conclude(a, Unanswered(pr, actor[a].first, chain[u][pr]))
    /\ UNCHANGED <<environment, logChan, tracker, liquidating, output>>

\* An answer that cannot be decoded leaves Compound's handler with a nil number and
\* it panics: Run ends, or with a log processor the whole program.
ReadPanics(a) ==
    /\ actor[a].pc \in {"first", "second"} /\ actor[a].proto = "Compound"
    /\ faults < MaxFaults /\ faults' = faults + 1
    /\ actor' = [actor EXCEPT ![a] = [IdleActor EXCEPT !.pc = "gone"]]
    /\ UNCHANGED <<environment, logChan, tracker, liquidating, output>>

\* storePosition; only an unhealthy position goes on.
StorePosition(a) ==
    /\ actor[a].pc = "store"
    /\ positions' = [positions EXCEPT ![actor[a].user] = actor[a].pos]
    /\ known' = known \cup {actor[a].user}
    /\ quiet' = quiet \ {actor[a].user}
    /\ IF actor[a].pos.unhealthy THEN Goto(a, "trigger") ELSE Done(a)
    /\ UNCHANGED <<environment, faults, logChan, liquidating, output>>

\* Faulty variant: the mark is tested and not set.
TriggerNoMark(a) ==
    /\ actor[a].pc = "trigger"
    /\ IF actor[a].user \in liquidating THEN Done(a) ELSE Goto(a, "estimate")
    /\ UNCHANGED <<environment, faults, logChan, tracker, liquidating, output>>

\* triggerLiquidation under liquidatingMu: one attempt per user at a time.
Trigger(a) ==
    /\ actor[a].pc = "trigger"
    /\ IF actor[a].user \in liquidating
       THEN Done(a) /\ UNCHANGED liquidating
       ELSE Goto(a, "estimate") /\ liquidating' = liquidating \cup {actor[a].user}
    /\ UNCHANGED <<environment, faults, logChan, tracker, output>>

\* What has to hold before a payload is taken: enough profit, and data that can
\* be packed, which for Morpho takes the two prices once more.
Packs(a) ==
    LET pos == actor[a].pos IN
        /\ estimateProfit(pos.proto, pos.debt) >= MinProfit * 100
        /\ pos.proto = "Morpho" => priced
        /\ AbiParses

GiveUp(a) ==
    /\ actor[a].pc = "estimate" /\ ~ Packs(a)
    /\ Goto(a, "release")
    /\ UNCHANGED <<environment, faults, logChan, tracker, liquidating, output>>

\* Faulty variant: the payload is filled from the map and not from what was read.
BuildFromMap(a) ==
    /\ actor[a].pc = "estimate" /\ Packs(a)
    /\ \E p \in pool :
        /\ pool' = pool \ {p}
        /\ load' = [load EXCEPT ![p] = [user |-> actor[a].user, pos |-> positions[actor[a].user]]]
        /\ actor' = [actor EXCEPT ![a].pc = IF WithGEVM THEN "simulate" ELSE "submit", ![a].payload = p]
    /\ UNCHANGED <<environment, faults, logChan, tracker, liquidating, exec>>

\* The payload is taken from the pool, reset and filled.
Build(a) ==
    /\ actor[a].pc = "estimate" /\ Packs(a)
    /\ \E p \in pool :
        /\ pool' = pool \ {p}
        /\ load' = [load EXCEPT ![p] = [user |-> actor[a].user, pos |-> actor[a].pos]]
        /\ actor' = [actor EXCEPT ![a].pc = IF WithGEVM THEN "simulate" ELSE "submit", ![a].payload = p]
    /\ UNCHANGED <<environment, faults, logChan, tracker, liquidating, exec>>

SimulatePass(a) ==
    /\ actor[a].pc = "simulate"
    /\ Goto(a, "submit")
    /\ UNCHANGED <<environment, faults, logChan, tracker, liquidating, output>>

\* The payload goes back and the attempt ends.
PutBack(a) ==
    /\ pool' = pool \cup {actor[a].payload}
    /\ actor' = [actor EXCEPT ![a].pc = "release", ![a].payload = None]
    /\ UNCHANGED <<load, exec>>

SimulateFail(a) ==
    /\ actor[a].pc = "simulate"
    /\ faults < MaxFaults /\ faults' = faults + 1
    /\ PutBack(a)
    /\ UNCHANGED <<environment, logChan, tracker, liquidating>>

\* Faulty variant: the payload is put back although the channel has it.
SubmitAndPut(a) ==
    /\ actor[a].pc = "submit"
    /\ Len(exec) < ExecCap
    /\ exec' = Append(exec, actor[a].payload)
    /\ pool' = pool \cup {actor[a].payload}
    /\ actor' = [actor EXCEPT ![a].pc = "release", ![a].payload = None]
    /\ UNCHANGED <<environment, faults, logChan, tracker, liquidating, load>>

Submit(a) ==
    /\ actor[a].pc = "submit"
    /\ Len(exec) < ExecCap
    /\ exec' = Append(exec, actor[a].payload)
    /\ actor' = [actor EXCEPT ![a].pc = "release", ![a].payload = None]
    /\ UNCHANGED <<environment, faults, logChan, tracker, liquidating, pool, load>>

ChannelFull(a) ==
    /\ actor[a].pc = "submit"
    /\ Len(exec) = ExecCap
    /\ PutBack(a)
    /\ UNCHANGED <<environment, faults, logChan, tracker, liquidating>>

\* The deferred function removes the mark.
Release(a) ==
    /\ actor[a].pc = "release"
    /\ liquidating' = liquidating \ {actor[a].user}
    /\ Done(a)
    /\ UNCHANGED <<environment, faults, logChan, tracker, output>>

Actor(a) ==
    \/ TakeLog(a)
    \/ a = "poller" /\ (PollStart \/ PollNext)
    \/ ReadFirst(a) \/ ReadSecond(a) \/ ReadFails(a) \/ ReadPanics(a) \/ StorePosition(a)
    \/ Trigger(a) \/ GiveUp(a) \/ Build(a)
    \/ SimulatePass(a) \/ SimulateFail(a) \/ Submit(a) \/ ChannelFull(a) \/ Release(a)
-----------------------------------------------------------------------------
\* worker3 takes a payload and puts the object back when it is done with it.
Consume ==
    /\ exec # <<>>
    /\ exec' = Tail(exec)
    /\ pool' = pool \cup {Head(exec)}
    /\ UNCHANGED <<environment, faults, logChan, tracker, liquidating, actor, load>>

\* Ten minutes without a reading of u: its calls fail or hang.
TenMinutes(u) ==
    /\ u \in known \ quiet
    /\ faults < MaxFaults /\ faults' = faults + 1
    /\ quiet' = quiet \cup {u}
    /\ UNCHANGED <<environment, logChan, positions, known, liquidating, actor, output>>

\* Faulty variant: the marks of age outlive the users.
CleanupUsers ==
    /\ quiet # {}
    /\ positions' = [u \in Users |-> IF u \in quiet THEN NoPosition ELSE positions[u]]
    /\ known' = known \ quiet
    /\ UNCHANGED <<environment, faults, logChan, quiet, liquidating, actor, output>>

\* Every five minutes the positions that have become old are deleted.
Cleanup ==
    /\ quiet # {}
    /\ positions' = [u \in Users |-> IF u \in quiet THEN NoPosition ELSE positions[u]]
    /\ known' = known \ quiet
    /\ quiet' = {}
    /\ UNCHANGED <<environment, faults, logChan, liquidating, actor, output>>

Next ==
    \/ \E u \in Users, pr \in Protocols, acc \in Accounts : AccountMoves(u, pr, acc)
    \/ PriceMoves
    \/ \E a \in Actors : Actor(a)
    \/ Consume
    \/ \E u \in Users : TenMinutes(u)
    \/ Cleanup

Spec == Init /\ [][Next]_vars
-----------------------------------------------------------------------------
Pcs == {"idle", "next", "first", "second", "store", "trigger", "estimate",
        "simulate", "submit", "release", "gone"}

PositionRecords == [proto : Protocols, debt : Nat, unhealthy : BOOLEAN, sound : BOOLEAN] \cup {NoPosition}

ActorRecords ==
    [pc : Pcs, user : Users \cup {Nobody}, proto : Protocols \cup {None}, first : Accounts,
     pos : PositionRecords, payload : Payloads \cup {None}, todo : SUBSET (Users \X Protocols)]

\* An actor that has marked its user and not released it.
Attempting(a) == actor[a].pc \in {"estimate", "simulate", "submit", "release"}

\* Types of the variables of the tracker of liquidity.go.
TypeOK ==
    /\ chain \in [Users -> [Protocols -> Accounts]] /\ priced \in BOOLEAN
    /\ changes \in 0..MaxChanges /\ faults \in 0..MaxFaults
    /\ justified \subseteq Users \X Protocols
    /\ logChan \in Seq([user : Users \cup {Nobody}, proto : Protocols]) /\ Len(logChan) <= LogCap
    /\ positions \in [Users -> PositionRecords] /\ known \subseteq Users /\ quiet \subseteq known
    /\ liquidating \subseteq Users
    /\ actor \in [Actors -> ActorRecords]
    /\ pool \subseteq Payloads
    /\ load \in [Payloads -> [user : Users \cup {Nobody}, pos : PositionRecords]]
    /\ exec \in Seq(Payloads) /\ Len(exec) <= ExecCap

\* A user is marked exactly while one processor, or the poller, makes an attempt
\* on it, whichever of its exits triggerLiquidation takes.
OneAttemptPerUser ==
    /\ liquidating = {actor[a].user : a \in {b \in Actors : Attempting(b)}}
    /\ \A a, b \in Actors :
          Attempting(a) /\ Attempting(b) /\ actor[a].user = actor[b].user => a = b

\* A payload object is in the pool, with one actor or once in the channel:
\* every exit of triggerLiquidation passes it on or puts it back, once.
OnePlacePerPayload ==
    LET held(p) == {a \in Actors : actor[a].payload = p}
        queued(p) == {i \in 1..Len(exec) : exec[i] = p} IN
    \A p \in Payloads :
        Cardinality(held(p)) + Cardinality(queued(p)) + (IF p \in pool THEN 1 ELSE 0) = 1

\* A healthy account is sent to be liquidated only on a reading that was not of one
\* whole account: neither another protocol's position of the same user nor another
\* user's is mixed in, though the map has one per user (liquidity.go:1098), and a
\* sound reading is acted on only where that account was liquidatable at some
\* moment, or looked so for want of a price.
HealthyOnlyIfMisread ==
    \A i \in 1..Len(exec) :
        LET l == load[exec[i]] IN l.pos.sound => <<l.user, l.pos.proto>> \in justified
=============================================================================
