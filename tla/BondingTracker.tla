--------------------------- MODULE BondingTracker ---------------------------
(* Bonding/tracker.go: logs of bonding-curve platforms come over one        *)
(* subscription into a channel; processors parse them, keep one candidate   *)
(* per token, claim it, read it again without the lock, simulate and submit *)
(* a payload.  worker1 clears the tracker when it sees a reorg.             *)
(*                                                                          *)
(* Amounts are in units of 10^15 wei.                                       *)
EXTENDS Integers, Sequences

CONSTANTS
    Tokens,         \* token addresses
    Processors,     \* goroutines that run logProcessor
    Readings,       \* what a platform may report: [platform, current, target]
    LogCap,         \* capacity of logChan
    MaxLogs,        \* bound: logs the node emits
    Word,           \* 2^256, in the unit of the amounts
    AnyOfTopics,    \* the subscription asks for any of the topics (see Positions)
    Misread         \* what a ClawLaunch log is misread as: an address that is no token

Platforms == <<"Virtuals", "MoltMoon", "BaseMeme", "ClawLaunch", "PumpBase", "Thryx">>

PlatformNames == {"Virtuals", "MoltMoon", "BaseMeme", "ClawLaunch", "PumpBase", "Thryx"}

ASSUME TrackerAssumption ==
    /\ Readings \subseteq [platform : PlatformNames, current : Nat, target : Nat]
    /\ LogCap \in Nat \ {0} /\ MaxLogs \in Nat /\ Word \in Nat \ {0}
    /\ AnyOfTopics \in BOOLEAN
    /\ Misread \notin Tokens

VARIABLES
    logChan,        \* logs received and not taken
    emitted,        \* number of logs the node has emitted
    proc,           \* locals of each processor
    heap,           \* BondingCandidate objects, by order of creation
    made,           \* number of them
    candidates,     \* t.candidates: token to object, 0 if there is none
    old,            \* objects whose LastUpdate is more than 24 hours ago
    cancelled,      \* ctx is done
    seen,           \* history: logs that were taken from the channel
    sent,           \* history: payloads submitted for each object
    pushes          \* history: token, amount and minimum of each payload

vars == <<logChan, emitted, proc, heap, made, candidates, old, cancelled, seen, sent, pushes>>
-----------------------------------------------------------------------------
\* Positions of the topic filter: one per platform, as runWebSocketSubscription
\* builds it, or one that takes any platform.
Positions ==
    IF AnyOfTopics THEN <<PlatformNames>>
    ELSE [i \in DOMAIN Platforms |-> {Platforms[i]}]

\* The node's rule: every position asks something of the topic in the same place.
Accepts(topics) ==
    /\ Len(Positions) <= Len(topics)
    /\ \A i \in DOMAIN Positions : topics[i] \in Positions[i]

Ids == 1..MaxLogs

Addresses == Tokens \cup {Misread}

Logs == [token : Tokens, reading : Readings]

Is999Percent(current, target) == target # 0 /\ current * 10000 >= target * 9990

ClawTarget == 5000
PumpFloor == 206
PumpWindow == 50
PumpPush == 10
ThryxThreshold == 1000000

\* At 99.9%: the log makes a candidate.
NearGraduation(r) ==
    CASE r.platform = "PumpBase" -> r.current > PumpFloor /\ r.current - PumpFloor < PumpWindow
      [] r.platform = "Thryx" -> r.current < ThryxThreshold
      [] r.platform = "ClawLaunch" -> Is999Percent(r.current, ClawTarget)
      [] OTHER -> Is999Percent(r.current, r.target)

\* RequiredInput; below zero when the curve is past its target.
RequiredInput(r) ==
    CASE r.platform = "PumpBase" -> PumpPush
      [] r.platform = "Thryx" -> r.current
      [] r.platform = "ClawLaunch" -> ClawTarget - r.current
      [] OTHER -> r.target - r.current

\* The address parseLog takes for the token: for ClawLaunch it reads the word that
\* holds the balance.
TokenAddress(l) == IF l.reading.platform = "ClawLaunch" THEN Misread ELSE l.token

MinAmountOut(required) == (required * 985) \div 1000

\* ABI packing of a big.Int as a uint256: two's complement, without an error.
Packed(n) == n % Word

NoCandidate == [token |-> Misread, contract |-> "none", required |-> 0, graduating |-> FALSE]

Parsed(l) ==
    [token |-> TokenAddress(l), contract |-> l.reading.platform,
     required |-> RequiredInput(l.reading), graduating |-> FALSE]

IdleProcessor == [pc |-> "idle", parsed |-> NoCandidate, obj |-> 0, minOut |-> 0, amount |-> 0]

\* The objects a processor has claimed and not yet let go.
Qualifying == {"claimed", "building", "simulate", "send"}

AtWork(i) == {p \in Processors : proc[p].pc \in Qualifying /\ proc[p].obj = i}

Init ==
    /\ logChan = <<>>
    /\ emitted = 0
    /\ proc = [p \in Processors |-> IdleProcessor]
    /\ heap = [i \in Ids |-> NoCandidate]
    /\ made = 0
    /\ candidates = [t \in Addresses |-> 0]
    /\ old = {}
    /\ cancelled = FALSE
    /\ seen = {}
    /\ sent = [i \in Ids |-> 0]
    /\ pushes = {}
-----------------------------------------------------------------------------
\* Faulty variant: the reader does not mind a full channel.
EmitUnbounded(l) ==
    /\ emitted < MaxLogs
    /\ emitted' = emitted + 1
    /\ logChan' = IF Accepts(<<l.reading.platform, l.token>>) THEN Append(logChan, l) ELSE logChan
    /\ UNCHANGED <<proc, heap, made, candidates, old, cancelled, seen, sent, pushes>>

\* The node emits a log; what passes the filter is queued, or dropped when the
\* channel is full.
Emit(l) ==
    /\ emitted < MaxLogs
    /\ emitted' = emitted + 1
    /\ logChan' = IF Accepts(<<l.reading.platform, l.token>>) /\ Len(logChan) < LogCap
                  THEN Append(logChan, l) ELSE logChan
    /\ UNCHANGED <<proc, heap, made, candidates, old, cancelled, seen, sent, pushes>>

\* Faulty variant: parseLog does not ask how near the graduation is.
TakeLogAny(p) ==
    /\ proc[p].pc = "idle" /\ logChan # <<>>
    /\ logChan' = Tail(logChan)
    /\ seen' = seen \cup {Head(logChan)}
    /\ proc' = [proc EXCEPT ![p] = [IdleProcessor EXCEPT !.pc = "parsed",
                                                        !.parsed = Parsed(Head(logChan))]]
    /\ UNCHANGED <<emitted, heap, made, candidates, old, cancelled, sent, pushes>>

\* logProcessor takes a log, parseLog keeps what is near its graduation.
TakeLog(p) ==
    /\ proc[p].pc = "idle" /\ logChan # <<>>
    /\ logChan' = Tail(logChan)
    /\ seen' = seen \cup {Head(logChan)}
    /\ proc' = IF NearGraduation(Head(logChan).reading)
               THEN [proc EXCEPT ![p] = [IdleProcessor EXCEPT !.pc = "parsed",
                                                              !.parsed = Parsed(Head(logChan))]]
               ELSE proc
    /\ UNCHANGED <<emitted, heap, made, candidates, old, cancelled, sent, pushes>>

\* Faulty variant: the new reading replaces the candidate, its mark included.
StoreKnownReplaces(p) ==
    /\ proc[p].pc = "parsed"
    /\ LET i == candidates[proc[p].parsed.token] IN
        /\ i # 0
        /\ heap' = [heap EXCEPT ![i] = proc[p].parsed]
        /\ old' = old \ {i}
        /\ proc' = [proc EXCEPT ![p] = [@ EXCEPT !.pc = "stored", !.obj = i]]
    /\ UNCHANGED <<logChan, emitted, made, candidates, cancelled, seen, sent, pushes>>

\* handleLog under the lock: update the token's candidate, or list a new one.
StoreKnown(p) ==
    /\ proc[p].pc = "parsed"
    /\ LET i == candidates[proc[p].parsed.token] IN
        /\ i # 0
        /\ heap' = [heap EXCEPT ![i] = [@ EXCEPT !.required = proc[p].parsed.required]]
        /\ old' = old \ {i}
        /\ proc' = [proc EXCEPT ![p] = [@ EXCEPT !.pc = "stored", !.obj = i]]
    /\ UNCHANGED <<logChan, emitted, made, candidates, cancelled, seen, sent, pushes>>

StoreNew(p) ==
    /\ proc[p].pc = "parsed"
    /\ candidates[proc[p].parsed.token] = 0
    /\ made < MaxLogs            \* bound: a log makes one candidate at most
    /\ made' = made + 1
    /\ heap' = [heap EXCEPT ![made + 1] = proc[p].parsed]
    /\ candidates' = [candidates EXCEPT ![proc[p].parsed.token] = made + 1]
    /\ proc' = [proc EXCEPT ![p] = [@ EXCEPT !.pc = "stored", !.obj = made + 1]]
    /\ UNCHANGED <<logChan, emitted, old, cancelled, seen, sent, pushes>>

\* Faulty variant: Graduating is tested and not set.
ClaimNoSet(p) ==
    /\ proc[p].pc = "stored"
    /\ ~ heap[proc[p].obj].graduating
    /\ heap' = heap
    /\ proc' = [proc EXCEPT ![p] = [@ EXCEPT !.pc = "claimed"]]
    /\ UNCHANGED <<logChan, emitted, made, candidates, old, cancelled, seen, sent, pushes>>

\* qualifyCandidate under the lock: one processor claims the candidate.
Claim(p) ==
    /\ proc[p].pc = "stored"
    /\ ~ heap[proc[p].obj].graduating
    /\ heap' = [heap EXCEPT ![proc[p].obj] = [@ EXCEPT !.graduating = TRUE]]
    /\ proc' = [proc EXCEPT ![p] = [@ EXCEPT !.pc = "claimed"]]
    /\ UNCHANGED <<logChan, emitted, made, candidates, old, cancelled, seen, sent, pushes>>

LeaveClaimed(p) ==
    /\ proc[p].pc = "stored"
    /\ heap[proc[p].obj].graduating
    /\ proc' = [proc EXCEPT ![p] = IdleProcessor]
    /\ UNCHANGED <<logChan, emitted, heap, made, candidates, old, cancelled, seen, sent, pushes>>

\* minAmountOut is computed from RequiredInput, read without the lock.
ComputeMinOut(p) ==
    /\ proc[p].pc = "claimed"
    /\ proc' = [proc EXCEPT ![p] =
                  [@ EXCEPT !.pc = "building", !.minOut = MinAmountOut(heap[proc[p].obj].required)]]
    /\ UNCHANGED <<logChan, emitted, heap, made, candidates, old, cancelled, seen, sent, pushes>>

\* buildFlashLoanCalldata reads RequiredInput again, and packs both as they are.
BuildCalldata(p) ==
    /\ proc[p].pc = "building"
    /\ proc' = [proc EXCEPT ![p] =
                  [@ EXCEPT !.pc = "simulate", !.amount = heap[proc[p].obj].required]]
    /\ UNCHANGED <<logChan, emitted, heap, made, candidates, old, cancelled, seen, sent, pushes>>

\* The simulation decides; failing, or panicking, it ends the qualification.
SimulatePass(p) ==
    /\ proc[p].pc = "simulate"
    /\ proc' = [proc EXCEPT ![p] = [@ EXCEPT !.pc = "send"]]
    /\ UNCHANGED <<logChan, emitted, heap, made, candidates, old, cancelled, seen, sent, pushes>>

SimulateFail(p) ==
    /\ proc[p].pc = "simulate"
    /\ proc' = [proc EXCEPT ![p] = IdleProcessor]
    /\ UNCHANGED <<logChan, emitted, heap, made, candidates, old, cancelled, seen, sent, pushes>>

\* sendPayload: the execution channel takes the payload, or is full and it is dropped.
SendPayload(p) ==
    /\ proc[p].pc = "send"
    /\ sent' = [sent EXCEPT ![proc[p].obj] = @ + 1]
    /\ pushes' = pushes \cup {[token |-> heap[proc[p].obj].token, amount |-> Packed(proc[p].amount),
                              minOut |-> Packed(proc[p].minOut)]}
    /\ proc' = [proc EXCEPT ![p] = IdleProcessor]
    /\ UNCHANGED <<logChan, emitted, heap, made, candidates, old, cancelled, seen>>

DropPayload(p) ==
    /\ proc[p].pc = "send"
    /\ proc' = [proc EXCEPT ![p] = IdleProcessor]
    /\ UNCHANGED <<logChan, emitted, heap, made, candidates, old, cancelled, seen, sent, pushes>>

\* A processor between two logs sees that ctx is done.
Stop(p) ==
    /\ cancelled /\ proc[p].pc = "idle"
    /\ proc' = [proc EXCEPT ![p] = [@ EXCEPT !.pc = "gone"]]
    /\ UNCHANGED <<logChan, emitted, heap, made, candidates, old, cancelled, seen, sent, pushes>>

Processor(p) ==
    \/ TakeLog(p) \/ StoreKnown(p) \/ StoreNew(p) \/ Claim(p) \/ LeaveClaimed(p)
    \/ ComputeMinOut(p) \/ BuildCalldata(p) \/ SimulatePass(p) \/ SimulateFail(p)
    \/ SendPayload(p) \/ DropPayload(p) \/ Stop(p)
-----------------------------------------------------------------------------
\* A day without logs; qualifying takes seconds.
DayPasses ==
    /\ \A p \in Processors : proc[p].pc \in {"idle", "gone"}
    /\ old' = {candidates[t] : t \in Addresses} \ {0}
    /\ old' # old
    /\ UNCHANGED <<logChan, emitted, proc, heap, made, candidates, cancelled, seen, sent, pushes>>

\* cleanupStaleCandidates
Cleanup ==
    /\ ~ cancelled /\ old # {}
    /\ candidates' = [t \in Addresses |-> IF candidates[t] \in old THEN 0 ELSE candidates[t]]
    /\ old' = {}
    /\ UNCHANGED <<logChan, emitted, proc, heap, made, cancelled, seen, sent, pushes>>

\* worker1, on a reorg, forgets every candidate; processors keep theirs.
Clear ==
    /\ ~ cancelled
    /\ candidates' = [t \in Addresses |-> 0]
    /\ old' = {}
    /\ UNCHANGED <<logChan, emitted, proc, heap, made, cancelled, seen, sent, pushes>>

Cancel ==
    /\ ~ cancelled
    /\ cancelled' = TRUE
    /\ UNCHANGED <<logChan, emitted, proc, heap, made, candidates, old, seen, sent, pushes>>

Next ==
    \/ \E l \in Logs : Emit(l)
    \/ \E p \in Processors : Processor(p)
    \/ DayPasses \/ Cleanup \/ Clear \/ Cancel

Spec == Init /\ [][Next]_vars
-----------------------------------------------------------------------------
Candidates ==
    [token : Addresses, contract : PlatformNames \cup {"none"}, required : Int, graduating : BOOLEAN]

Pcs == Qualifying \cup {"idle", "parsed", "stored", "gone"}

ProcessorRecords ==
    [pc : Pcs, parsed : Candidates, obj : 0..MaxLogs, minOut : Int, amount : Int]

ChanTypes == logChan \in Seq(Logs) /\ Len(logChan) <= LogCap /\ emitted \in 0..MaxLogs

ProcTypes == proc \in [Processors -> ProcessorRecords]

HeapTypes == heap \in [Ids -> Candidates]

MapTypes == made \in 0..MaxLogs /\ candidates \in [Addresses -> 0..made] /\ old \subseteq 1..made

HistTypes ==
    /\ cancelled \in BOOLEAN
    /\ seen \subseteq Logs
    /\ sent \in [Ids -> Nat]
    /\ pushes \subseteq [token : Addresses, amount : Nat, minOut : Nat]

TypeOK == ChanTypes /\ ProcTypes /\ HeapTypes /\ MapTypes /\ HistTypes

\* Two processors at work on one token have different candidates, and the tracker
\* has forgotten the older one: only Clear and Cleanup let a token be qualified
\* while it is being qualified (tracker.go:437-449, 466-472).
OneQualifierPerToken ==
    \A i, j \in 1..made :
        \A p \in AtWork(i), q \in AtWork(j) :
            p # q /\ heap[i].token = heap[j].token /\ i <= j =>
                i < j /\ candidates[heap[i].token] # i

\* What the platforms may ask for.
Needs == {RequiredInput(r) : r \in Readings}

\* One of these logs, of token t and at 99.9% of its curve, asked for n.
Reported(logs, t, n) ==
    \E l \in logs :
        TokenAddress(l) = t /\ NearGraduation(l.reading) /\ n = RequiredInput(l.reading)

\* Later logs rewrite a candidate while it is qualified and both reads of it are
\* unlocked, yet amount and minimum of a payload are each what some log of that very
\* token reported at 99.9% (tracker.go:440-449, 484-499): maybe not the same log, and
\* past the target both are negative and go out wrapped around.
PushWasReported ==
    \A x \in pushes :
        /\ \E n \in Needs : Reported(seen, x.token, n) /\ x.amount = Packed(n)
        /\ \E n \in Needs : Reported(seen, x.token, n) /\ x.minOut = Packed(MinAmountOut(n))

\* Where a candidate stands, for the abstract specification.
Stage ==
    [i \in Ids |->
        IF i > made THEN "new"
        ELSE IF ~ heap[i].graduating THEN "listed"
        ELSE IF AtWork(i) # {} THEN "claimed" ELSE "done"]

GraduatesOnce == INSTANCE Graduation WITH stage <- Stage, fires <- sent

\* Each candidate is claimed by one processor and submitted at most once: two logs
\* at the same time, late logs, Clear and Cleanup included.
FiresOnce == GraduatesOnce!Spec

=============================================================================
