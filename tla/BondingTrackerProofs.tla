------------------------ MODULE BondingTrackerProofs ------------------------
(* The tracker keeps its types, qualifies a token once at a time, and        *)
(* implements Graduation, for any number of tokens, processors and logs.     *)
EXTENDS BondingTracker, TLAPS

\* What a processor holds, and what a claim excludes.
ClaimInv ==
    /\ \A p \in Processors : proc[p].pc \in Qualifying \cup {"stored"} => proc[p].obj \in 1..made
    /\ \A p, q \in Processors :
          proc[p].pc \in Qualifying /\ proc[q].pc \in Qualifying /\ proc[p].obj = proc[q].obj => p = q
    /\ \A p \in Processors :
          proc[p].pc \in Qualifying => heap[proc[p].obj].graduating /\ sent[proc[p].obj] = 0
    /\ \A i \in Ids : sent[i] # 0 => i <= made /\ heap[i].graduating
    /\ \A i \in Ids : i > made => ~ heap[i].graduating

\* The map lists the newest candidate of a token, or none.
ListInv ==
    \A t \in Addresses : candidates[t] # 0 =>
        /\ heap[candidates[t]].token = t
        /\ \A i \in 1..made : heap[i].token = t => i <= candidates[t]

\* What has been parsed is a candidate nobody has claimed.
FreshInv == \A p \in Processors : ~ proc[p].parsed.graduating

-----------------------------------------------------------------------------
LEMMA RequiredTyped ==
    ASSUME NEW r \in Readings
    PROVE  RequiredInput(r) \in Int
<1>0. r.current \in Int /\ r.target \in Int
  BY TrackerAssumption
<1>1. CASE r.platform = "PumpBase"
  BY <1>1 DEF RequiredInput, PumpPush
<1>2. CASE r.platform = "Thryx"
  BY <1>0, <1>2 DEF RequiredInput
<1>3. CASE r.platform = "ClawLaunch"
  BY <1>0, <1>3 DEF RequiredInput, ClawTarget
<1>4. CASE r.platform \notin {"PumpBase", "Thryx", "ClawLaunch"}
  BY <1>0, <1>4 DEF RequiredInput
<1>5. QED
  BY <1>1, <1>2, <1>3, <1>4

LEMMA ParsedTyped ==
    ASSUME NEW l \in Logs
    PROVE  Parsed(l) \in Candidates
<1>1. l.token \in Tokens /\ l.reading \in Readings
  BY DEF Logs
<1>2. RequiredInput(l.reading) \in Int
  BY <1>1, RequiredTyped
<1>3. TokenAddress(l) \in Addresses
  BY <1>1 DEF TokenAddress, Addresses
<1>4. l.reading.platform \in PlatformNames
  BY <1>1, TrackerAssumption
<1>5. QED
  BY <1>2, <1>3, <1>4 DEF Parsed, Candidates

LEMMA IdleTyped == IdleProcessor \in ProcessorRecords /\ NoCandidate \in Candidates
<1>1. NoCandidate \in Candidates
  BY DEF NoCandidate, Candidates, Addresses
<1>2. QED
  BY <1>1, TrackerAssumption DEF IdleProcessor, ProcessorRecords, Pcs

LEMMA TypesInitially == Init => TypeOK
<1> SUFFICES ASSUME Init PROVE ChanTypes /\ ProcTypes /\ HeapTypes /\ MapTypes /\ HistTypes
  BY DEF TypeOK
<1>1. ChanTypes
  BY TrackerAssumption DEF Init, ChanTypes
<1>2. ProcTypes /\ HeapTypes
  BY IdleTyped DEF Init, ProcTypes, HeapTypes
<1>3. MapTypes
  <2>1. made = 0 /\ candidates = [t \in Addresses |-> 0] /\ old = {}
    BY DEF Init
  <2>2. made \in 0..MaxLogs /\ 0 \in 0..made
    BY <2>1, TrackerAssumption
  <2>3. QED
    BY <2>1, <2>2 DEF MapTypes
<1>4. HistTypes
  BY DEF Init, HistTypes
<1>5. QED
  BY <1>1, <1>2, <1>3, <1>4

LEMMA PackedTyped == ASSUME NEW n \in Int PROVE Packed(n) \in Nat
  BY TrackerAssumption DEF Packed

\* Groups that an action leaves alone.
LEMMA Untouched ==
    /\ ChanTypes /\ UNCHANGED <<logChan, emitted>> => ChanTypes'
    /\ ProcTypes /\ UNCHANGED proc => ProcTypes'
    /\ HeapTypes /\ UNCHANGED heap => HeapTypes'
    /\ MapTypes /\ UNCHANGED <<made, candidates, old>> => MapTypes'
    /\ HistTypes /\ UNCHANGED <<cancelled, seen, sent, pushes>> => HistTypes'
<1>1. Logs' = Logs /\ Ids' = Ids /\ Candidates' = Candidates /\ ProcessorRecords' = ProcessorRecords
  BY DEF Logs, Ids, Candidates, ProcessorRecords, Pcs, Addresses, PlatformNames
<1>2. Addresses' = Addresses
  BY DEF Addresses
<1>3. QED
  BY <1>1, <1>2 DEF ChanTypes, ProcTypes, HeapTypes, MapTypes, HistTypes

\* An action that changes only one processor's locals.
LEMMA ProcPut ==
    ASSUME ProcTypes, NEW p \in Processors, NEW r \in ProcessorRecords,
           proc' = [proc EXCEPT ![p] = r]
    PROVE  ProcTypes'
  BY DEF ProcTypes, ProcessorRecords, Pcs, Qualifying, Candidates, Addresses, PlatformNames

\* A processor that has stored its log keeps the shape of its locals.
LEMMA StoredTyped ==
    ASSUME NEW r \in ProcessorRecords, NEW i \in 0..MaxLogs
    PROVE  [r EXCEPT !.pc = "stored", !.obj = i] \in ProcessorRecords
  BY DEF ProcessorRecords, Pcs, Qualifying

LEMMA EmitTyped ==
    ASSUME TypeOK, NEW l \in Logs, Emit(l)
    PROVE  TypeOK'
<1>1. ChanTypes
  BY DEF TypeOK
<1>2. UNCHANGED <<proc, heap, made, candidates, old, cancelled, seen, sent, pushes>>
  BY DEF Emit
<1>3. ChanTypes'
  <2>1. emitted' \in 0..MaxLogs
    BY <1>1, TrackerAssumption DEF Emit, ChanTypes
  <2>2. logChan' = logChan \/ (logChan' = Append(logChan, l) /\ Len(logChan) < LogCap)
    BY DEF Emit
  <2>3. Logs' = Logs
    BY DEF Logs
  <2>4. QED
    BY <1>1, <2>1, <2>2, <2>3, TrackerAssumption DEF ChanTypes
<1>4. QED
  BY <1>2, <1>3, Untouched DEF TypeOK

LEMMA TakeTyped ==
    ASSUME TypeOK, NEW p \in Processors, TakeLog(p)
    PROVE  TypeOK'
<1>1. ChanTypes /\ ProcTypes
  BY DEF TypeOK
<1>2. UNCHANGED <<emitted, heap, made, candidates, old, cancelled, sent, pushes>>
  BY DEF TakeLog
<1>3. Head(logChan) \in Logs /\ ChanTypes'
  <2>1. logChan \in Seq(Logs) /\ logChan # <<>> /\ logChan' = Tail(logChan)
    BY <1>1 DEF ChanTypes, TakeLog
  <2>2. Head(logChan) \in Logs /\ Tail(logChan) \in Seq(Logs) /\ Len(Tail(logChan)) = Len(logChan) - 1
    BY <2>1
  <2>3. Len(logChan) \in Nat /\ LogCap \in Nat
    BY <2>1, TrackerAssumption
  <2>4. Logs' = Logs /\ emitted' = emitted
    BY <1>2 DEF Logs
  <2>5. QED
    BY <1>1, <2>1, <2>2, <2>3, <2>4 DEF ChanTypes
<1>4. ProcTypes'
  <2>1. CASE proc' = proc
    BY <1>1, <2>1, Untouched
  <2>2. CASE proc' # proc
    <3> DEFINE r == [IdleProcessor EXCEPT !.pc = "parsed", !.parsed = Parsed(Head(logChan))]
    <3>1. proc' = [proc EXCEPT ![p] = r]
      BY <2>2 DEF TakeLog
    <3>2. Parsed(Head(logChan)) \in Candidates
      BY <1>3, ParsedTyped
    <3>3. r \in ProcessorRecords
      BY <3>2, IdleTyped DEF ProcessorRecords, Pcs, Qualifying
    <3>4. QED
      BY <1>1, <3>1, <3>3, ProcPut
  <2>3. QED
    BY <2>1, <2>2
<1>5. HistTypes'
  <2>1. seen' = seen \cup {Head(logChan)} /\ HistTypes
    BY DEF TakeLog, TypeOK
  <2>2. Ids' = Ids /\ Addresses' = Addresses /\ Logs' = Logs
    BY DEF Ids, Addresses, Logs
  <2>3. QED
    BY <1>2, <1>3, <2>1, <2>2 DEF HistTypes
<1>6. QED
  BY <1>2, <1>3, <1>4, <1>5, Untouched DEF TypeOK

LEMMA StoreTyped ==
    ASSUME TypeOK, ClaimInv, NEW p \in Processors, StoreKnown(p) \/ StoreNew(p)
    PROVE  TypeOK'
<1> DEFINE t == proc[p].parsed.token
<1>1. ProcTypes /\ HeapTypes /\ MapTypes
  BY DEF TypeOK
<1>2. UNCHANGED <<logChan, emitted, cancelled, seen, sent, pushes>>
  BY DEF StoreKnown, StoreNew
<1>3. proc[p] \in ProcessorRecords /\ proc[p].parsed \in Candidates /\ t \in Addresses
  BY <1>1 DEF ProcTypes, ProcessorRecords, Candidates
<1>4. made \in Nat /\ MaxLogs \in Nat /\ candidates[t] \in 0..made
  BY <1>1, <1>3, TrackerAssumption DEF MapTypes
<1>5. CASE StoreKnown(p)
  <2> DEFINE i == candidates[t]
  <2>1. i \in 1..made /\ i \in Ids
    <3>1. candidates[t] # 0
      BY <1>5 DEF StoreKnown
    <3>2. QED
      BY <1>1, <1>4, <3>1 DEF MapTypes, Ids
  <2>2. HeapTypes'
    <3>1. heap' = [heap EXCEPT ![i] = [heap[i] EXCEPT !.required = proc[p].parsed.required]]
      BY <1>5 DEF StoreKnown
    <3>2. [heap[i] EXCEPT !.required = proc[p].parsed.required] \in Candidates
      BY <1>1, <1>3, <2>1 DEF HeapTypes, Candidates
    <3>3. Candidates' = Candidates /\ Ids' = Ids
      BY DEF Candidates, Addresses, PlatformNames, Ids
    <3>4. QED
      BY <1>1, <3>1, <3>2, <3>3 DEF HeapTypes
  <2>3. MapTypes'
    <3>1. Addresses' = Addresses
      BY DEF Addresses
    <3>2. QED
      BY <1>1, <1>5, <3>1 DEF StoreKnown, MapTypes
  <2>4. ProcTypes'
    <3>1. proc' = [proc EXCEPT ![p] = [proc[p] EXCEPT !.pc = "stored", !.obj = i]]
      BY <1>5 DEF StoreKnown
    <3>2. [proc[p] EXCEPT !.pc = "stored", !.obj = i] \in ProcessorRecords
      <4>1. i \in 0..MaxLogs
        BY <1>1, <1>4, <2>1 DEF MapTypes
      <4>2. QED
        BY <1>3, <4>1, StoredTyped
    <3>3. QED
      BY <1>1, <3>1, <3>2, ProcPut
  <2>5. QED
    BY <1>2, <2>2, <2>3, <2>4, Untouched DEF TypeOK
<1>6. CASE StoreNew(p)
  <2>1. made < MaxLogs /\ made + 1 \in Ids /\ made' = made + 1
    BY <1>4, <1>6 DEF StoreNew, Ids
  <2>2. HeapTypes'
    <3>1. heap' = [heap EXCEPT ![made + 1] = proc[p].parsed]
      BY <1>6 DEF StoreNew
    <3>2. Candidates' = Candidates /\ Ids' = Ids
      BY DEF Candidates, Addresses, PlatformNames, Ids
    <3>3. QED
      BY <1>1, <1>3, <3>1, <3>2 DEF HeapTypes
  <2>3. MapTypes'
    <3>1. candidates' = [candidates EXCEPT ![t] = made + 1] /\ old' = old
      BY <1>6 DEF StoreNew
    <3>2. Addresses' = Addresses
      BY DEF Addresses
    <3>3. made' \in 0..MaxLogs /\ old' \subseteq 1..made'
      BY <1>1, <1>4, <2>1, <3>1 DEF MapTypes
    <3>4. candidates' \in [Addresses -> 0..made']
      <4>1. \A a \in Addresses : candidates[a] \in 0..(made + 1)
        BY <1>1, <1>4 DEF MapTypes
      <4>2. candidates \in [Addresses -> 0..(made + 1)] /\ made + 1 \in 0..(made + 1)
        BY <1>1, <1>4, <4>1 DEF MapTypes
      <4>3. QED
        BY <2>1, <3>1, <4>2
    <3>5. QED
      BY <3>2, <3>3, <3>4 DEF MapTypes
  <2>4. ProcTypes'
    <3>1. proc' = [proc EXCEPT ![p] = [proc[p] EXCEPT !.pc = "stored", !.obj = made + 1]]
      BY <1>6 DEF StoreNew
    <3>2. [proc[p] EXCEPT !.pc = "stored", !.obj = made + 1] \in ProcessorRecords
      <4>1. made + 1 \in 0..MaxLogs
        BY <1>4, <2>1
      <4>2. QED
        BY <1>3, <4>1, StoredTyped
    <3>3. QED
      BY <1>1, <3>1, <3>2, ProcPut
  <2>5. QED
    BY <1>2, <2>2, <2>3, <2>4, Untouched DEF TypeOK
<1>7. QED
  BY <1>5, <1>6

LEMMA QualifyTyped ==
    ASSUME TypeOK, ClaimInv, NEW p \in Processors,
           \/ Claim(p) \/ LeaveClaimed(p) \/ ComputeMinOut(p) \/ BuildCalldata(p)
           \/ SimulatePass(p) \/ SimulateFail(p) \/ SendPayload(p) \/ DropPayload(p) \/ Stop(p)
    PROVE  TypeOK'
<1>1. ProcTypes /\ HeapTypes /\ MapTypes /\ HistTypes
  BY DEF TypeOK
<1>2. UNCHANGED <<logChan, emitted, made, candidates, old, cancelled>>
  BY DEF Claim, LeaveClaimed, ComputeMinOut, BuildCalldata, SimulatePass, SimulateFail,
         SendPayload, DropPayload, Stop
<1>3. proc[p] \in ProcessorRecords /\ IdleProcessor \in ProcessorRecords
  BY <1>1, IdleTyped DEF ProcTypes
<1>4. proc[p].pc \in Qualifying \cup {"stored"} =>
         /\ proc[p].obj \in Ids
         /\ heap[proc[p].obj] \in Candidates
         /\ heap[proc[p].obj].required \in Int
         /\ heap[proc[p].obj].token \in Addresses
  BY <1>1, TrackerAssumption DEF ClaimInv, MapTypes, HeapTypes, Ids, Candidates
<1>5. ProcTypes'
  <2>1. CASE proc' = [proc EXCEPT ![p] = IdleProcessor]
    BY <1>1, <1>3, <2>1, ProcPut
  <2>2. CASE Claim(p)
    <3>1. [proc[p] EXCEPT !.pc = "claimed"] \in ProcessorRecords
      BY <1>3 DEF ProcessorRecords, Pcs, Qualifying
    <3>2. proc' = [proc EXCEPT ![p] = [proc[p] EXCEPT !.pc = "claimed"]]
      BY <2>2 DEF Claim
    <3>3. QED
      BY <1>1, <3>1, <3>2, ProcPut
  <2>3. CASE ComputeMinOut(p)
    <3> DEFINE x == MinAmountOut(heap[proc[p].obj].required)
    <3>1. x \in Int
      BY <1>4, <2>3 DEF ComputeMinOut, MinAmountOut, Qualifying
    <3>2. [proc[p] EXCEPT !.pc = "building", !.minOut = x] \in ProcessorRecords
      BY <1>3, <3>1 DEF ProcessorRecords, Pcs, Qualifying
    <3>3. proc' = [proc EXCEPT ![p] = [proc[p] EXCEPT !.pc = "building", !.minOut = x]]
      BY <2>3 DEF ComputeMinOut
    <3>4. QED
      BY <1>1, <3>2, <3>3, ProcPut
  <2>4. CASE BuildCalldata(p) /\ proc' # [proc EXCEPT ![p] = IdleProcessor]
    <3> DEFINE x == heap[proc[p].obj].required
    <3>1. x \in Int
      BY <1>4, <2>4 DEF BuildCalldata, Qualifying
    <3>2. [proc[p] EXCEPT !.pc = "simulate", !.amount = x] \in ProcessorRecords
      BY <1>3, <3>1 DEF ProcessorRecords, Pcs, Qualifying
    <3>3. proc' = [proc EXCEPT ![p] = [proc[p] EXCEPT !.pc = "simulate", !.amount = x]]
      BY <2>4 DEF BuildCalldata
    <3>4. QED
      BY <1>1, <3>2, <3>3, ProcPut
  <2>5. CASE SimulatePass(p)
    <3>1. [proc[p] EXCEPT !.pc = "send"] \in ProcessorRecords
      BY <1>3 DEF ProcessorRecords, Pcs, Qualifying
    <3>2. proc' = [proc EXCEPT ![p] = [proc[p] EXCEPT !.pc = "send"]]
      BY <2>5 DEF SimulatePass
    <3>3. QED
      BY <1>1, <3>1, <3>2, ProcPut
  <2>6. CASE Stop(p)
    <3>1. [proc[p] EXCEPT !.pc = "gone"] \in ProcessorRecords
      BY <1>3 DEF ProcessorRecords, Pcs, Qualifying
    <3>2. proc' = [proc EXCEPT ![p] = [proc[p] EXCEPT !.pc = "gone"]]
      BY <2>6 DEF Stop
    <3>3. QED
      BY <1>1, <3>1, <3>2, ProcPut
  <2>7. QED
    BY <2>1, <2>2, <2>3, <2>4, <2>5, <2>6 DEF LeaveClaimed, SimulateFail, SendPayload, DropPayload
<1>6. HeapTypes'
  <2>1. CASE Claim(p)
    <3>1. heap' = [heap EXCEPT ![proc[p].obj] = [heap[proc[p].obj] EXCEPT !.graduating = TRUE]]
      BY <2>1 DEF Claim
    <3>2. [heap[proc[p].obj] EXCEPT !.graduating = TRUE] \in Candidates
      BY <1>4, <2>1 DEF Claim, Candidates
    <3>3. Candidates' = Candidates /\ Ids' = Ids
      BY DEF Candidates, Addresses, PlatformNames, Ids
    <3>4. QED
      BY <1>1, <3>1, <3>2, <3>3 DEF HeapTypes
  <2>2. CASE ~ Claim(p)
    <3>1. UNCHANGED heap
      BY <2>2 DEF LeaveClaimed, ComputeMinOut, BuildCalldata, SimulatePass, SimulateFail,
                  SendPayload, DropPayload, Stop
    <3>2. QED
      BY <1>1, <3>1, Untouched
  <2>3. QED
    BY <2>1, <2>2
<1>7. HistTypes'
  <2>1. CASE SendPayload(p)
    <3>1. sent' = [sent EXCEPT ![proc[p].obj] = sent[proc[p].obj] + 1]
      BY <2>1 DEF SendPayload
    <3>2. pushes' = pushes \cup {[token |-> heap[proc[p].obj].token,
                                 amount |-> Packed(proc[p].amount), minOut |-> Packed(proc[p].minOut)]}
      BY <2>1 DEF SendPayload
    <3>3. /\ heap[proc[p].obj].token \in Addresses
          /\ Packed(proc[p].amount) \in Nat /\ Packed(proc[p].minOut) \in Nat
      BY <1>3, <1>4, <2>1, PackedTyped DEF SendPayload, Qualifying, ProcessorRecords
    <3>4. sent' \in [Ids -> Nat]
      <4>1. sent \in [Ids -> Nat] /\ proc[p].obj \in Ids
        BY <1>1, <1>4, <2>1 DEF HistTypes, SendPayload, Qualifying
      <4>2. sent[proc[p].obj] + 1 \in Nat
        BY <4>1
      <4>3. QED
        BY <3>1, <4>1, <4>2
    <3>5. pushes' \subseteq [token : Addresses, amount : Nat, minOut : Nat] /\ seen' = seen
      BY <1>1, <2>1, <3>2, <3>3 DEF HistTypes, SendPayload
    <3>6. Ids' = Ids /\ Addresses' = Addresses /\ Logs' = Logs
      BY DEF Ids, Addresses, Logs
    <3>7. QED
      BY <1>1, <1>2, <3>4, <3>5, <3>6 DEF HistTypes
  <2>2. CASE ~ SendPayload(p)
    <3>1. UNCHANGED <<cancelled, seen, sent, pushes>>
      BY <2>2 DEF Claim, LeaveClaimed, ComputeMinOut, BuildCalldata, SimulatePass, SimulateFail,
                  DropPayload, Stop
    <3>2. QED
      BY <1>1, <3>1, Untouched
  <2>3. QED
    BY <2>1, <2>2
<1>8. QED
  BY <1>2, <1>5, <1>6, <1>7, Untouched DEF TypeOK

LEMMA ForgetTyped ==
    ASSUME TypeOK, DayPasses \/ Cleanup \/ Clear \/ Cancel
    PROVE  TypeOK'
<1>1. MapTypes /\ HistTypes
  BY DEF TypeOK
<1>2. UNCHANGED <<logChan, emitted, proc, heap, made, seen, sent, pushes>>
  BY DEF DayPasses, Cleanup, Clear, Cancel
<1>3. MapTypes'
  <2>1. Addresses' = Addresses /\ made \in Nat
    BY <1>1, TrackerAssumption DEF Addresses, MapTypes
  <2>2. CASE DayPasses
    <3>1. old' \subseteq 1..made
      BY <1>1, <2>1, <2>2 DEF DayPasses, MapTypes
    <3>2. candidates' = candidates
      BY <2>2 DEF DayPasses
    <3>3. QED
      BY <1>1, <1>2, <2>1, <3>1, <3>2 DEF MapTypes
  <2>3. CASE Cleanup
    <3>1. candidates' = [t \in Addresses |-> IF candidates[t] \in old THEN 0 ELSE candidates[t]]
      BY <2>3 DEF Cleanup
    <3>2. candidates' \in [Addresses -> 0..made] /\ old' = {}
      BY <1>1, <2>1, <2>3, <3>1 DEF Cleanup, MapTypes
    <3>3. QED
      BY <1>1, <1>2, <2>1, <3>2 DEF MapTypes
  <2>4. CASE Clear
    <3>1. candidates' = [t \in Addresses |-> 0] /\ old' = {}
      BY <2>4 DEF Clear
    <3>2. candidates' \in [Addresses -> 0..made]
      BY <2>1, <3>1
    <3>3. QED
      BY <1>1, <1>2, <2>1, <3>1, <3>2 DEF MapTypes
  <2>5. CASE Cancel
    BY <1>1, <2>5, Untouched DEF Cancel
  <2>6. QED
    BY <2>2, <2>3, <2>4, <2>5
<1>4. HistTypes'
  <2>1. cancelled' \in BOOLEAN
    BY <1>1 DEF DayPasses, Cleanup, Clear, Cancel, HistTypes
  <2>2. Ids' = Ids /\ Addresses' = Addresses /\ Logs' = Logs
    BY DEF Ids, Addresses, Logs
  <2>3. QED
    BY <1>1, <1>2, <2>1, <2>2 DEF HistTypes
<1>5. QED
  BY <1>2, <1>3, <1>4, Untouched DEF TypeOK

-----------------------------------------------------------------------------
\* A processor lets go, or goes on with the candidate it has claimed.
LEMMA LocalsKeepClaims ==
    ASSUME ProcTypes, ClaimInv, NEW p \in Processors, NEW r \in ProcessorRecords,
           proc' = [proc EXCEPT ![p] = r],
           UNCHANGED <<heap, made, sent>>,
           \/ r.pc \notin Qualifying \cup {"stored"}
           \/ r.pc \in Qualifying /\ proc[p].pc \in Qualifying /\ r.obj = proc[p].obj
    PROVE  ClaimInv'
<1>1. \A q \in Processors : q # p => proc'[q] = proc[q]
  BY DEF ProcTypes
<1>2. proc'[p] = r
  BY DEF ProcTypes
<1>3. Ids' = Ids
  BY DEF Ids
<1>4. QED
  BY <1>1, <1>2, <1>3 DEF ClaimInv

LEMMA OthersKeepClaims ==
    ASSUME ClaimInv, UNCHANGED <<proc, heap, made, sent>>
    PROVE  ClaimInv'
  BY DEF ClaimInv, Ids

LEMMA TakeKeepsClaims ==
    ASSUME TypeOK, ClaimInv, NEW p \in Processors, TakeLog(p)
    PROVE  ClaimInv'
<1>1. UNCHANGED <<heap, made, sent>>
  BY DEF TakeLog
<1>2. CASE proc' = proc
  BY <1>1, <1>2, OthersKeepClaims
<1>3. CASE proc' # proc
  <2> DEFINE r == [IdleProcessor EXCEPT !.pc = "parsed", !.parsed = Parsed(Head(logChan))]
  <2>1. proc' = [proc EXCEPT ![p] = r]
    BY <1>3 DEF TakeLog
  <2>2. logChan \in Seq(Logs) /\ logChan # <<>>
    BY DEF TypeOK, ChanTypes, TakeLog
  <2>3. Parsed(Head(logChan)) \in Candidates
    BY <2>2, ParsedTyped
  <2>4. r \in ProcessorRecords
    BY <2>3, IdleTyped DEF ProcessorRecords, Pcs, Qualifying
  <2>5. r.pc = "parsed"
    BY DEF IdleProcessor
  <2>6. r.pc \notin Qualifying \cup {"stored"}
    BY <2>5 DEF Qualifying
  <2>7. QED
    BY <1>1, <2>1, <2>4, <2>6, LocalsKeepClaims DEF TypeOK
<1>4. QED
  BY <1>2, <1>3

\* What storing an already listed token does to the heap.
LEMMA StoreKnownEffect ==
    ASSUME HeapTypes, NEW p \in Processors, StoreKnown(p)
    PROVE  /\ made' = made /\ sent' = sent
           /\ candidates[proc[p].parsed.token] # 0
           /\ \A j \in Ids : heap'[j].graduating = heap[j].graduating
<1> DEFINE i == candidates[proc[p].parsed.token]
           c == [heap[i] EXCEPT !.required = proc[p].parsed.required]
<1>1. made' = made /\ sent' = sent /\ i # 0 /\ heap' = [heap EXCEPT ![i] = c]
  BY DEF StoreKnown
<1>2. \A j \in Ids : heap'[j] = IF j = i THEN c ELSE heap[j]
  <2> HIDE DEF c
  <2> QED
    BY <1>1 DEF HeapTypes
<1>3. i \in Ids => c.graduating = heap[i].graduating
  <2> HIDE DEF i
  <2> QED
    BY DEF HeapTypes, Candidates
<1>4. QED
  BY <1>1, <1>2, <1>3

LEMMA StoreKeepsClaims ==
    ASSUME TypeOK, ClaimInv, NEW p \in Processors, StoreKnown(p) \/ StoreNew(p)
    PROVE  ClaimInv'
<1>1. ProcTypes /\ HeapTypes /\ MapTypes /\ HistTypes
  BY DEF TypeOK
<1>2. Ids' = Ids /\ sent' = sent /\ made \in Nat
  <2>1. Ids' = Ids
    BY DEF Ids
  <2>2. sent' = sent
    BY DEF StoreKnown, StoreNew
  <2>3. made \in Nat
    BY <1>1, TrackerAssumption DEF MapTypes
  <2>4. QED
    BY <2>1, <2>2, <2>3
<1>3. PICK i \in Ids : proc' = [proc EXCEPT ![p] = [proc[p] EXCEPT !.pc = "stored", !.obj = i]]
                       /\ i \in 1..made'
  <2>1. proc[p].parsed.token \in Addresses
    BY <1>1 DEF ProcTypes, ProcessorRecords, Candidates
  <2>2. CASE StoreKnown(p)
    <3>1. candidates[proc[p].parsed.token] \in 1..made /\ made' = made
      <4>1. candidates[proc[p].parsed.token] # 0 /\ made' = made
        BY <1>1, <2>2, StoreKnownEffect
      <4>2. candidates[proc[p].parsed.token] \in 0..made
        BY <1>1, <2>1 DEF MapTypes
      <4>3. QED
        BY <1>2, <4>1, <4>2
    <3>2. candidates[proc[p].parsed.token] \in Ids
      BY <1>1, <1>2, <3>1, TrackerAssumption DEF MapTypes, Ids
    <3>3. QED
      BY <2>2, <3>1, <3>2 DEF StoreKnown
  <2>3. CASE StoreNew(p)
    <3>1. made + 1 \in Ids /\ made' = made + 1 /\ made + 1 \in 1..(made + 1)
      BY <1>2, <2>3, TrackerAssumption DEF StoreNew, Ids
    <3>2. QED
      BY <2>3, <3>1 DEF StoreNew
  <2>4. QED
    BY <2>2, <2>3
<1>4. \A q \in Processors : q # p => proc'[q] = proc[q]
  BY <1>1, <1>3 DEF ProcTypes
<1>5. proc'[p].pc = "stored" /\ proc'[p].obj = i
  BY <1>1, <1>3 DEF ProcTypes, ProcessorRecords
<1>6. made <= made' /\ made' \in Nat
  <2>1. CASE StoreKnown(p)
    BY <1>1, <1>2, <2>1, StoreKnownEffect
  <2>2. CASE StoreNew(p)
    <3>1. made' = made + 1
      BY <2>2 DEF StoreNew
    <3>2. QED
      BY <1>2, <3>1
  <2>3. QED
    BY <2>1, <2>2
<1>7. \A j \in 1..made : j \in Ids /\ heap'[j].graduating = heap[j].graduating
  <2>1. \A j \in 1..made : j \in Ids
    BY <1>1, <1>2, TrackerAssumption DEF MapTypes, Ids
  <2>2. CASE StoreKnown(p)
    BY <1>1, <2>1, <2>2, StoreKnownEffect
  <2>3. CASE StoreNew(p)
    <3>1. heap' = [heap EXCEPT ![made + 1] = proc[p].parsed]
      BY <2>3 DEF StoreNew
    <3>2. QED
      BY <1>1, <1>2, <2>1, <3>1 DEF HeapTypes
  <2>4. QED
    BY <2>1, <2>2, <2>3
<1>8. \A j \in Ids : j > made' => ~ heap'[j].graduating
  <2>1. CASE StoreKnown(p)
    BY <1>1, <2>1, StoreKnownEffect DEF ClaimInv
  <2>2. CASE StoreNew(p)
    <3>1. made' = made + 1 /\ heap' = [heap EXCEPT ![made + 1] = proc[p].parsed]
      BY <2>2 DEF StoreNew
    <3>2. \A j \in Ids : j \in Int
      BY DEF Ids
    <3>3. \A j \in Ids : j > made' => j > made /\ heap'[j] = heap[j]
      BY <1>1, <1>2, <3>1, <3>2 DEF HeapTypes
    <3>4. QED
      BY <3>3 DEF ClaimInv
  <2>3. QED
    BY <2>1, <2>2
<1>9. "stored" \notin Qualifying
  BY DEF Qualifying
<1>10. (\A q \in Processors : proc[q].pc \in Qualifying \cup {"stored"} => proc[q].obj \in 1..made)'
  BY <1>2, <1>3, <1>4, <1>5, <1>6 DEF ClaimInv
<1>11. \A q \in Processors : proc'[q].pc \in Qualifying => q # p
  BY <1>5, <1>9
<1>12. (\A q \in Processors : proc[q].pc \in Qualifying =>
            heap[proc[q].obj].graduating /\ sent[proc[q].obj] = 0)'
  BY <1>2, <1>4, <1>7, <1>11 DEF ClaimInv
<1>13. (\A j \in Ids : sent[j] # 0 => j <= made /\ heap[j].graduating)'
  BY <1>2, <1>6, <1>7 DEF ClaimInv, Ids
<1>14. QED
  BY <1>4, <1>8, <1>10, <1>11, <1>12, <1>13, <1>2 DEF ClaimInv

LEMMA ClaimKeepsClaims ==
    ASSUME TypeOK, ClaimInv, NEW p \in Processors, Claim(p)
    PROVE  ClaimInv'
<1> DEFINE i == proc[p].obj
<1>1. ProcTypes /\ HeapTypes /\ MapTypes /\ HistTypes
  BY DEF TypeOK
<1>2. Ids' = Ids /\ sent' = sent /\ made' = made /\ made \in Nat
  BY <1>1, TrackerAssumption DEF Ids, Claim, MapTypes
<1>3. proc[p].pc = "stored" /\ i \in 1..made /\ ~ heap[i].graduating
  BY DEF Claim, ClaimInv
<1>4. i \in Ids
  BY <1>1, <1>2, <1>3, TrackerAssumption DEF MapTypes, Ids
<1>5. sent[i] = 0
  BY <1>3, <1>4 DEF ClaimInv
<1>6. \A q \in Processors : q # p => proc'[q] = proc[q]
  BY <1>1 DEF ProcTypes, Claim
<1>7. proc'[p].pc = "claimed" /\ proc'[p].obj = i
  BY <1>1 DEF ProcTypes, ProcessorRecords, Claim
<1>8. heap'[i].graduating
  BY <1>1, <1>4 DEF Claim, HeapTypes, Candidates
<1>9. \A j \in Ids : j # i => heap'[j] = heap[j]
  BY <1>1 DEF Claim, HeapTypes
<1>10. \A q \in Processors : q # p /\ proc[q].pc \in Qualifying => proc[q].obj # i
  BY <1>3 DEF ClaimInv
<1>11. (\A q \in Processors : proc[q].pc \in Qualifying \cup {"stored"} => proc[q].obj \in 1..made)'
  BY <1>2, <1>3, <1>6, <1>7 DEF ClaimInv
<1>12. \A q, x \in Processors :
          proc'[q].pc \in Qualifying /\ proc'[x].pc \in Qualifying /\ proc'[q].obj = proc'[x].obj
             => q = x
  BY <1>6, <1>7, <1>10 DEF ClaimInv
<1>13. \A j \in 1..made : j \in Ids
  BY <1>1, <1>2, TrackerAssumption DEF MapTypes, Ids
<1>14. \A q \in Processors :
          proc'[q].pc \in Qualifying => heap'[proc'[q].obj].graduating /\ sent'[proc'[q].obj] = 0
  <2> SUFFICES ASSUME NEW q \in Processors, proc'[q].pc \in Qualifying
               PROVE  heap'[proc'[q].obj].graduating /\ sent'[proc'[q].obj] = 0
    OBVIOUS
  <2>1. CASE q = p
    BY <1>2, <1>5, <1>7, <1>8, <2>1
  <2>2. CASE q # p
    <3>1. proc[q].pc \in Qualifying /\ proc'[q].obj = proc[q].obj /\ proc[q].obj # i
      BY <1>6, <1>10, <2>2
    <3>2. proc[q].obj \in Ids
      BY <1>13, <3>1 DEF ClaimInv
    <3>3. QED
      BY <1>2, <1>9, <3>1, <3>2 DEF ClaimInv
  <2>3. QED
    BY <2>1, <2>2
<1>15. \A j \in Ids : (sent'[j] # 0 => j <= made' /\ heap'[j].graduating)
                      /\ (j > made' => ~ heap'[j].graduating)
  <2>1. i <= made
    BY <1>2, <1>3
  <2>2. QED
    BY <1>2, <1>5, <1>9, <2>1 DEF ClaimInv, Ids
<1>16. QED
  BY <1>2, <1>11, <1>12, <1>14, <1>15 DEF ClaimInv

LEMMA SendKeepsClaims ==
    ASSUME TypeOK, ClaimInv, NEW p \in Processors, SendPayload(p)
    PROVE  ClaimInv'
<1> DEFINE i == proc[p].obj
<1>1. ProcTypes /\ HeapTypes /\ MapTypes /\ HistTypes
  BY DEF TypeOK
<1>2. Ids' = Ids /\ heap' = heap /\ made' = made
  BY DEF Ids, SendPayload
<1>3. proc[p].pc \in Qualifying
  BY DEF SendPayload, Qualifying
<1>4. i \in 1..made /\ heap[i].graduating
  BY <1>3 DEF ClaimInv
<1>5. \A q \in Processors : q # p => proc'[q] = proc[q]
  BY <1>1 DEF ProcTypes, SendPayload
<1>6. proc'[p] = IdleProcessor /\ IdleProcessor.pc = "idle"
  BY <1>1 DEF ProcTypes, SendPayload, IdleProcessor
<1>7. "idle" \notin Qualifying \cup {"stored"}
  BY DEF Qualifying
<1>8. \A j \in Ids : j # i => sent'[j] = sent[j]
  BY <1>1 DEF HistTypes, SendPayload
<1>9. \A q \in Processors : proc'[q].pc \in Qualifying \cup {"stored"} => q # p /\ proc'[q] = proc[q]
  BY <1>5, <1>6, <1>7
<1>10. \A q \in Processors : proc'[q].pc \in Qualifying =>
          /\ proc[q].obj # i
          /\ proc[q].obj \in 1..made
  BY <1>3, <1>9 DEF ClaimInv
<1>11. \A j \in 1..made : j \in Ids
  BY <1>1, TrackerAssumption DEF MapTypes, Ids
<1>12. \A q \in Processors :
          proc'[q].pc \in Qualifying => heap'[proc'[q].obj].graduating /\ sent'[proc'[q].obj] = 0
  BY <1>2, <1>8, <1>9, <1>10, <1>11 DEF ClaimInv
<1>13. \A j \in Ids : (sent'[j] # 0 => j <= made' /\ heap'[j].graduating)
                      /\ (j > made' => ~ heap'[j].graduating)
  <2>1. i <= made
    BY <1>1, <1>4, TrackerAssumption DEF MapTypes
  <2>2. QED
    BY <1>2, <1>4, <1>8, <2>1 DEF ClaimInv
<1>14. QED
  BY <1>2, <1>9, <1>12, <1>13 DEF ClaimInv

\* The steps in between change neither the claims nor what was sent.
LEMMA BetweenKeepsClaims ==
    ASSUME TypeOK, ClaimInv, NEW p \in Processors,
           \/ LeaveClaimed(p) \/ ComputeMinOut(p) \/ BuildCalldata(p)
           \/ SimulatePass(p) \/ SimulateFail(p) \/ DropPayload(p) \/ Stop(p)
    PROVE  ClaimInv'
<1>1. ProcTypes
  BY DEF TypeOK
<1>2. UNCHANGED <<heap, made, sent>>
  BY DEF LeaveClaimed, ComputeMinOut, BuildCalldata, SimulatePass, SimulateFail, DropPayload, Stop
<1>3. TypeOK'
  BY QualifyTyped
<1>4. proc'[p] \in ProcessorRecords
  <2>1. ProcessorRecords' = ProcessorRecords
    BY DEF ProcessorRecords, Pcs, Qualifying, Candidates, Addresses, PlatformNames
  <2>2. QED
    BY <1>3, <2>1 DEF TypeOK, ProcTypes
<1>5. proc' = [proc EXCEPT ![p] = proc'[p]]
  BY <1>1 DEF ProcTypes, LeaveClaimed, ComputeMinOut, BuildCalldata, SimulatePass, SimulateFail,
              DropPayload, Stop
<1>6. \/ proc'[p].pc \notin Qualifying \cup {"stored"}
      \/ proc'[p].pc \in Qualifying /\ proc[p].pc \in Qualifying /\ proc'[p].obj = proc[p].obj
  <2>1. CASE LeaveClaimed(p) \/ SimulateFail(p) \/ DropPayload(p)
    BY <1>1, <2>1 DEF ProcTypes, LeaveClaimed, SimulateFail, DropPayload, IdleProcessor, Qualifying
  <2>2. CASE ComputeMinOut(p)
    BY <1>1, <2>2 DEF ProcTypes, ProcessorRecords, ComputeMinOut, Qualifying
  <2>3. CASE BuildCalldata(p)
    BY <1>1, <2>3 DEF ProcTypes, ProcessorRecords, BuildCalldata, IdleProcessor, Qualifying
  <2>4. CASE SimulatePass(p)
    BY <1>1, <2>4 DEF ProcTypes, ProcessorRecords, SimulatePass, Qualifying
  <2>5. CASE Stop(p)
    BY <1>1, <2>5 DEF ProcTypes, ProcessorRecords, Stop, Qualifying
  <2>6. QED
    BY <2>1, <2>2, <2>3, <2>4, <2>5
<1>7. QED
  BY <1>1, <1>2, <1>4, <1>5, <1>6, LocalsKeepClaims

-----------------------------------------------------------------------------
LEMMA FreshKept ==
    ASSUME TypeOK, FreshInv, Next
    PROVE  FreshInv'
<1>1. ProcTypes
  BY DEF TypeOK
<1>2. ~ IdleProcessor.parsed.graduating
  BY DEF IdleProcessor, NoCandidate
<1>3. CASE UNCHANGED proc
  BY <1>3 DEF FreshInv
<1>4. CASE \E p \in Processors : TakeLog(p)
  <2>1. PICK p \in Processors : TakeLog(p)
    BY <1>4
  <2>2. ~ Parsed(Head(logChan)).graduating
    BY DEF Parsed
  <2>3. \A q \in Processors : proc'[q] = proc[q] \/ proc'[q].parsed = Parsed(Head(logChan))
    BY <1>1, <2>1 DEF ProcTypes, TakeLog, IdleProcessor
  <2>4. QED
    BY <2>2, <2>3 DEF FreshInv
<1>5. CASE \E p \in Processors : Processor(p) /\ ~ TakeLog(p)
  <2>1. PICK p \in Processors : Processor(p) /\ ~ TakeLog(p)
    BY <1>5
  <2>2. \A q \in Processors : q # p => proc'[q] = proc[q]
    BY <1>1, <2>1 DEF ProcTypes, Processor, StoreKnown, StoreNew, Claim, LeaveClaimed, ComputeMinOut,
            BuildCalldata, SimulatePass, SimulateFail, SendPayload, DropPayload, Stop
  <2>3. proc'[p].parsed = proc[p].parsed \/ proc'[p] = IdleProcessor
    <3>0. proc[p] \in ProcessorRecords
      BY <1>1 DEF ProcTypes
    <3>1. CASE StoreKnown(p)
      <4>1. proc'[p] = [proc[p] EXCEPT !.pc = "stored", !.obj = candidates[proc[p].parsed.token]]
        BY <1>1, <3>1 DEF ProcTypes, StoreKnown
      <4>2. QED
        BY <3>0, <4>1 DEF ProcessorRecords
    <3>2. CASE StoreNew(p)
      <4>1. proc'[p] = [proc[p] EXCEPT !.pc = "stored", !.obj = made + 1]
        BY <1>1, <3>2 DEF ProcTypes, StoreNew
      <4>2. QED
        BY <3>0, <4>1 DEF ProcessorRecords
    <3>3. CASE Claim(p)
      <4>1. proc'[p] = [proc[p] EXCEPT !.pc = "claimed"]
        BY <1>1, <3>3 DEF ProcTypes, Claim
      <4>2. QED
        BY <3>0, <4>1 DEF ProcessorRecords
    <3>4. CASE SimulatePass(p)
      <4>1. proc'[p] = [proc[p] EXCEPT !.pc = "send"]
        BY <1>1, <3>4 DEF ProcTypes, SimulatePass
      <4>2. QED
        BY <3>0, <4>1 DEF ProcessorRecords
    <3>5. CASE Stop(p)
      <4>1. proc'[p] = [proc[p] EXCEPT !.pc = "gone"]
        BY <1>1, <3>5 DEF ProcTypes, Stop
      <4>2. QED
        BY <3>0, <4>1 DEF ProcessorRecords
    <3>7. CASE ComputeMinOut(p)
      <4>1. proc'[p] = [proc[p] EXCEPT !.pc = "building", !.minOut = MinAmountOut(heap[proc[p].obj].required)]
        BY <1>1, <3>7 DEF ProcTypes, ComputeMinOut
      <4>2. QED
        BY <3>0, <4>1 DEF ProcessorRecords
    <3>8. CASE BuildCalldata(p)
      <4>1. \/ proc'[p] = IdleProcessor
            \/ proc'[p] = [proc[p] EXCEPT !.pc = "simulate", !.amount = heap[proc[p].obj].required]
        BY <1>1, <3>8 DEF ProcTypes, BuildCalldata
      <4>2. QED
        BY <3>0, <4>1 DEF ProcessorRecords
    <3>9. CASE LeaveClaimed(p) \/ SimulateFail(p) \/ SendPayload(p) \/ DropPayload(p)
      BY <1>1, <3>9 DEF ProcTypes, LeaveClaimed, SimulateFail, SendPayload, DropPayload
    <3>6. QED
      BY <2>1, <3>1, <3>2, <3>3, <3>4, <3>5, <3>7, <3>8, <3>9 DEF Processor
  <2>4. QED
    BY <1>2, <2>2, <2>3 DEF FreshInv
<1>6. QED
  BY <1>3, <1>4, <1>5 DEF Next, Emit, DayPasses, Cleanup, Clear, Cancel

LEMMA ListKept ==
    ASSUME TypeOK, ListInv, Next
    PROVE  ListInv'
<1>1. HeapTypes /\ MapTypes /\ ProcTypes
  BY DEF TypeOK
<1>2. Addresses' = Addresses
  BY DEF Addresses
<1>3. made \in Nat /\ \A i \in 1..made : i \in Ids
  BY <1>1, TrackerAssumption DEF MapTypes, Ids
<1>4. \A t \in Addresses : candidates[t] # 0 => candidates[t] \in 1..made
  BY <1>1, <1>3 DEF MapTypes
<1>5. CASE \E p \in Processors : StoreNew(p)
  <2>1. PICK p \in Processors : StoreNew(p)
    BY <1>5
  <2> DEFINE t == proc[p].parsed.token
  <2>2. t \in Addresses
    BY <1>1 DEF ProcTypes, ProcessorRecords, Candidates
  <2>3. made' = made + 1 /\ made + 1 \in Ids
    BY <1>3, <2>1, TrackerAssumption DEF StoreNew, Ids
  <2>4. heap'[made + 1].token = t /\ \A i \in 1..made : heap'[i] = heap[i]
    BY <1>1, <1>3, <2>1, <2>3 DEF StoreNew, HeapTypes
  <2>5. candidates'[t] = made + 1 /\ \A u \in Addresses : u # t => candidates'[u] = candidates[u]
    BY <1>1, <2>1, <2>2 DEF StoreNew, MapTypes
  <2>6. ASSUME NEW u \in Addresses, u # t, candidates'[u] # 0
        PROVE  /\ heap'[candidates'[u]].token = u
               /\ \A i \in 1..made' : heap'[i].token = u => i <= candidates'[u]
    <3>1. candidates'[u] = candidates[u] /\ candidates[u] \in 1..made
      BY <1>4, <2>5, <2>6
    <3>2. \A i \in 1..made' : i \in 1..made \/ i = made + 1
      BY <1>3, <2>3
    <3>3. QED
      BY <2>4, <2>6, <3>1, <3>2 DEF ListInv
  <2>7. \A i \in 1..made' : i <= made + 1
    BY <1>3, <2>3
  <2>8. QED
    BY <1>2, <2>4, <2>5, <2>6, <2>7 DEF ListInv
<1>6. CASE /\ made' = made /\ \A i \in 1..made : heap'[i].token = heap[i].token
           /\ \A t \in Addresses : candidates'[t] \in {0, candidates[t]}
  BY <1>2, <1>4, <1>6 DEF ListInv
<1>7. CASE DayPasses \/ Cleanup \/ Clear \/ Cancel
  <2>1. made' = made /\ heap' = heap
    BY <1>7 DEF DayPasses, Cleanup, Clear, Cancel
  <2>2. \A t \in Addresses : candidates'[t] \in {0, candidates[t]}
    BY <1>7 DEF DayPasses, Cleanup, Clear, Cancel
  <2>3. QED
    BY <1>6, <2>1, <2>2
<1>8. CASE \E p \in Processors : Processor(p) /\ ~ StoreNew(p)
  <2>1. PICK p \in Processors : Processor(p) /\ ~ StoreNew(p)
    BY <1>8
  <2>2. made' = made /\ candidates' = candidates
    BY <2>1 DEF Processor, TakeLog, StoreKnown, Claim, LeaveClaimed, ComputeMinOut, BuildCalldata,
            SimulatePass, SimulateFail, SendPayload, DropPayload, Stop
  <2>3. \A i \in 1..made : heap'[i].token = heap[i].token
    <3>1. CASE StoreKnown(p)
      BY <1>1, <1>3, <3>1 DEF StoreKnown, HeapTypes, Candidates
    <3>2. CASE Claim(p)
      BY <1>1, <1>3, <3>2 DEF Claim, HeapTypes, Candidates
    <3>3. CASE ~ StoreKnown(p) /\ ~ Claim(p)
      <4>1. heap' = heap
        BY <2>1, <3>3 DEF Processor, TakeLog, LeaveClaimed, ComputeMinOut, BuildCalldata,
                SimulatePass, SimulateFail, SendPayload, DropPayload, Stop
      <4>2. QED
        BY <4>1
    <3>4. QED
      BY <3>1, <3>2, <3>3
  <2>4. QED
    BY <1>6, <2>2, <2>3
<1>9. CASE \E l \in Logs : Emit(l)
  <2>1. made' = made /\ candidates' = candidates /\ heap' = heap
    BY <1>9 DEF Emit
  <2>2. QED
    BY <1>6, <2>1
<1>10. QED
  BY <1>5, <1>7, <1>8, <1>9 DEF Next

-----------------------------------------------------------------------------
TrackerInv == TypeOK /\ ClaimInv /\ FreshInv /\ ListInv

LEMMA InvInitially == Init => TrackerInv
<1> SUFFICES ASSUME Init PROVE TrackerInv
  OBVIOUS
<1>1. TypeOK
  BY TypesInitially
<1>2. ClaimInv
  BY TrackerAssumption DEF Init, ClaimInv, IdleProcessor, NoCandidate, Qualifying, Ids
<1>3. FreshInv
  BY DEF Init, FreshInv, IdleProcessor, NoCandidate
<1>4. ListInv
  BY DEF Init, ListInv
<1>5. QED
  BY <1>1, <1>2, <1>3, <1>4 DEF TrackerInv

LEMMA InvKept == TrackerInv /\ [Next]_vars => TrackerInv'
<1> SUFFICES ASSUME TrackerInv, [Next]_vars PROVE TrackerInv'
  OBVIOUS
<1>1. TypeOK /\ ClaimInv /\ FreshInv /\ ListInv
  BY DEF TrackerInv
<1>2. CASE UNCHANGED vars
  <2>1. TypeOK'
    BY <1>1, <1>2, Untouched DEF TypeOK, vars
  <2>2. ClaimInv' /\ FreshInv' /\ ListInv'
    BY <1>1, <1>2 DEF vars, ClaimInv, FreshInv, ListInv, Ids, Addresses, AtWork
  <2>3. QED
    BY <2>1, <2>2 DEF TrackerInv
<1>3. CASE Next
  <2>1. FreshInv' /\ ListInv'
    BY <1>1, <1>3, FreshKept, ListKept
  <2>2. TypeOK' /\ ClaimInv'
    <3>1. CASE \E l \in Logs : Emit(l)
      <4>1. UNCHANGED <<proc, heap, made, sent>>
        BY <3>1 DEF Emit
      <4>2. QED
        BY <1>1, <3>1, <4>1, EmitTyped, OthersKeepClaims
    <3>2. CASE DayPasses \/ Cleanup \/ Clear \/ Cancel
      <4>1. UNCHANGED <<proc, heap, made, sent>>
        BY <3>2 DEF DayPasses, Cleanup, Clear, Cancel
      <4>2. QED
        BY <1>1, <3>2, <4>1, ForgetTyped, OthersKeepClaims
    <3>3. ASSUME NEW p \in Processors, Processor(p)
          PROVE  TypeOK' /\ ClaimInv'
      <4>1. CASE TakeLog(p)
        BY <1>1, <4>1, TakeTyped, TakeKeepsClaims
      <4>2. CASE StoreKnown(p) \/ StoreNew(p)
        BY <1>1, <4>2, StoreTyped, StoreKeepsClaims
      <4>3. CASE Claim(p)
        BY <1>1, <4>3, QualifyTyped, ClaimKeepsClaims
      <4>4. CASE SendPayload(p)
        BY <1>1, <4>4, QualifyTyped, SendKeepsClaims
      <4>5. CASE \/ LeaveClaimed(p) \/ ComputeMinOut(p) \/ BuildCalldata(p)
                 \/ SimulatePass(p) \/ SimulateFail(p) \/ DropPayload(p) \/ Stop(p)
        BY <1>1, <4>5, QualifyTyped, BetweenKeepsClaims
      <4>6. QED
        BY <3>3, <4>1, <4>2, <4>3, <4>4, <4>5 DEF Processor
    <3>4. QED
      BY <1>3, <3>1, <3>2, <3>3 DEF Next
  <2>3. QED
    BY <2>1, <2>2 DEF TrackerInv
<1>4. QED
  BY <1>2, <1>3

LEMMA InvAlways == Spec => []TrackerInv
  BY InvInitially, InvKept, PTL DEF Spec

\* Every variable of the tracker keeps its type, and the log channel its capacity
\* (tracker.go:426-465, 711-715).
THEOREM TrackerTyped == Spec => []TypeOK
  BY InvAlways, PTL DEF TrackerInv

\* Two processors at work on one token have different candidates, and the older one
\* has been forgotten (tracker.go:440-449, 466-472).
THEOREM QualifiesOneAtATime == Spec => []OneQualifierPerToken
<1>1. TrackerInv => OneQualifierPerToken
  <2> SUFFICES ASSUME TrackerInv, NEW i \in 1..made, NEW j \in 1..made,
                      NEW p \in AtWork(i), NEW q \in AtWork(j),
                      p # q, heap[i].token = heap[j].token, i <= j
               PROVE  i < j /\ candidates[heap[i].token] # i
    BY DEF OneQualifierPerToken
  <2>1. proc[p].obj = i /\ proc[q].obj = j /\ proc[p].pc \in Qualifying /\ proc[q].pc \in Qualifying
        /\ p \in Processors /\ q \in Processors
    BY DEF AtWork
  <2>2. i # j
    BY <2>1 DEF TrackerInv, ClaimInv
  <2>3. made \in Nat /\ i \in Nat /\ j \in Nat /\ i # 0
    BY TrackerAssumption DEF TrackerInv, TypeOK, MapTypes
  <2>4. i < j
    BY <2>2, <2>3
  <2>5. heap[i].token \in Addresses
    <3>1. i \in Ids
      BY <2>3, TrackerAssumption DEF TrackerInv, TypeOK, MapTypes, Ids
    <3>2. QED
      BY <3>1 DEF TrackerInv, TypeOK, HeapTypes, Candidates
  <2>6. candidates[heap[i].token] = i => j <= i
    BY <2>3, <2>5 DEF TrackerInv, ListInv
  <2>7. QED
    BY <2>3, <2>4, <2>6
<1>2. QED
  BY <1>1, InvAlways, PTL

-----------------------------------------------------------------------------
\* The refinement.  A step that changes no mark and no claim is a stutter.
LEMMA StageStays ==
    ASSUME UNCHANGED <<made, sent>>,
           \A i \in Ids : heap'[i].graduating = heap[i].graduating,
           \A p \in Processors :
              /\ proc'[p].pc \in Qualifying <=> proc[p].pc \in Qualifying
              /\ proc[p].pc \in Qualifying => proc'[p].obj = proc[p].obj
    PROVE  UNCHANGED <<Stage, sent>>
<1>1. Ids' = Ids
  BY DEF Ids
<1>2. \A i : AtWork(i)' = AtWork(i)
  BY DEF AtWork, Qualifying
<1>3. QED
  BY <1>1, <1>2 DEF Stage

\* A processor that lets go of its candidate ends the claim.
LEMMA StageReleased ==
    ASSUME TypeOK, ClaimInv, NEW p \in Processors, NEW i, i = proc[p].obj,
           proc[p].pc \in Qualifying,
           proc' = [proc EXCEPT ![p] = IdleProcessor], UNCHANGED <<heap, made>>
    PROVE  /\ i \in Ids
           /\ Stage[i] = "claimed"
           /\ Stage' = [Stage EXCEPT ![i] = "done"]
<1>1. Ids' = Ids /\ made \in Nat
  BY TrackerAssumption DEF Ids, TypeOK, MapTypes
<1>2. i \in 1..made /\ heap[i].graduating
  BY DEF ClaimInv
<1>3. i \in Ids /\ i <= made
  BY <1>1, <1>2, TrackerAssumption DEF Ids, TypeOK, MapTypes
<1>4. p \in AtWork(i)
  BY DEF AtWork
<1>5. Stage[i] = "claimed"
  BY <1>1, <1>2, <1>3, <1>4 DEF Stage, Ids
<1>6. proc'[p].pc \notin Qualifying /\ \A q \in Processors : q # p => proc'[q] = proc[q]
  BY DEF TypeOK, ProcTypes, IdleProcessor, Qualifying
<1>7. \A q \in Processors : proc[q].pc \in Qualifying /\ q # p => proc[q].obj # i
  BY DEF ClaimInv
<1>8. AtWork(i)' = {}
  BY <1>6, <1>7 DEF AtWork, Qualifying
<1>9. \A j \in Ids : j # i => AtWork(j)' = AtWork(j)
  BY <1>6 DEF AtWork, Qualifying
<1>10. Stage' = [j \in Ids |-> IF j = i THEN "done" ELSE Stage[j]]
  BY <1>1, <1>2, <1>3, <1>8, <1>9 DEF Stage, Ids
<1>11. Stage' = [Stage EXCEPT ![i] = "done"]
  BY <1>10 DEF Stage
<1>12. QED
  BY <1>3, <1>5, <1>11

LEMMA StageOnStoreNew ==
    ASSUME TrackerInv, NEW p \in Processors, StoreNew(p), NEW i, i = made + 1
    PROVE  i \in Ids /\ GraduatesOnce!List(i)
<1>1. Ids' = Ids /\ made \in Nat /\ i \in Ids /\ made' = i /\ sent' = sent
  BY TrackerAssumption DEF Ids, TrackerInv, TypeOK, MapTypes, StoreNew
<1>2. heap'[i] = proc[p].parsed /\ \A j \in Ids : j # i => heap'[j] = heap[j]
  BY <1>1 DEF StoreNew, TrackerInv, TypeOK, HeapTypes
<1>3. ~ heap'[i].graduating
  BY <1>2 DEF TrackerInv, FreshInv
<1>4. proc[p].pc \notin Qualifying /\ proc'[p].pc \notin Qualifying
      /\ \A q \in Processors : q # p => proc'[q] = proc[q]
  BY DEF StoreNew, TrackerInv, TypeOK, ProcTypes, ProcessorRecords, Qualifying
<1>5. \A j : AtWork(j)' = AtWork(j)
  BY <1>4 DEF AtWork, Qualifying
<1>6. Stage[i] = "new"
  BY <1>1 DEF Stage
<1>7. \A j \in Ids : j # i => (j > made <=> j > made')
  BY <1>1 DEF Ids
<1>8. Stage' = [j \in Ids |-> IF j = i THEN "listed" ELSE Stage[j]]
  BY <1>1, <1>2, <1>3, <1>5, <1>7 DEF Stage
<1>9. Stage' = [Stage EXCEPT ![i] = "listed"]
  BY <1>8 DEF Stage
<1>10. QED
  BY <1>1, <1>6, <1>9 DEF GraduatesOnce!List

LEMMA StageOnClaim ==
    ASSUME TrackerInv, NEW p \in Processors, Claim(p), NEW i, i = proc[p].obj
    PROVE  i \in Ids /\ GraduatesOnce!Claim(i)
<1>1. Ids' = Ids /\ made \in Nat /\ made' = made /\ sent' = sent
  BY TrackerAssumption DEF Ids, TrackerInv, TypeOK, MapTypes, Claim
<1>2. i \in 1..made /\ ~ heap[i].graduating
  BY DEF TrackerInv, ClaimInv, Claim
<1>3. i \in Ids /\ i <= made
  BY <1>1, <1>2, TrackerAssumption DEF Ids, TrackerInv, TypeOK, MapTypes
<1>4. heap'[i].graduating /\ \A j \in Ids : j # i => heap'[j] = heap[j]
  BY <1>3 DEF Claim, TrackerInv, TypeOK, HeapTypes, Candidates
<1>5. proc[p].pc = "stored" /\ proc'[p].pc = "claimed" /\ proc'[p].obj = i
      /\ \A q \in Processors : q # p => proc'[q] = proc[q]
  BY DEF Claim, TrackerInv, TypeOK, ProcTypes, ProcessorRecords
<1>6. p \in AtWork(i)'
  BY <1>5 DEF AtWork, Qualifying
<1>7. \A j \in Ids : j # i => AtWork(j)' = AtWork(j)
  BY <1>5 DEF AtWork, Qualifying
<1>8. Stage[i] = "listed"
  BY <1>1, <1>2, <1>3 DEF Stage, Ids
<1>9. Stage' = [j \in Ids |-> IF j = i THEN "claimed" ELSE Stage[j]]
  BY <1>1, <1>3, <1>4, <1>6, <1>7 DEF Stage, Ids
<1>10. Stage' = [Stage EXCEPT ![i] = "claimed"]
  BY <1>9 DEF Stage
<1>11. QED
  BY <1>1, <1>3, <1>8, <1>10 DEF GraduatesOnce!Claim

LEMMA StageInitially == Init => GraduatesOnce!Init
<1> SUFFICES ASSUME Init PROVE GraduatesOnce!Init
  OBVIOUS
<1>1. made = 0 /\ sent = [i \in Ids |-> 0]
  BY DEF Init
<1>2. \A i \in Ids : i > made
  BY <1>1, TrackerAssumption DEF Ids
<1>3. Stage = [i \in Ids |-> "new"]
  BY <1>2 DEF Stage
<1>4. QED
  BY <1>1, <1>3 DEF GraduatesOnce!Init

\* A step of a processor that keeps its claim, or has none, is a stutter.
LEMMA StageOnQuiet ==
    ASSUME TypeOK, NEW p \in Processors,
           \/ TakeLog(p) \/ StoreKnown(p) \/ LeaveClaimed(p) \/ ComputeMinOut(p)
           \/ SimulatePass(p) \/ Stop(p)
    PROVE  UNCHANGED <<Stage, sent>>
<1>1. UNCHANGED <<made, sent>>
  BY DEF TakeLog, StoreKnown, LeaveClaimed, ComputeMinOut, SimulatePass, Stop
<1>2. \A q \in Processors : q # p => proc'[q] = proc[q]
  BY DEF TypeOK, ProcTypes, TakeLog, StoreKnown, LeaveClaimed, ComputeMinOut, SimulatePass, Stop
<1>3. \A j \in Ids : heap'[j].graduating = heap[j].graduating
  <2>1. CASE StoreKnown(p)
    BY <2>1, StoreKnownEffect DEF TypeOK
  <2>2. CASE ~ StoreKnown(p)
    BY <2>2 DEF TakeLog, LeaveClaimed, ComputeMinOut, SimulatePass, Stop
  <2>3. QED
    BY <2>1, <2>2
<1>4. CASE TakeLog(p)
  <2>1. proc[p].pc \notin Qualifying /\ proc'[p].pc \notin Qualifying
    BY <1>4 DEF TakeLog, TypeOK, ProcTypes, IdleProcessor, Qualifying
  <2>2. QED
    BY <1>1, <1>2, <1>3, <2>1, StageStays
<1>5. CASE StoreKnown(p) \/ LeaveClaimed(p) \/ Stop(p)
  <2>1. proc[p].pc \in {"parsed", "stored", "idle"}
    BY <1>5 DEF StoreKnown, LeaveClaimed, Stop
  <2>2. proc'[p].pc \in {"stored", "idle", "gone"}
    <3>1. CASE StoreKnown(p)
      BY <3>1 DEF StoreKnown, TypeOK, ProcTypes, ProcessorRecords
    <3>2. CASE Stop(p)
      BY <3>2 DEF Stop, TypeOK, ProcTypes, ProcessorRecords
    <3>3. CASE LeaveClaimed(p)
      BY <3>3 DEF LeaveClaimed, TypeOK, ProcTypes, IdleProcessor
    <3>4. QED
      BY <1>5, <3>1, <3>2, <3>3
  <2>3. proc[p].pc \notin Qualifying /\ proc'[p].pc \notin Qualifying
    BY <2>1, <2>2 DEF Qualifying
  <2>4. QED
    BY <1>1, <1>2, <1>3, <2>3, StageStays
<1>6. CASE ComputeMinOut(p) \/ SimulatePass(p)
  <2>1. proc[p].pc \in Qualifying /\ proc'[p].pc \in Qualifying /\ proc'[p].obj = proc[p].obj
    BY <1>6 DEF ComputeMinOut, SimulatePass, TypeOK, ProcTypes, ProcessorRecords, Qualifying
  <2>2. QED
    BY <1>1, <1>2, <1>3, <2>1, StageStays
<1>7. QED
  BY <1>4, <1>5, <1>6

\* A failed packing or simulation, or a full channel, gives the candidate up.
LEMMA StageOnGiveUp ==
    ASSUME TypeOK, ClaimInv, NEW p \in Processors, NEW i, i = proc[p].obj,
           SimulateFail(p) \/ DropPayload(p)
    PROVE  i \in Ids /\ GraduatesOnce!GiveUp(i)
<1>1. proc[p].pc \in Qualifying /\ proc' = [proc EXCEPT ![p] = IdleProcessor]
  BY DEF SimulateFail, DropPayload, Qualifying
<1>2. UNCHANGED <<heap, made, sent>>
  BY DEF SimulateFail, DropPayload
<1>3. QED
  BY <1>1, <1>2, StageReleased DEF GraduatesOnce!GiveUp

LEMMA StageOnBuild ==
    ASSUME TypeOK, ClaimInv, NEW p \in Processors, NEW i, i = proc[p].obj, BuildCalldata(p)
    PROVE  UNCHANGED <<Stage, sent>> \/ (i \in Ids /\ GraduatesOnce!GiveUp(i))
<1>1. proc[p].pc = "building" /\ UNCHANGED <<heap, made, sent>>
  BY DEF BuildCalldata
<1>2. CASE proc' = [proc EXCEPT ![p] = IdleProcessor]
  BY <1>1, <1>2, StageReleased DEF GraduatesOnce!GiveUp, Qualifying
<1>3. CASE proc' # [proc EXCEPT ![p] = IdleProcessor]
  <2>1. proc'[p].pc = "simulate" /\ proc'[p].obj = proc[p].obj
        /\ \A q \in Processors : q # p => proc'[q] = proc[q]
    BY <1>3 DEF BuildCalldata, TypeOK, ProcTypes, ProcessorRecords
  <2>2. UNCHANGED <<made, sent>> /\ \A j \in Ids : heap'[j].graduating = heap[j].graduating
    BY <1>1
  <2>3. proc[p].pc \in Qualifying /\ proc'[p].pc \in Qualifying
    BY <1>1, <2>1 DEF Qualifying
  <2>4. QED
    BY <2>1, <2>2, <2>3, StageStays
<1>4. QED
  BY <1>2, <1>3

LEMMA StageOnSend ==
    ASSUME TypeOK, ClaimInv, NEW p \in Processors, NEW i, i = proc[p].obj, SendPayload(p)
    PROVE  i \in Ids /\ GraduatesOnce!Fire(i)
<1>1. proc[p].pc \in Qualifying /\ proc' = [proc EXCEPT ![p] = IdleProcessor]
  BY DEF SendPayload, Qualifying
<1>2. UNCHANGED <<heap, made>> /\ sent' = [sent EXCEPT ![i] = @ + 1]
  BY DEF SendPayload
<1>3. QED
  BY <1>1, <1>2, StageReleased DEF GraduatesOnce!Fire

LEMMA StageMoves == TrackerInv /\ [Next]_vars => [GraduatesOnce!Next]_<<Stage, sent>>
<1> SUFFICES ASSUME TrackerInv, [Next]_vars
             PROVE  GraduatesOnce!Next \/ UNCHANGED <<Stage, sent>>
  OBVIOUS
<1>1. TypeOK /\ ClaimInv
  BY DEF TrackerInv
<1>2. CASE UNCHANGED <<proc, heap, made, sent>>
  BY <1>2, StageStays
<1>3. CASE UNCHANGED vars
  BY <1>2, <1>3 DEF vars
<1>4. CASE (\E l \in Logs : Emit(l)) \/ DayPasses \/ Cleanup \/ Clear \/ Cancel
  BY <1>2, <1>4 DEF Emit, DayPasses, Cleanup, Clear, Cancel
<1>5. ASSUME NEW p \in Processors, Processor(p)
      PROVE  GraduatesOnce!Next \/ UNCHANGED <<Stage, sent>>
  <2>1. PICK i : i = proc[p].obj
    OBVIOUS
  <2>2. CASE StoreNew(p)
    BY <2>2, StageOnStoreNew DEF GraduatesOnce!Next
  <2>3. CASE Claim(p)
    BY <2>1, <2>3, StageOnClaim DEF GraduatesOnce!Next
  <2>4. CASE SendPayload(p)
    BY <1>1, <2>1, <2>4, StageOnSend DEF GraduatesOnce!Next
  <2>5. CASE SimulateFail(p) \/ DropPayload(p)
    BY <1>1, <2>1, <2>5, StageOnGiveUp DEF GraduatesOnce!Next
  <2>6. CASE BuildCalldata(p)
    BY <1>1, <2>1, <2>6, StageOnBuild DEF GraduatesOnce!Next
  <2>7. CASE \/ TakeLog(p) \/ StoreKnown(p) \/ LeaveClaimed(p) \/ ComputeMinOut(p)
             \/ SimulatePass(p) \/ Stop(p)
    BY <1>1, <2>7, StageOnQuiet
  <2>8. QED
    BY <1>5, <2>2, <2>3, <2>4, <2>5, <2>6, <2>7 DEF Processor
<1>6. QED
  BY <1>3, <1>4, <1>5 DEF Next

\* Each candidate is claimed once and submitted at most once, whatever logs arrive
\* and whenever the tracker forgets (tracker.go:440-449, 466-533).
THEOREM GraduatesAtMostOnce == Spec => FiresOnce
  BY StageInitially, StageMoves, InvAlways, PTL DEF Spec, FiresOnce, GraduatesOnce!Spec
-----------------------------------------------------------------------------
\* A minimum computed from what a log of token t reported.
MinReported(logs, t, m) == \E n \in Needs : Reported(logs, t, n) /\ m = MinAmountOut(n)

\* What is kept of a log, in whichever hands it is, was reported for that token.
PushInv ==
    /\ \A p \in Processors :
          proc[p].pc = "parsed" => Reported(seen, proc[p].parsed.token, proc[p].parsed.required)
    /\ \A i \in 1..made : Reported(seen, heap[i].token, heap[i].required)
    /\ \A p \in Processors :
          proc[p].pc \in {"building", "simulate", "send"} =>
              MinReported(seen, heap[proc[p].obj].token, proc[p].minOut)
    /\ \A p \in Processors :
          proc[p].pc \in {"simulate", "send"} =>
              Reported(seen, heap[proc[p].obj].token, proc[p].amount)
    /\ PushWasReported

LEMMA ReportedIsNeed ==
    ASSUME TypeOK, NEW t, NEW n, Reported(seen, t, n) PROVE n \in Needs
<1>1. seen \subseteq Logs
  BY DEF TypeOK, HistTypes
<1>2. QED
  BY <1>1 DEF Reported, Needs, Logs

\* What was reported stays so.
LEMMA ReportsStay ==
    ASSUME seen \subseteq seen'
    PROVE  /\ \A t, n : Reported(seen, t, n) => Reported(seen', t, n)
           /\ \A t, n : MinReported(seen, t, n) => MinReported(seen', t, n)
<1>1. \A t, n : Reported(seen, t, n) => Reported(seen', t, n)
  BY DEF Reported
<1>2. QED
  BY <1>1 DEF MinReported

LEMMA PushesStay ==
    ASSUME PushWasReported, seen \subseteq seen', pushes' = pushes PROVE PushWasReported'
  BY ReportsStay DEF PushWasReported

\* A processor changes its own locals alone.
LEMMA LocalsKeepPushes ==
    ASSUME ProcTypes, PushInv, NEW p \in Processors, NEW r,
           proc' = [proc EXCEPT ![p] = r],
           seen \subseteq seen',
           UNCHANGED <<heap, made, pushes>>,
           r.pc = "parsed" => Reported(seen', r.parsed.token, r.parsed.required),
           r.pc \in {"building", "simulate", "send"} =>
               MinReported(seen, heap[r.obj].token, r.minOut),
           r.pc \in {"simulate", "send"} => Reported(seen, heap[r.obj].token, r.amount)
    PROVE  PushInv'
<1>1. \A q \in Processors : proc'[q] = IF q = p THEN r ELSE proc[q]
  BY DEF ProcTypes
<1>2. PushWasReported'
  BY PushesStay DEF PushInv
<1>3. /\ \A q \in Processors :
            proc'[q].pc = "parsed" => Reported(seen', proc'[q].parsed.token, proc'[q].parsed.required)
      /\ \A i \in 1..made : Reported(seen', heap'[i].token, heap'[i].required)
  BY <1>1, ReportsStay DEF PushInv
<1>4. \A q \in Processors :
          proc'[q].pc \in {"building", "simulate", "send"} =>
              MinReported(seen', heap'[proc'[q].obj].token, proc'[q].minOut)
  BY <1>1, ReportsStay DEF PushInv
<1>5. \A q \in Processors :
          proc'[q].pc \in {"simulate", "send"} =>
              Reported(seen', heap'[proc'[q].obj].token, proc'[q].amount)
  BY <1>1, ReportsStay DEF PushInv
<1>6. QED
  BY <1>2, <1>3, <1>4, <1>5 DEF PushInv

LEMMA TakeKeepsPushes ==
    ASSUME TypeOK, PushInv, NEW p \in Processors, TakeLog(p)
    PROVE  PushInv'
<1> DEFINE l == Head(logChan)
           r == [IdleProcessor EXCEPT !.pc = "parsed", !.parsed = Parsed(l)]
<1>1. ProcTypes /\ UNCHANGED <<heap, made, pushes>> /\ seen' = seen \cup {l}
  BY DEF TypeOK, TakeLog
<1>2. CASE proc' = proc
  <2>1. PushWasReported'
    BY <1>1, PushesStay DEF PushInv
  <2>2. QED
    BY <1>1, <1>2, <2>1, ReportsStay DEF PushInv
<1>3. CASE proc' # proc
  <2>1. proc' = [proc EXCEPT ![p] = r] /\ NearGraduation(l.reading)
    BY <1>3 DEF TakeLog
  <2>3. r.pc = "parsed" /\ r.parsed = Parsed(l)
    <3> HIDE DEF l
    <3> QED
      BY DEF IdleProcessor
  <2>4. r.parsed.required = RequiredInput(l.reading) /\ r.parsed.token = TokenAddress(l)
    BY <2>3 DEF Parsed
  <2>5. Reported(seen', r.parsed.token, r.parsed.required)
    <3>1. l \in seen'
      BY <1>1
    <3> HIDE DEF r, l
    <3>2. QED
      BY <2>1, <2>4, <3>1 DEF Reported
  <2> HIDE DEF r
  <2>6. QED
    BY <1>1, <2>1, <2>3, <2>5, LocalsKeepPushes
<1>4. QED
  BY <1>2, <1>3

LEMMA StoreKeepsPushes ==
    ASSUME TypeOK, ListInv, ClaimInv, PushInv, NEW p \in Processors, StoreKnown(p) \/ StoreNew(p)
    PROVE  PushInv'
<1> DEFINE required == proc[p].parsed.required
           token == proc[p].parsed.token
<1>1. ProcTypes /\ HeapTypes /\ MapTypes /\ Reported(seen, token, required) /\ pushes' = pushes /\ seen' = seen
  BY DEF TypeOK, PushInv, StoreKnown, StoreNew
<1>2. \A q \in Processors : q # p => proc'[q] = proc[q]
  BY <1>1 DEF ProcTypes, StoreKnown, StoreNew
<1>3. proc'[p].pc = "stored"
  <2>0. proc[p] \in ProcessorRecords
    BY <1>1 DEF ProcTypes
  <2>1. \E i : proc'[p] = [proc[p] EXCEPT !.pc = "stored", !.obj = i]
    BY <1>1 DEF ProcTypes, StoreKnown, StoreNew
  <2>2. QED
    BY <2>0, <2>1 DEF ProcessorRecords
<1>4. /\ \A i \in 1..made' : \/ heap'[i].required = required /\ heap'[i].token = token
                             \/ i \in 1..made /\ heap'[i] = heap[i]
      /\ \A i \in 1..made : heap'[i].token = heap[i].token
  <2>1. made \in Nat /\ \A i \in 1..made : i \in Ids
    BY <1>1, TrackerAssumption DEF MapTypes, Ids
  <2>2. CASE StoreKnown(p)
    <3> DEFINE k == candidates[token]
               c == [heap[k] EXCEPT !.required = required]
    <3>1. made' = made /\ heap' = [heap EXCEPT ![k] = c] /\ k # 0
      BY <2>2 DEF StoreKnown
    <3>2. ASSUME NEW i \in 1..made, i # k PROVE heap'[i] = heap[i]
      <4> HIDE DEF c, k
      <4> QED
        BY <1>1, <2>1, <3>1, <3>2 DEF HeapTypes
    <3>3. k \in Ids => heap'[k].required = required /\ heap'[k].token = heap[k].token
      <4> HIDE DEF k, required
      <4> QED
        BY <1>1, <3>1 DEF HeapTypes, Candidates
    <3>4. heap[k].token = token /\ k \in 1..made
      <4>1. token \in Addresses
        BY <1>1 DEF ProcTypes, ProcessorRecords, Candidates
      <4>2. k \in 1..made
        BY <1>1, <3>1, <4>1, <2>1 DEF MapTypes
      <4>3. QED
        BY <3>1, <4>1, <4>2 DEF ListInv
    <3> HIDE DEF k, required, token
    <3>5. QED
      BY <2>1, <3>1, <3>2, <3>3, <3>4
  <2>3. CASE StoreNew(p)
    <3>1. made' = made + 1 /\ made + 1 \in Ids
      BY <1>1, <2>3, TrackerAssumption DEF MapTypes, Ids, StoreNew
    <3>2. heap'[made + 1] = proc[p].parsed /\ \A i \in 1..made : heap'[i] = heap[i]
      BY <1>1, <2>1, <2>3, <3>1 DEF HeapTypes, StoreNew
    <3>3. QED
      BY <2>1, <3>1, <3>2
  <2>4. QED
    BY <2>2, <2>3
<1>5. PushWasReported'
  BY <1>1, PushesStay DEF PushInv
<1>6. \A q \in Processors : proc[q].pc \in Qualifying => proc[q].obj \in 1..made
  BY DEF ClaimInv
<1> HIDE DEF required, token
<1>7. QED
  BY <1>1, <1>2, <1>3, <1>4, <1>5, <1>6, ReportsStay DEF PushInv, Qualifying

LEMMA ClaimKeepsPushes ==
    ASSUME TypeOK, ClaimInv, PushInv, NEW p \in Processors, Claim(p)
    PROVE  PushInv'
<1>1. ProcTypes /\ HeapTypes /\ MapTypes /\ made' = made /\ pushes' = pushes /\ seen' = seen
  BY DEF TypeOK, Claim
<1>2. \A q \in Processors : q # p => proc'[q] = proc[q]
  BY <1>1 DEF ProcTypes, Claim
<1>3. proc'[p].pc = "claimed"
  BY <1>1 DEF ProcTypes, ProcessorRecords, Claim
<1>4. \A i \in 1..made : heap'[i].required = heap[i].required /\ heap'[i].token = heap[i].token
  <2>1. \A i \in 1..made : i \in Ids
    BY <1>1, TrackerAssumption DEF MapTypes, Ids
  <2>2. QED
    BY <1>1, <2>1 DEF HeapTypes, Candidates, Claim
<1>5. PushWasReported'
  BY <1>1, PushesStay DEF PushInv
<1>6. \A q \in Processors : proc[q].pc \in Qualifying => proc[q].obj \in 1..made
  BY DEF ClaimInv
<1>7. QED
  BY <1>1, <1>2, <1>3, <1>4, <1>5, <1>6, ReportsStay DEF PushInv, Qualifying

\* Minimum and amount come from the candidate, each as it is when it is read.
LEMMA BuildKeepsPushes ==
    ASSUME TypeOK, ClaimInv, PushInv, NEW p \in Processors, ComputeMinOut(p) \/ BuildCalldata(p)
    PROVE  PushInv'
<1> DEFINE amount == heap[proc[p].obj].required
           token == heap[proc[p].obj].token
<1>1. ProcTypes /\ HeapTypes /\ MapTypes /\ UNCHANGED <<heap, made, pushes, seen>>
  BY DEF TypeOK, ComputeMinOut, BuildCalldata
<1>2. proc[p].obj \in 1..made /\ proc[p].obj \in Ids
  BY <1>1, TrackerAssumption DEF ClaimInv, Qualifying, ComputeMinOut, BuildCalldata, MapTypes, Ids
<1>3. Reported(seen, token, amount)
  BY <1>1, <1>2 DEF PushInv
<1>4. CASE ComputeMinOut(p)
  <2> DEFINE r == [proc[p] EXCEPT !.pc = "building", !.minOut = MinAmountOut(amount)]
  <2>1. proc' = [proc EXCEPT ![p] = r]
    BY <1>4 DEF ComputeMinOut
  <2>2. r.pc = "building" /\ r.minOut = MinAmountOut(amount) /\ r.obj = proc[p].obj
    BY <1>1 DEF ProcTypes, ProcessorRecords
  <2>3. MinReported(seen, token, MinAmountOut(amount))
    <3> HIDE DEF amount, token
    <3> QED
      BY <1>3, ReportedIsNeed DEF MinReported
  <2>4. MinReported(seen, heap[r.obj].token, r.minOut)
    BY <2>2, <2>3
  <2> HIDE DEF r, amount
  <2>5. QED
    BY <1>1, <2>1, <2>2, <2>4, LocalsKeepPushes
<1>5. CASE BuildCalldata(p)
  <2> DEFINE r == [proc[p] EXCEPT !.pc = "simulate", !.amount = amount]
  <2>1. proc' = [proc EXCEPT ![p] = r]
    BY <1>5 DEF BuildCalldata
  <2>2. /\ r.pc = "simulate" /\ r.amount = amount
        /\ r.obj = proc[p].obj /\ r.minOut = proc[p].minOut
    BY <1>1 DEF ProcTypes, ProcessorRecords
  <2>3. Reported(seen, heap[r.obj].token, r.amount)
    BY <1>3, <2>2
  <2>4. MinReported(seen, heap[r.obj].token, r.minOut)
    BY <1>5, <2>2 DEF PushInv, BuildCalldata
  <2> HIDE DEF r, amount
  <2>5. QED
    BY <1>1, <2>1, <2>2, <2>3, <2>4, LocalsKeepPushes
<1>6. QED
  BY <1>4, <1>5

LEMMA SendKeepsPushes ==
    ASSUME TypeOK, PushInv, NEW p \in Processors, SendPayload(p)
    PROVE  PushInv'
<1> DEFINE x == [token |-> heap[proc[p].obj].token, amount |-> Packed(proc[p].amount),
                 minOut |-> Packed(proc[p].minOut)]
<1>1. ProcTypes /\ UNCHANGED <<heap, made, seen>>
  BY DEF TypeOK, SendPayload
<1>2. \A q \in Processors : q # p => proc'[q] = proc[q]
  BY <1>1 DEF ProcTypes, SendPayload
<1>3. proc'[p].pc = "idle"
  BY <1>1 DEF ProcTypes, SendPayload, IdleProcessor
<1>4. pushes' = pushes \cup {x}
  BY DEF SendPayload
<1>5. Reported(seen, x.token, proc[p].amount) /\ MinReported(seen, x.token, proc[p].minOut)
  BY DEF PushInv, SendPayload
<1>6. x.amount = Packed(proc[p].amount) /\ x.minOut = Packed(proc[p].minOut)
  OBVIOUS
<1> HIDE DEF x
<1>7. /\ \E n \in Needs : Reported(seen, x.token, n) /\ x.amount = Packed(n)
      /\ \E n \in Needs : Reported(seen, x.token, n) /\ x.minOut = Packed(MinAmountOut(n))
  BY <1>5, <1>6, ReportedIsNeed DEF MinReported
<1>8. PushWasReported'
  BY <1>1, <1>4, <1>7, ReportsStay DEF PushInv, PushWasReported
<1>9. QED
  BY <1>1, <1>2, <1>3, <1>8, ReportsStay DEF PushInv

\* The other steps of a processor let go of an amount or keep the one they have.
LEMMA OthersKeepPushes ==
    ASSUME TypeOK, PushInv, NEW p \in Processors,
           \/ LeaveClaimed(p) \/ SimulatePass(p) \/ SimulateFail(p) \/ DropPayload(p) \/ Stop(p)
    PROVE  PushInv'
<1>1. ProcTypes /\ UNCHANGED <<heap, made, pushes, seen>>
  BY DEF TypeOK, LeaveClaimed, SimulatePass, SimulateFail, DropPayload, Stop
<1>2. \A q \in Processors : q # p => proc'[q] = proc[q]
  BY <1>1 DEF ProcTypes, LeaveClaimed, SimulatePass, SimulateFail, DropPayload, Stop
<1>3. \/ proc'[p].pc \in {"idle", "gone"}
      \/ /\ proc[p].pc = "simulate" /\ proc'[p].pc = "send" /\ proc'[p].amount = proc[p].amount
         /\ proc'[p].obj = proc[p].obj /\ proc'[p].minOut = proc[p].minOut
  <2>1. CASE LeaveClaimed(p) \/ SimulateFail(p) \/ DropPayload(p)
    BY <1>1, <2>1 DEF ProcTypes, LeaveClaimed, SimulateFail, DropPayload, IdleProcessor
  <2>2. CASE SimulatePass(p)
    BY <1>1, <2>2 DEF ProcTypes, ProcessorRecords, SimulatePass
  <2>3. CASE Stop(p)
    BY <1>1, <2>3 DEF ProcTypes, ProcessorRecords, Stop
  <2>4. QED
    BY <2>1, <2>2, <2>3
<1>4. PushWasReported'
  BY <1>1, PushesStay DEF PushInv
<1>5. QED
  BY <1>1, <1>2, <1>3, <1>4, ReportsStay DEF PushInv

LEMMA PushesKept == TrackerInv /\ PushInv /\ [Next]_vars => PushInv'
<1> SUFFICES ASSUME TypeOK, ClaimInv, ListInv, PushInv, [Next]_vars PROVE PushInv'
  BY DEF TrackerInv
<1>1. ASSUME NEW p \in Processors, Processor(p) PROVE PushInv'
  BY <1>1, TakeKeepsPushes, StoreKeepsPushes, ClaimKeepsPushes, BuildKeepsPushes,
     SendKeepsPushes, OthersKeepPushes DEF Processor
<1>2. CASE UNCHANGED <<proc, heap, made, seen, pushes>>
  <2>1. PushWasReported'
    BY <1>2, PushesStay DEF PushInv
  <2>2. QED
    BY <1>2, <2>1, ReportsStay DEF PushInv
<1>3. QED
  BY <1>1, <1>2 DEF Next, Emit, DayPasses, Cleanup, Clear, Cancel, vars

\* Amount and minimum of every payload were reported by logs of its token at 99.9% of
\* the curve, although the candidate is read twice without the lock and later logs
\* change it (tracker.go:440-449, 484-499).
THEOREM SubmitsReportedPushes == Spec => []PushWasReported
<1>1. Init => PushInv
  <2> SUFFICES ASSUME Init PROVE PushInv
    OBVIOUS
  <2>1. \A p \in Processors : proc[p].pc = "idle"
    BY DEF Init, IdleProcessor
  <2>2. QED
    BY <2>1 DEF Init, PushInv, PushWasReported
<1>2. Spec => []PushInv
  BY <1>1, PushesKept, InvAlways, PTL DEF Spec
<1>3. PushInv => PushWasReported
  BY DEF PushInv
<1>4. QED
  BY <1>2, <1>3, PTL
=============================================================================
