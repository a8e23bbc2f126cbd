--------------------------- MODULE SimulationProofs ---------------------------
(* Proofs about Simulation, for any workers, routes, payloads and capacities:  *)
(* types and the places at the node; what the blacklist holds was earned; and, *)
(* if the code of the executor was fetched at the start, whatever is sent has  *)
(* worked since its payload was filled.                                        *)
EXTENDS Simulation, FiniteSetTheorems, SequenceTheorems, TLAPS

\* A worker has a payload object from Fill to PutPayload or Send.
Holding == {"choose", "local", "remote", "call", "reverted", "passed"}

LoadRecords == [route : Routes \cup {NoRoute}, seen : SUBSET Routes, hollow : BOOLEAN]

EnvironmentTypes ==
    /\ works \subseteq Routes /\ believed \subseteq Routes /\ matrix \subseteq Pools
    /\ priced \in BOOLEAN /\ running \in BOOLEAN
    /\ changes \in 0..MaxChanges /\ faults \in 0..MaxFaults
    /\ code \subseteq Code

CandidateTypes == candidates \in Seq(Routes) /\ Len(candidates) <= CandCap

WorkerTypes == worker \in [Workers -> WorkerRecords]

OutputTypes ==
    /\ pool \subseteq Payloads /\ exec \in Seq(Payloads) /\ Len(exec) <= ExecCap
    /\ load \in [Payloads -> LoadRecords]

\* A place at the node is taken exactly while a worker has a call there.
Calling == {w \in Workers : worker[w].pc = "call"}
SlotInv == slots = Cardinality(Calling) /\ slots <= SemCap

\* The blacklist, and what workers are about to add to it, is guilty.
BanInv ==
    /\ blacklist \subseteq Tokens /\ expired \subseteq blacklist
    /\ blacklist \subseteq guilty \ Anchors
    /\ \A w \in Workers : worker[w].pc = "reverted" => worker[w].route.tokens \subseteq guilty

RouteInv == \A w \in Workers : worker[w].pc # "idle" => worker[w].route \in Routes

\* The payload in a worker's hands is its own, and filled with its route.
HoldInv ==
    \A w \in Workers : worker[w].pc \in Holding =>
        /\ worker[w].payload \in Payloads \ pool
        /\ load[worker[w].payload].route = worker[w].route
        /\ \A v \in Workers \ {w} : worker[v].pc \in Holding => worker[v].payload # worker[w].payload
        /\ \A i \in 1..Len(exec) : exec[i] # worker[w].payload

QueueInv ==
    \A i \in 1..Len(exec) :
        /\ exec[i] \notin pool
        /\ \A j \in 1..Len(exec) : exec[i] = exec[j] => i = j

\* A payload whose route works now has it noted.
NotedInv ==
    \A p \in Payloads :
        load[p].route \in works \/ (load[p].route \in believed /\ load[p].route.pools \subseteq matrix) =>
            load[p].route \in load[p].seen

PlaceInv == RouteInv /\ HoldInv /\ QueueInv

BaseInv ==
    /\ EnvironmentTypes /\ CandidateTypes /\ WorkerTypes /\ OutputTypes
    /\ SlotInv /\ BanInv /\ PlaceInv /\ NotedInv

\* What passed has worked, in a worker's hands or in the channel.
WorkedInv ==
    /\ Executor \in code
    /\ \A w \in Workers : worker[w].pc = "passed" => Vouched(worker[w].payload)
    /\ SentHasWorked
-----------------------------------------------------------------------------
\* What a step of worker w leaves: its own record, and everyone else's as it was.
StepsTo(w, pc, route, payload) ==
    /\ worker' \in [Workers -> WorkerRecords]
    /\ \A v \in Workers \ {w} : worker'[v] = worker[v]
    /\ worker'[w].pc = pc /\ worker'[w].route = route /\ worker'[w].payload = payload

LEMMA PcOnly ==
    ASSUME WorkerTypes, NEW w \in Workers, NEW pc \in Pcs, worker' = [worker EXCEPT ![w].pc = pc]
    PROVE  StepsTo(w, pc, worker[w].route, worker[w].payload)
  BY DEF StepsTo, WorkerTypes, WorkerRecords

LEMMA PcAndGas ==
    ASSUME WorkerTypes, NEW w \in Workers, NEW pc \in Pcs, NEW gas \in {0, LocalGas, RemoteGas},
           worker' = [worker EXCEPT ![w].pc = pc, ![w].gas = gas]
    PROVE  StepsTo(w, pc, worker[w].route, worker[w].payload)
  BY DEF StepsTo, WorkerTypes, WorkerRecords

LEMMA ToIdle ==
    ASSUME WorkerTypes, NEW w \in Workers, worker' = [worker EXCEPT ![w] = IdleWorker]
    PROVE  StepsTo(w, "idle", NoRoute, Nothing)
<1>1. IdleWorker \in WorkerRecords
  BY DEF IdleWorker, WorkerRecords, Pcs
<1>2. QED
  BY <1>1 DEF StepsTo, WorkerTypes, IdleWorker

(* Places at the node. *)

LEMMA CallingFinite == IsFiniteSet(Calling)
<1>1. Calling \subseteq Workers
  BY DEF Calling
<1>2. QED
  BY <1>1, SimulationAssumption, FS_Subset

LEMMA SlotSame ==
    ASSUME BaseInv, NEW w \in Workers, NEW pc, NEW r, NEW p, StepsTo(w, pc, r, p),
           worker[w].pc # "call", pc # "call", slots' = slots
    PROVE  SlotInv'
<1>1. Calling' = Calling
  BY DEF StepsTo, Calling
<1>2. QED
  BY <1>1 DEF BaseInv, SlotInv

LEMMA SlotTaken ==
    ASSUME BaseInv, NEW w \in Workers, NEW r, NEW p, StepsTo(w, "call", r, p),
           worker[w].pc # "call", slots < SemCap, slots' = slots + 1
    PROVE  SlotInv'
<1>1. Calling' = Calling \cup {w} /\ w \notin Calling
  BY DEF StepsTo, Calling
<1>2. Cardinality(Calling') = Cardinality(Calling) + 1
  BY <1>1, CallingFinite, FS_AddElement
<1>3. slots \in Nat
  BY CallingFinite, FS_CardinalityType DEF BaseInv, SlotInv
<1>4. QED
  BY <1>2, <1>3, SimulationAssumption DEF BaseInv, SlotInv

LEMMA SlotFreed ==
    ASSUME BaseInv, NEW w \in Workers, NEW pc, NEW r, NEW p, StepsTo(w, pc, r, p),
           worker[w].pc = "call", pc # "call", slots' = slots - 1
    PROVE  SlotInv'
<1>1. Calling' = Calling \ {w} /\ w \in Calling
  BY DEF StepsTo, Calling
<1>2. Cardinality(Calling') = Cardinality(Calling) - 1
  BY <1>1, CallingFinite, FS_RemoveElement
<1>3. slots \in Nat
  BY CallingFinite, FS_CardinalityType DEF BaseInv, SlotInv
<1>4. QED
  BY <1>2, <1>3, SimulationAssumption DEF BaseInv, SlotInv

(* The blacklist, and the payloads, when a step leaves them alone. *)

LEMMA BanSame ==
    ASSUME BaseInv, NEW w \in Workers, NEW pc, NEW r, NEW p, StepsTo(w, pc, r, p),
           pc # "reverted", UNCHANGED banned
    PROVE  BanInv'
<1>1. blacklist' = blacklist /\ expired' = expired /\ guilty' = guilty
  BY DEF banned
<1>2. \A v \in Workers : worker'[v].pc = "reverted" => worker'[v] = worker[v]
  BY DEF StepsTo
<1>3. QED
  BY <1>1, <1>2 DEF BaseInv, BanInv, Tokens

\* The worker keeps the payload it has, or has none before and after.
LEMMA PlacesSame ==
    ASSUME BaseInv, NEW w \in Workers, NEW pc, NEW r, NEW p, StepsTo(w, pc, r, p),
           UNCHANGED <<pool, load, exec>>,
           pc \in Holding => worker[w].pc \in Holding /\ r = worker[w].route /\ p = worker[w].payload,
           pc # "idle" => r \in Routes
    PROVE  PlaceInv'
<1>1. RouteInv'
  BY DEF BaseInv, PlaceInv, RouteInv, StepsTo
<1>2. HoldInv'
  <2> SUFFICES ASSUME NEW x \in Workers, worker'[x].pc \in Holding
               PROVE  /\ worker'[x].payload \in Payloads \ pool
                      /\ load[worker'[x].payload].route = worker'[x].route
                      /\ \A v \in Workers \ {x} :
                            worker'[v].pc \in Holding => worker'[v].payload # worker'[x].payload
                      /\ \A i \in 1..Len(exec) : exec[i] # worker'[x].payload
    BY DEF HoldInv
  <2>1. \A v \in Workers : worker'[v].pc \in Holding =>
            worker[v].pc \in Holding /\ worker'[v].payload = worker[v].payload
                                     /\ worker'[v].route = worker[v].route
    BY DEF StepsTo
  <2>2. HoldInv
    BY DEF BaseInv, PlaceInv
  <2>3. QED
    BY <2>1, <2>2 DEF HoldInv
<1>3. QueueInv'
  BY DEF BaseInv, PlaceInv, QueueInv
<1>4. QED
  BY <1>1, <1>2, <1>3 DEF PlaceInv

LEMMA TypesSame ==
    ASSUME BaseInv, UNCHANGED <<works, believed, matrix, priced, running, changes>>,
           faults' \in 0..MaxFaults, code' \subseteq Code
    PROVE  EnvironmentTypes'
  BY DEF BaseInv, EnvironmentTypes

LEMMA OutputSame ==
    ASSUME BaseInv, UNCHANGED <<works, believed, matrix, pool, load, exec>>
    PROVE  OutputTypes' /\ NotedInv'
  BY DEF BaseInv, OutputTypes, NotedInv, LoadRecords

LEMMA BlankIsLoad == Blank \in LoadRecords /\ Blank.route = NoRoute /\ NoRoute \notin Routes
  BY SimulationAssumption DEF Blank, LoadRecords, NoRoute

\* The payload goes back: nobody else has it, and it is blank.
LEMMA Returned ==
    ASSUME BaseInv, NEW w \in Workers, worker[w].pc \in Holding, PutPayload(w),
           UNCHANGED <<works, believed, matrix>>
    PROVE  StepsTo(w, "idle", NoRoute, Nothing) /\ PlaceInv' /\ OutputTypes' /\ NotedInv'
<1> DEFINE p == worker[w].payload
<1>1. /\ pool' = pool \cup {p} /\ load' = [load EXCEPT ![p] = Blank] /\ exec' = exec
      /\ StepsTo(w, "idle", NoRoute, Nothing)
  BY ToIdle DEF PutPayload, BaseInv
<1>2. /\ p \in Payloads \ pool
      /\ \A v \in Workers \ {w} : worker[v].pc \in Holding => worker[v].payload # p
      /\ \A i \in 1..Len(exec) : exec[i] # p
  BY DEF BaseInv, PlaceInv, HoldInv
<1> HIDE DEF p
<1>3. /\ load \in [Payloads -> LoadRecords] /\ pool \subseteq Payloads
      /\ exec \in Seq(Payloads) /\ Len(exec) <= ExecCap
  BY DEF BaseInv, OutputTypes
<1>4. /\ load' \in [Payloads -> LoadRecords] /\ load'[p].route = NoRoute
      /\ \A q \in Payloads \ {p} : load'[q] = load[q]
  BY <1>1, <1>2, <1>3, BlankIsLoad
<1>5. OutputTypes'
  BY <1>1, <1>2, <1>3, <1>4 DEF OutputTypes, LoadRecords
<1>6. NotedInv'
  <2>1. works \subseteq Routes /\ believed \subseteq Routes /\ NotedInv
    BY DEF BaseInv, EnvironmentTypes
  <2>2. load'[p].route \notin works /\ load'[p].route \notin believed
    BY <1>4, <2>1, BlankIsLoad
  <2>3. QED
    BY <1>4, <2>1, <2>2 DEF NotedInv
<1>7. PlaceInv'
  <2>1. RouteInv'
    BY <1>1 DEF BaseInv, PlaceInv, RouteInv, StepsTo
  <2>2. \A v \in Workers : worker'[v].pc \in Holding => v # w /\ worker'[v] = worker[v]
    BY <1>1 DEF StepsTo, Holding
  <2>3. HoldInv
    BY DEF BaseInv, PlaceInv
  <2>4. HoldInv'
    <3> SUFFICES ASSUME NEW x \in Workers, worker'[x].pc \in Holding
                 PROVE  /\ worker'[x].payload \in Payloads \ pool'
                        /\ load'[worker'[x].payload].route = worker'[x].route
                        /\ \A v \in Workers \ {x} :
                              worker'[v].pc \in Holding => worker'[v].payload # worker'[x].payload
                        /\ \A i \in 1..Len(exec) : exec[i] # worker'[x].payload
      BY <1>1 DEF HoldInv
    <3>1. /\ x # w /\ worker'[x] = worker[x] /\ worker[x].pc \in Holding
          /\ worker[x].payload # p /\ worker[x].payload \in Payloads \ pool
          /\ load[worker[x].payload].route = worker[x].route
      BY <1>2, <2>2, <2>3 DEF HoldInv
    <3>2. load'[worker[x].payload] = load[worker[x].payload]
      BY <1>4, <3>1
    <3>3. QED
      BY <1>1, <2>2, <2>3, <3>1, <3>2 DEF HoldInv
  <2>5. QueueInv'
    BY <1>1, <1>2 DEF BaseInv, PlaceInv, QueueInv
  <2>6. QED
    BY <2>1, <2>4, <2>5 DEF PlaceInv
<1>8. QED
  BY <1>1, <1>5, <1>6, <1>7

\* What the environment changes is noted.
LEMMA NoteKeeps ==
    ASSUME BaseInv, NEW ws \in SUBSET Routes, NEW bs \in SUBSET Routes, NEW in, Note(ws, bs, in),
           UNCHANGED <<pool, exec, worker>>
    PROVE  /\ OutputTypes' /\ PlaceInv'
           /\ \A p \in Payloads : /\ load'[p].route = load[p].route /\ load[p].seen \subseteq load'[p].seen
                                  /\ load[p].hollow => load'[p].hollow
                                  /\ load[p].route \in ws
                                        \/ (load[p].route \in bs /\ load[p].route.pools \subseteq in) =>
                                     load[p].route \in load'[p].seen
<1> DEFINE Noted(p) == load[p].route \in ws \/ (load[p].route \in bs /\ load[p].route.pools \subseteq in)
<1>1. load \in [Payloads -> LoadRecords]
  BY DEF BaseInv, OutputTypes
<1>2. load' = [p \in Payloads |->
                 IF Noted(p) THEN [load[p] EXCEPT !.seen = @ \cup {load[p].route}] ELSE load[p]]
  BY DEF Note
<1>3. ASSUME NEW p \in Payloads
      PROVE  /\ load'[p] \in LoadRecords
             /\ load'[p].route = load[p].route /\ load[p].seen \subseteq load'[p].seen
             /\ load[p].hollow => load'[p].hollow
             /\ Noted(p) => load[p].route \in load'[p].seen
  <2>1. CASE Noted(p)
    <3>1. load'[p] = [load[p] EXCEPT !.seen = @ \cup {load[p].route}]
      BY <1>2, <2>1
    <3>2. load[p] \in LoadRecords /\ load[p].route \in Routes
      BY <1>1, <2>1
    <3> HIDE DEF Noted
    <3>3. QED
      BY <3>1, <3>2 DEF LoadRecords
  <2>2. CASE ~ Noted(p)
    <3>1. load'[p] = load[p]
      BY <1>2, <2>2
    <3> HIDE DEF Noted
    <3>2. QED
      BY <1>1, <2>2, <3>1
  <2>3. QED
    BY <2>1, <2>2
<1>4. load' \in [Payloads -> LoadRecords]
  <2>1. DOMAIN load' = Payloads /\ load' = [p \in Payloads |-> load'[p]]
    BY <1>2
  <2> HIDE DEF Noted
  <2>2. QED
    BY <1>3, <2>1
<1>5. OutputTypes'
  BY <1>4 DEF BaseInv, OutputTypes, LoadRecords
<1>6. PlaceInv'
  <2> HIDE DEF Noted
  <2>1. RouteInv' /\ QueueInv'
    BY DEF BaseInv, PlaceInv, RouteInv, QueueInv
  <2>2. HoldInv'
    BY <1>3 DEF BaseInv, PlaceInv, HoldInv
  <2>3. QED
    BY <2>1, <2>2 DEF PlaceInv
<1>7. QED
  BY <1>3, <1>5, <1>6
-----------------------------------------------------------------------------
(* The actions, grouped by what they change. *)

\* Nobody's record changes.
LEMMA WorkersSame ==
    ASSUME BaseInv, UNCHANGED <<worker, slots>>
    PROVE  SlotInv' /\ WorkerTypes'
<1>1. SlotInv'
  BY DEF BaseInv, SlotInv, Calling
<1>2. WorkerTypes'
  BY DEF BaseInv, WorkerTypes, WorkerRecords
<1>3. QED
  BY <1>1, <1>2

LEMMA PlacesKept ==
    ASSUME BaseInv, UNCHANGED <<worker, pool, load, exec>>
    PROVE  PlaceInv'
<1>1. RouteInv' /\ QueueInv'
  BY DEF BaseInv, PlaceInv, RouteInv, QueueInv
<1>2. HoldInv'
  BY DEF BaseInv, PlaceInv, HoldInv
<1>3. QED
  BY <1>1, <1>2 DEF PlaceInv

LEMMA BansKept ==
    ASSUME BaseInv, UNCHANGED <<worker, banned>>
    PROVE  BanInv'
  BY DEF BaseInv, BanInv, banned, Tokens

LEMMA NotingKeeps ==
    ASSUME BaseInv, works' \subseteq Routes, believed' \subseteq Routes, matrix' \subseteq Pools,
           changes' \in 0..MaxChanges, Note(works', believed', matrix'),
           UNCHANGED <<priced, running, faults, code, banned, candidates, worker, slots, pool, exec>>
    PROVE  BaseInv'
<1>1. OutputTypes' /\ PlaceInv'
  BY NoteKeeps
<1>2. NotedInv'
  <2>1. \A p \in Payloads :
          /\ load'[p].route = load[p].route
          /\ load[p].route \in works' \/ (load[p].route \in believed' /\ load[p].route.pools \subseteq matrix') =>
                load[p].route \in load'[p].seen
    BY NoteKeeps
  <2>2. QED
    BY <2>1 DEF NotedInv
<1>3. SlotInv' /\ WorkerTypes' /\ BanInv'
  BY WorkersSame, BansKept
<1>4. EnvironmentTypes' /\ CandidateTypes'
  BY DEF BaseInv, EnvironmentTypes, CandidateTypes, Code, Pools
<1>5. QED
  BY <1>1, <1>2, <1>3, <1>4 DEF BaseInv

LEMMA EnvironmentKeeps ==
    ASSUME BaseInv, (\E r \in Routes : ChainMoves(r)) \/ MatrixFollows \/ MatrixChanges \/ SettingChanges
                    \/ (\E a \in Code : WarmUpAddress(a))
    PROVE  BaseInv'
<1>0. /\ works \subseteq Routes /\ believed \subseteq Routes /\ matrix \subseteq Pools
      /\ changes \in 0..MaxChanges
  BY DEF BaseInv, EnvironmentTypes
<1>c. Change => changes' \in 0..MaxChanges
  BY <1>0, SimulationAssumption DEF Change
<1>1. ASSUME NEW r \in Routes, ChainMoves(r)
      PROVE  BaseInv'
  <2>1. works' \subseteq Routes /\ believed' = believed /\ matrix' = matrix
    BY <1>0, <1>1 DEF ChainMoves
  <2>2. Note(works', believed', matrix') /\ changes' \in 0..MaxChanges
    BY <1>c, <1>1, <2>1 DEF ChainMoves
  <2>3. UNCHANGED <<priced, running, faults, code, banned, candidates, worker, slots, pool, exec>>
    BY <1>1 DEF ChainMoves
  <2>4. QED
    BY <1>0, <2>1, <2>2, <2>3, NotingKeeps
<1>2. CASE MatrixFollows
  <2>1. works' = works /\ believed' = works /\ matrix' = matrix /\ changes' = changes
    BY <1>2 DEF MatrixFollows
  <2>2. Note(works', believed', matrix')
    BY <1>2, <2>1 DEF MatrixFollows
  <2>3. UNCHANGED <<priced, running, faults, code, banned, candidates, worker, slots, pool, exec>>
    BY <1>2 DEF MatrixFollows
  <2>4. QED
    BY <1>0, <2>1, <2>2, <2>3, NotingKeeps
<1>3. CASE MatrixChanges
  <2>1. works' = works /\ believed' = believed /\ matrix' \subseteq Pools
    BY <1>3 DEF MatrixChanges
  <2>2. Note(works', believed', matrix') /\ changes' \in 0..MaxChanges
    BY <1>c, <1>3, <2>1 DEF MatrixChanges
  <2>3. UNCHANGED <<priced, running, faults, code, banned, candidates, worker, slots, pool, exec>>
    BY <1>3 DEF MatrixChanges
  <2>4. QED
    BY <1>0, <2>1, <2>2, <2>3, NotingKeeps
<1>4. CASE SettingChanges
  <2>1. /\ UNCHANGED <<works, believed, matrix, faults, code, candidates, worker, slots, pool, load, exec>>
        /\ UNCHANGED banned /\ changes' \in 0..MaxChanges
    BY <1>c, <1>4 DEF SettingChanges, output
  <2>2. priced' \in BOOLEAN /\ running' \in BOOLEAN
    BY <1>4 DEF SettingChanges, BaseInv, EnvironmentTypes
  <2>3. EnvironmentTypes' /\ CandidateTypes'
    BY <2>1, <2>2 DEF BaseInv, EnvironmentTypes, CandidateTypes
  <2>4. QED
    BY <2>1, <2>3, WorkersSame, PlacesKept, BansKept, OutputSame DEF BaseInv
<1>5. ASSUME NEW a \in Code, WarmUpAddress(a)
      PROVE  BaseInv'
  <2>1. /\ UNCHANGED <<works, believed, matrix, priced, running, changes, faults>>
        /\ UNCHANGED <<candidates, worker, slots, pool, load, exec>>
        /\ UNCHANGED banned /\ code' = code \cup {a}
    BY <1>5 DEF WarmUpAddress, environment, output
  <2>2. EnvironmentTypes' /\ CandidateTypes'
    BY <2>1 DEF BaseInv, EnvironmentTypes, CandidateTypes, Code, Pools
  <2>3. QED
    BY <2>1, <2>2, WorkersSame, PlacesKept, BansKept, OutputSame DEF BaseInv
<1>6. QED
  BY <1>1, <1>2, <1>3, <1>4, <1>5

\* What is forgotten stays guilty only while a worker is about to add it.
LEMMA BlacklistKeeps ==
    ASSUME BaseInv, (\E t \in Tokens : Expire(t)) \/ (\E r \in Routes : Offer(r))
    PROVE  BaseInv'
<1>1. ASSUME NEW t \in Tokens, Expire(t)
      PROVE  BaseInv'
  <2>1. /\ UNCHANGED <<works, believed, matrix, priced, running, changes, faults, code>>
        /\ UNCHANGED <<candidates, worker, slots, pool, load, exec, blacklist, guilty>>
        /\ expired' = expired \cup {t} /\ t \in blacklist
    BY <1>1 DEF Expire, environment, output
  <2>2. EnvironmentTypes' /\ CandidateTypes'
    BY <2>1 DEF BaseInv, EnvironmentTypes, CandidateTypes, Code, Pools
  <2>3. BanInv'
    BY <2>1 DEF BaseInv, BanInv, Tokens
  <2>4. QED
    BY <2>1, <2>2, <2>3, WorkersSame, PlacesKept, OutputSame DEF BaseInv
<1>2. ASSUME NEW r \in Routes, Offer(r)
      PROVE  BaseInv'
  <2>1. /\ UNCHANGED <<works, believed, matrix, priced, running, changes, faults, code>>
        /\ UNCHANGED <<worker, slots, pool, load, exec>>
        /\ blacklist' = blacklist \ (r.tokens \cap expired)
        /\ expired' = expired \ r.tokens
        /\ guilty' = guilty \ ((r.tokens \cap expired) \ Accused)
        /\ candidates' \in {candidates, Append(candidates, r)} /\ Len(candidates) < CandCap
    BY <1>2 DEF Offer, Forget, environment, output
  <2>2. CandidateTypes'
    <3>1. candidates \in Seq(Routes)
      BY DEF BaseInv, CandidateTypes
    <3>2. Append(candidates, r) \in Seq(Routes) /\ Len(Append(candidates, r)) = Len(candidates) + 1
      BY <3>1, AppendProperties
    <3>3. Len(candidates) \in Nat /\ CandCap \in Nat
      BY <3>1, LenProperties, SimulationAssumption
    <3>4. QED
      BY <2>1, <3>1, <3>2, <3>3 DEF CandidateTypes
  <2>3. EnvironmentTypes'
    BY <2>1 DEF BaseInv, EnvironmentTypes, Code, Pools
  <2>4. BanInv'
    <3>1. \A w \in Workers : worker[w].pc = "reverted" => worker[w].route.tokens \subseteq Accused
      BY DEF Accused
    <3>2. QED
      BY <2>1, <3>1 DEF BaseInv, BanInv, Tokens
  <2>5. QED
    BY <2>1, <2>2, <2>3, <2>4, WorkersSame, PlacesKept, OutputSame DEF BaseInv
<1>3. QED
  BY <1>1, <1>2

\* A worker with nothing in its hands takes the next candidate, or lets it go.
LEMMA IdleKeeps ==
    ASSUME BaseInv, NEW w \in Workers, Take(w) \/ Resume(w) \/ Drop(w)
    PROVE  BaseInv'
<1>1. /\ UNCHANGED <<works, believed, matrix, priced, running, changes, code>>
      /\ UNCHANGED <<slots, pool, load, exec>> /\ UNCHANGED banned
  BY DEF Take, Resume, Drop, environment, output
<1>2. faults' \in 0..MaxFaults
  <2>1. faults \in 0..MaxFaults
    BY DEF BaseInv, EnvironmentTypes
  <2>2. faults' = faults \/ (faults < MaxFaults /\ faults' = faults + 1)
    BY DEF Take, Resume, Drop
  <2>3. QED
    BY <2>1, <2>2, SimulationAssumption
<1>3. EnvironmentTypes'
  BY <1>1, <1>2 DEF BaseInv, EnvironmentTypes, Code, Pools
<1>4. CASE Resume(w) \/ Drop(w)
  <2>1. StepsTo(w, "idle", NoRoute, Nothing) /\ worker[w].pc \in {"paused", "vet"} /\ candidates' = candidates
    BY <1>4, ToIdle DEF Resume, Drop, BaseInv
  <2>2. CandidateTypes' /\ WorkerTypes'
    BY <2>1 DEF BaseInv, CandidateTypes, StepsTo, WorkerTypes, WorkerRecords
  <2>3. SlotInv'
    BY <1>1, <2>1, SlotSame
  <2>4. BanInv'
    BY <1>1, <2>1, BanSame
  <2>5. PlaceInv'
    BY <1>1, <2>1, PlacesSame DEF Holding
  <2>6. QED
    BY <1>1, <1>3, <2>2, <2>3, <2>4, <2>5, OutputSame DEF BaseInv
<1>5. CASE Take(w)
  <2> DEFINE pc == IF running THEN "vet" ELSE "paused"
  <2>1. /\ worker[w].pc = "idle" /\ candidates # <<>> /\ candidates' = Tail(candidates)
        /\ worker' = [worker EXCEPT ![w] = [IdleWorker EXCEPT !.pc = pc, !.route = Head(candidates)]]
    BY <1>5 DEF Take
  <2>2. pc \in {"vet", "paused"}
    OBVIOUS
  <2> HIDE DEF pc
  <2>3. candidates \in Seq(Routes) /\ Len(candidates) <= CandCap
    BY DEF BaseInv, CandidateTypes
  <2>4. Head(candidates) \in Routes /\ Tail(candidates) \in Seq(Routes)
        /\ Len(Tail(candidates)) = Len(candidates) - 1
    BY <2>1, <2>3, HeadTailProperties
  <2>5. CandidateTypes'
    <3>1. Len(candidates) \in Nat /\ CandCap \in Nat
      BY <2>3, LenProperties, SimulationAssumption
    <3>2. QED
      BY <2>1, <2>3, <2>4, <3>1 DEF CandidateTypes
  <2>6. StepsTo(w, pc, Head(candidates), Nothing)
    <3> DEFINE rec == [IdleWorker EXCEPT !.pc = pc, !.route = Head(candidates)]
    <3>1. IdleWorker \in WorkerRecords
      BY DEF IdleWorker, WorkerRecords, Pcs
    <3>2. /\ rec \in WorkerRecords
          /\ rec.pc = pc /\ rec.route = Head(candidates) /\ rec.payload = IdleWorker.payload
      BY <2>2, <2>4, <3>1 DEF WorkerRecords, Pcs
    <3>3. IdleWorker.payload = Nothing
      BY DEF IdleWorker
    <3>4. worker' = [worker EXCEPT ![w] = rec]
      BY <2>1
    <3> HIDE DEF rec
    <3>5. QED
      BY <3>2, <3>3, <3>4 DEF BaseInv, WorkerTypes, StepsTo
  <2>7. WorkerTypes'
    BY <2>6 DEF StepsTo, WorkerTypes, WorkerRecords
  <2>8. SlotInv' /\ BanInv'
    BY <1>1, <2>1, <2>2, <2>6, SlotSame, BanSame
  <2>9. PlaceInv'
    BY <1>1, <2>1, <2>2, <2>4, <2>6, PlacesSame DEF Holding
  <2>10. QED
    BY <1>1, <1>3, <2>5, <2>7, <2>8, <2>9, OutputSame DEF BaseInv
<1>6. QED
  BY <1>4, <1>5

\* The payload that is filled was in the pool, so nobody has it.
LEMMA FillKeeps ==
    ASSUME BaseInv, NEW w \in Workers, Fill(w)
    PROVE  BaseInv'
<1> DEFINE r == worker[w].route
           seen == IF r \in works \/ (r \in believed /\ r.pools \subseteq matrix) THEN {r} ELSE {}
<1>1. PICK p \in pool :
        /\ pool' = pool \ {p}
        /\ load' = [load EXCEPT ![p] = [route |-> r, hollow |-> FALSE, seen |-> seen]]
        /\ worker' = [worker EXCEPT ![w].pc = "choose", ![w].payload = p]
  BY DEF Fill
<1>2. /\ UNCHANGED <<works, believed, matrix, priced, running, changes, faults, code>>
      /\ UNCHANGED <<candidates, slots, exec>> /\ UNCHANGED banned /\ worker[w].pc = "vet"
  BY DEF Fill, environment
<1>3. r \in Routes
  BY <1>2 DEF BaseInv, PlaceInv, RouteInv
<1>4. seen \in SUBSET Routes
  BY <1>3
<1>5. r \in works \/ (r \in believed /\ r.pools \subseteq matrix) => r \in seen
  OBVIOUS
<1> HIDE DEF seen
<1>6. p \in Payloads /\ load \in [Payloads -> LoadRecords] /\ pool \subseteq Payloads
  BY <1>1 DEF BaseInv, OutputTypes
<1>7. StepsTo(w, "choose", r, p)
  BY <1>1, <1>6 DEF BaseInv, WorkerTypes, WorkerRecords, Pcs, StepsTo
<1> HIDE DEF r
<1>8. /\ load' \in [Payloads -> LoadRecords] /\ load'[p].route = r /\ load'[p].seen = seen
      /\ \A q \in Payloads \ {p} : load'[q] = load[q]
  BY <1>1, <1>3, <1>4, <1>6 DEF LoadRecords
<1>9. EnvironmentTypes' /\ CandidateTypes' /\ WorkerTypes'
  BY <1>2, <1>7 DEF BaseInv, EnvironmentTypes, CandidateTypes, Code, Pools, StepsTo, WorkerTypes, WorkerRecords
<1>10. OutputTypes'
  BY <1>1, <1>2, <1>8 DEF BaseInv, OutputTypes, LoadRecords
<1>11. SlotInv' /\ BanInv'
  BY <1>2, <1>7, SlotSame, BanSame
<1>12. NotedInv'
  BY <1>2, <1>3, <1>5, <1>8 DEF r, BaseInv, NotedInv
<1>13. PlaceInv'
  <2>1. RouteInv'
    BY <1>3, <1>7 DEF BaseInv, PlaceInv, RouteInv, StepsTo
  <2>2. QueueInv'
    BY <1>1, <1>2 DEF BaseInv, PlaceInv, QueueInv
  <2>3. HoldInv /\ QueueInv
    BY DEF BaseInv, PlaceInv
  <2>4. \A v \in Workers \ {w} : worker'[v] = worker[v] /\ (worker[v].pc \in Holding =>
            worker[v].payload \in Payloads \ pool /\ worker[v].payload # p)
    BY <1>1, <1>7, <2>3 DEF HoldInv, StepsTo
  <2>5. HoldInv'
    <3> SUFFICES ASSUME NEW x \in Workers, worker'[x].pc \in Holding
                 PROVE  /\ worker'[x].payload \in Payloads \ pool'
                        /\ load'[worker'[x].payload].route = worker'[x].route
                        /\ \A v \in Workers \ {x} :
                              worker'[v].pc \in Holding => worker'[v].payload # worker'[x].payload
                        /\ \A i \in 1..Len(exec) : exec[i] # worker'[x].payload
      BY <1>2 DEF HoldInv
    <3>1. CASE x = w
      <4>1. worker'[w].payload = p /\ worker'[w].route = r
        BY <1>7 DEF StepsTo
      <4>2. \A i \in 1..Len(exec) : exec[i] # p
        BY <1>1, <2>3 DEF QueueInv
      <4>3. \A v \in Workers \ {w} : worker'[v].pc \in Holding => worker'[v].payload # p
        BY <2>4
      <4>4. p \in Payloads \ pool' /\ load'[p].route = r
        BY <1>1, <1>6, <1>8
      <4>5. QED
        BY <3>1, <4>1, <4>2, <4>3, <4>4
    <3>2. CASE x # w
      <4>1. worker'[x] = worker[x] /\ worker[x].payload # p /\ worker[x].payload \in Payloads \ pool
        BY <2>4, <3>2
      <4>2. load'[worker[x].payload].route = worker[x].route
        BY <1>8, <2>3, <4>1 DEF HoldInv
      <4>3. worker'[w].payload = p
        BY <1>7 DEF StepsTo
      <4>4. \A v \in Workers \ {x} : worker'[v].pc \in Holding => worker'[v].payload # worker[x].payload
        BY <2>3, <2>4, <4>1, <4>3 DEF HoldInv
      <4>5. \A i \in 1..Len(exec) : exec[i] # worker[x].payload
        BY <2>3, <4>1 DEF HoldInv
      <4>6. worker[x].payload \in Payloads \ pool'
        BY <1>1, <4>1
      <4>7. QED
        BY <4>1, <4>2, <4>4, <4>5, <4>6
    <3>3. QED
      BY <3>1, <3>2
  <2>6. QED
    BY <2>1, <2>2, <2>5 DEF PlaceInv
<1>14. QED
  BY <1>9, <1>10, <1>11, <1>12, <1>13 DEF BaseInv

\* Steps on the way to an answer, and answers other than a revert or none.
LEMMA OnwardKeeps ==
    ASSUME BaseInv, NEW w \in Workers,
           ChooseBackend(w) \/ SimulateNative(w) \/ AcquireSlot(w) \/ CallPasses(w)
    PROVE  BaseInv'
<1>1. /\ UNCHANGED <<works, believed, matrix, priced, running, changes, faults, code>>
      /\ UNCHANGED <<candidates, pool, load, exec>> /\ UNCHANGED banned
  BY DEF ChooseBackend, SimulateNative, AcquireSlot, CallPasses, environment, output
<1>2. worker[w].pc \in {"choose", "local", "remote", "call"}
  BY DEF ChooseBackend, SimulateNative, AcquireSlot, CallPasses
<1>3. ASSUME NEW pc \in {"local", "remote", "call", "passed"}, StepsTo(w, pc, worker[w].route, worker[w].payload),
             SlotInv'
      PROVE  BaseInv'
  <2>1. PlaceInv'
    <3>1. worker[w].route \in Routes
      BY <1>2 DEF BaseInv, PlaceInv, RouteInv
    <3>2. QED
      BY <1>1, <1>2, <1>3, <3>1, PlacesSame DEF Holding
  <2>2. BanInv'
    BY <1>1, <1>3, BanSame
  <2>3. EnvironmentTypes' /\ CandidateTypes' /\ WorkerTypes'
    BY <1>1, <1>3 DEF BaseInv, EnvironmentTypes, CandidateTypes, Code, Pools, StepsTo, WorkerTypes, WorkerRecords
  <2>4. QED
    BY <1>1, <1>3, <2>1, <2>2, <2>3, OutputSame DEF BaseInv
<1>4. WorkerTypes
  BY DEF BaseInv
<1>5. CASE ChooseBackend(w)
  <2>1. PICK pc \in {"local", "remote"} : worker' = [worker EXCEPT ![w].pc = pc]
    BY <1>5 DEF ChooseBackend, Goto
  <2>2. StepsTo(w, pc, worker[w].route, worker[w].payload) /\ worker[w].pc = "choose" /\ slots' = slots
    BY <1>4, <1>5, <2>1, PcOnly DEF ChooseBackend, Pcs
  <2>3. SlotInv'
    BY <2>2, SlotSame
  <2>4. QED
    BY <1>3, <2>2, <2>3
<1>6. CASE SimulateNative(w)
  <2>1. PICK pc \in {"passed", "remote"}, gas \in {0, LocalGas} :
          worker' = [worker EXCEPT ![w].pc = pc, ![w].gas = gas]
    <3> DEFINE ok == Executor \in code => (Injected(worker[w].route) /\ worker[w].route \in believed)
               pc == IF ok THEN "passed" ELSE "remote"
               gas == IF Executor \in code THEN LocalGas ELSE 0
    <3>1. worker' = [worker EXCEPT ![w].pc = pc, ![w].gas = gas]
      BY <1>6 DEF SimulateNative
    <3>2. pc \in {"passed", "remote"} /\ gas \in {0, LocalGas}
      OBVIOUS
    <3> HIDE DEF pc, gas
    <3>3. QED
      BY <3>1, <3>2
  <2>2. StepsTo(w, pc, worker[w].route, worker[w].payload) /\ worker[w].pc = "local" /\ slots' = slots
    BY <1>4, <1>6, <2>1, PcAndGas DEF SimulateNative, Pcs
  <2>3. SlotInv'
    BY <2>2, SlotSame
  <2>4. QED
    BY <1>3, <2>2, <2>3
<1>7. CASE AcquireSlot(w)
  <2>1. worker' = [worker EXCEPT ![w].pc = "call"] /\ worker[w].pc = "remote" /\ slots < SemCap /\ slots' = slots + 1
    BY <1>7 DEF AcquireSlot, Goto
  <2>2. StepsTo(w, "call", worker[w].route, worker[w].payload)
    BY <1>4, <2>1, PcOnly DEF Pcs
  <2>3. SlotInv'
    BY <2>1, <2>2, SlotTaken
  <2>4. QED
    BY <1>3, <2>2, <2>3
<1>8. CASE CallPasses(w)
  <2>1. /\ worker' = [worker EXCEPT ![w].pc = "passed", ![w].gas = RemoteGas]
        /\ worker[w].pc = "call" /\ slots' = slots - 1
    BY <1>8 DEF CallPasses
  <2>2. StepsTo(w, "passed", worker[w].route, worker[w].payload)
    BY <1>4, <2>1, PcAndGas DEF Pcs
  <2>3. SlotInv'
    BY <2>1, <2>2, SlotFreed
  <2>4. QED
    BY <1>3, <2>2, <2>3
<1>9. QED
  BY <1>5, <1>6, <1>7, <1>8

\* A hollow answer marks the payload in the worker's hands.
LEMMA HollowStep ==
    ASSUME BaseInv, NEW w \in Workers, HollowAnswer(w)
    PROVE  /\ StepsTo(w, "passed", worker[w].route, worker[w].payload)
           /\ worker[w].pc = "call" /\ worker[w].payload \in Payloads
           /\ load' \in [Payloads -> LoadRecords] /\ load'[worker[w].payload].hollow
           /\ \A p \in Payloads :
                 /\ load'[p].route = load[p].route /\ load'[p].seen = load[p].seen
                 /\ load[p].hollow => load'[p].hollow
<1> DEFINE q == worker[w].payload
<1>1. /\ worker' = [worker EXCEPT ![w].pc = "passed", ![w].gas = RemoteGas] /\ worker[w].pc = "call"
      /\ load' = [load EXCEPT ![q].hollow = TRUE]
  BY DEF HollowAnswer
<1>2. StepsTo(w, "passed", worker[w].route, worker[w].payload)
  BY <1>1, PcAndGas DEF Pcs, BaseInv
<1>3. q \in Payloads
  BY <1>1 DEF BaseInv, PlaceInv, HoldInv, Holding
<1> HIDE DEF q
<1>4. load \in [Payloads -> LoadRecords]
  BY DEF BaseInv, OutputTypes
<1>5. load' \in [Payloads -> LoadRecords] /\ load'[q].hollow
  BY <1>1, <1>3, <1>4 DEF LoadRecords
<1>6. ASSUME NEW p \in Payloads
      PROVE  /\ load'[p].route = load[p].route /\ load'[p].seen = load[p].seen
             /\ load[p].hollow => load'[p].hollow
  <2>1. CASE p = q
    BY <1>1, <1>3, <1>4, <1>5, <2>1 DEF LoadRecords
  <2>2. CASE p # q
    BY <1>1, <1>3, <1>4, <2>2
  <2>3. QED
    BY <2>1, <2>2
<1>7. QED
  BY <1>1, <1>2, <1>3, <1>5, <1>6 DEF q

LEMMA HollowKeeps ==
    ASSUME BaseInv, NEW w \in Workers, HollowAnswer(w)
    PROVE  BaseInv'
<1>1. /\ UNCHANGED <<works, believed, matrix, priced, running, changes, code>>
      /\ UNCHANGED <<candidates, pool, exec>> /\ UNCHANGED banned
      /\ slots' = slots - 1 /\ faults < MaxFaults /\ faults' = faults + 1
  BY DEF HollowAnswer, environment
<1>2. /\ StepsTo(w, "passed", worker[w].route, worker[w].payload) /\ worker[w].pc = "call"
      /\ load' \in [Payloads -> LoadRecords]
      /\ \A p \in Payloads : load'[p].route = load[p].route /\ load'[p].seen = load[p].seen
  BY HollowStep
<1>3. SlotInv'
  BY <1>1, <1>2, SlotFreed
<1>4. PlaceInv'
  <2>1. RouteInv'
    BY <1>2 DEF BaseInv, PlaceInv, RouteInv, StepsTo
  <2>2. HoldInv'
    <3> SUFFICES ASSUME NEW x \in Workers, worker'[x].pc \in Holding
                 PROVE  /\ worker'[x].payload \in Payloads \ pool
                        /\ load'[worker'[x].payload].route = worker'[x].route
                        /\ \A v \in Workers \ {x} :
                              worker'[v].pc \in Holding => worker'[v].payload # worker'[x].payload
                        /\ \A i \in 1..Len(exec) : exec[i] # worker'[x].payload
      BY <1>1 DEF HoldInv
    <3>1. \A v \in Workers :
            /\ worker'[v].payload = worker[v].payload /\ worker'[v].route = worker[v].route
            /\ worker'[v].pc \in Holding => worker[v].pc \in Holding
      BY <1>2 DEF StepsTo, Holding
    <3>2. QED
      BY <1>2, <3>1 DEF BaseInv, PlaceInv, HoldInv
  <2>3. QueueInv'
    BY <1>1 DEF BaseInv, PlaceInv, QueueInv
  <2>4. QED
    BY <2>1, <2>2, <2>3 DEF PlaceInv
<1>5. BanInv'
  BY <1>1, <1>2, BanSame
<1>6. faults' \in 0..MaxFaults
  BY <1>1, SimulationAssumption DEF BaseInv, EnvironmentTypes
<1>7. EnvironmentTypes' /\ CandidateTypes' /\ WorkerTypes'
  BY <1>1, <1>2, <1>6 DEF BaseInv, EnvironmentTypes, CandidateTypes, Code, Pools, StepsTo, WorkerTypes, WorkerRecords
<1>8. OutputTypes' /\ NotedInv'
  BY <1>1, <1>2 DEF BaseInv, OutputTypes, NotedInv, LoadRecords
<1>9. QED
  BY <1>3, <1>4, <1>5, <1>7, <1>8 DEF BaseInv

\* A revert makes the tokens of the route guilty; they are added afterwards.
LEMMA RevertKeeps ==
    ASSUME BaseInv, NEW w \in Workers, CallReverts(w)
    PROVE  BaseInv'
<1>1. /\ UNCHANGED <<works, believed, matrix, priced, running, changes, faults, code>>
      /\ UNCHANGED <<candidates, pool, load, exec, blacklist, expired>>
      /\ guilty' = guilty \cup worker[w].route.tokens
      /\ worker' = [worker EXCEPT ![w].pc = "reverted"]
      /\ worker[w].pc = "call" /\ slots' = slots - 1
  BY DEF CallReverts, Goto, environment, output
<1>2. StepsTo(w, "reverted", worker[w].route, worker[w].payload)
  BY <1>1, PcOnly DEF Pcs, BaseInv
<1>3. SlotInv'
  BY <1>1, <1>2, SlotFreed
<1>4. PlaceInv'
  <2>1. worker[w].route \in Routes
    BY <1>1 DEF BaseInv, PlaceInv, RouteInv
  <2>2. QED
    BY <1>1, <1>2, <2>1, PlacesSame DEF Holding
<1>5. BanInv'
  BY <1>1, <1>2 DEF BaseInv, BanInv, StepsTo, Tokens
<1>6. EnvironmentTypes' /\ CandidateTypes' /\ WorkerTypes'
  BY <1>1, <1>2 DEF BaseInv, EnvironmentTypes, CandidateTypes, Code, Pools, StepsTo, WorkerTypes, WorkerRecords
<1>7. QED
  BY <1>1, <1>3, <1>4, <1>5, <1>6, OutputSame DEF BaseInv

\* The exits that give the payload back.
LEMMA ExitKeeps ==
    ASSUME BaseInv, NEW w \in Workers,
           \/ SlotTimeout(w) \/ CustomError(w) \/ CallFails(w) \/ Reverted(w) \/ TooPoor(w)
           \/ Send(w) /\ PutPayload(w)
    PROVE  BaseInv'
<1>1. /\ UNCHANGED <<works, believed, matrix, priced, running, changes, code>>
      /\ UNCHANGED <<candidates, guilty>> /\ PutPayload(w)
  BY DEF SlotTimeout, CustomError, CallFails, Reverted, TooPoor, Send, environment, banned
<1>2. worker[w].pc \in {"remote", "call", "reverted", "passed"}
  BY DEF SlotTimeout, CustomError, CallFails, Reverted, TooPoor, Send
<1>3. StepsTo(w, "idle", NoRoute, Nothing) /\ PlaceInv' /\ OutputTypes' /\ NotedInv'
  BY <1>1, <1>2, Returned DEF Holding
<1>4. faults' \in 0..MaxFaults
  <2>1. faults \in 0..MaxFaults
    BY DEF BaseInv, EnvironmentTypes
  <2>2. faults' = faults \/ (faults < MaxFaults /\ faults' = faults + 1)
    BY DEF SlotTimeout, CustomError, CallFails, Reverted, TooPoor, Send
  <2>3. QED
    BY <2>1, <2>2, SimulationAssumption
<1>5. EnvironmentTypes' /\ CandidateTypes' /\ WorkerTypes'
  BY <1>1, <1>3, <1>4 DEF BaseInv, EnvironmentTypes, CandidateTypes, Code, Pools, StepsTo, WorkerTypes, WorkerRecords
<1>6. SlotInv'
  <2>1. CASE CallFails(w) \/ CustomError(w)
    BY <1>3, <2>1, SlotFreed DEF CallFails, CustomError
  <2>2. CASE ~ (CallFails(w) \/ CustomError(w))
    <3>1. worker[w].pc # "call" /\ slots' = slots
      BY <2>2 DEF SlotTimeout, Reverted, TooPoor, Send
    <3>2. QED
      BY <1>3, <3>1, SlotSame
  <2>3. QED
    BY <2>1, <2>2
<1>7. BanInv'
  <2>1. CASE Reverted(w)
    <3>1. /\ blacklist' = blacklist \cup (worker[w].route.tokens \ Anchors)
          /\ expired' = expired \ worker[w].route.tokens
          /\ worker[w].pc = "reverted"
      BY <2>1 DEF Reverted, Add
    <3>2. worker[w].route \in Routes
      BY <3>1 DEF BaseInv, PlaceInv, RouteInv
    <3>3. worker[w].route.tokens \subseteq Tokens
      BY <3>2 DEF Tokens
    <3>4. \A v \in Workers : worker'[v].pc = "reverted" => worker'[v] = worker[v]
      BY <1>3 DEF StepsTo
    <3>5. QED
      BY <1>1, <3>1, <3>3, <3>4 DEF BaseInv, BanInv, Tokens
  <2>2. CASE ~ Reverted(w)
    <3>1. UNCHANGED banned
      BY <2>2 DEF SlotTimeout, CustomError, CallFails, TooPoor, Send, banned
    <3>2. QED
      BY <1>3, <3>1, BanSame
  <2>3. QED
    BY <2>1, <2>2
<1>8. QED
  BY <1>3, <1>5, <1>6, <1>7 DEF BaseInv

\* The payload leaves the worker's hands for the end of the channel.
LEMMA SendKeeps ==
    ASSUME BaseInv, NEW w \in Workers, Send(w), Len(exec) < ExecCap
    PROVE  BaseInv'
<1> DEFINE p == worker[w].payload
<1>1. /\ UNCHANGED <<works, believed, matrix, priced, running, changes, faults, code>>
      /\ UNCHANGED <<candidates, slots, pool, load>> /\ UNCHANGED banned
      /\ worker[w].pc = "passed" /\ exec' = Append(exec, p)
      /\ worker' = [worker EXCEPT ![w] = IdleWorker]
  BY DEF Send, environment
<1>2. StepsTo(w, "idle", NoRoute, Nothing)
  BY <1>1, ToIdle DEF BaseInv
<1>3. /\ p \in Payloads \ pool /\ \A i \in 1..Len(exec) : exec[i] # p
      /\ \A v \in Workers \ {w} : worker[v].pc \in Holding => worker[v].payload # p
  BY <1>1 DEF BaseInv, PlaceInv, HoldInv, Holding
<1> HIDE DEF p
<1>4. exec \in Seq(Payloads) /\ Len(exec) \in Nat
  BY LenProperties DEF BaseInv, OutputTypes
<1>5. /\ exec' \in Seq(Payloads) /\ Len(exec') = Len(exec) + 1 /\ exec'[Len(exec) + 1] = p
      /\ \A i \in 1..Len(exec) : exec'[i] = exec[i]
  BY <1>1, <1>3, <1>4, AppendProperties
<1>6. \A i \in 1..Len(exec') : i \in 1..Len(exec) \/ (i = Len(exec) + 1 /\ exec'[i] = p)
  BY <1>4, <1>5
<1>7. EnvironmentTypes' /\ CandidateTypes' /\ WorkerTypes'
  BY <1>1, <1>2 DEF BaseInv, EnvironmentTypes, CandidateTypes, Code, Pools, StepsTo, WorkerTypes, WorkerRecords
<1>8. OutputTypes' /\ NotedInv'
  <2>1. Len(exec') <= ExecCap
    BY <1>4, <1>5, SimulationAssumption
  <2>2. QED
    BY <1>1, <1>5, <2>1 DEF BaseInv, OutputTypes, NotedInv, LoadRecords
<1>9. SlotInv' /\ BanInv'
  BY <1>1, <1>2, SlotSame, BanSame
<1>10. PlaceInv'
  <2>1. RouteInv'
    BY <1>2 DEF BaseInv, PlaceInv, RouteInv, StepsTo
  <2>2. HoldInv /\ QueueInv
    BY DEF BaseInv, PlaceInv
  <2>3. \A v \in Workers : worker'[v].pc \in Holding =>
            v # w /\ worker'[v] = worker[v] /\ worker[v].payload # p
    BY <1>2, <1>3 DEF StepsTo, Holding
  <2>4. HoldInv'
    <3> SUFFICES ASSUME NEW x \in Workers, worker'[x].pc \in Holding
                 PROVE  /\ worker'[x].payload \in Payloads \ pool
                        /\ load[worker'[x].payload].route = worker'[x].route
                        /\ \A v \in Workers \ {x} :
                              worker'[v].pc \in Holding => worker'[v].payload # worker'[x].payload
                        /\ \A i \in 1..Len(exec') : exec'[i] # worker'[x].payload
      BY <1>1 DEF HoldInv
    <3>1. worker'[x] = worker[x] /\ worker[x].pc \in Holding /\ worker[x].payload # p
      BY <2>3
    <3>2. \A i \in 1..Len(exec') : exec'[i] # worker[x].payload
      BY <1>5, <1>6, <2>2, <3>1 DEF HoldInv
    <3>3. QED
      BY <2>2, <2>3, <3>1, <3>2 DEF HoldInv
  <2>5. QueueInv'
    <3>1. \A i \in 1..Len(exec') : exec'[i] \notin pool
      BY <1>3, <1>5, <1>6, <2>2 DEF QueueInv
    <3>2. \A i, j \in 1..Len(exec') : exec'[i] = exec'[j] => i = j
      BY <1>3, <1>5, <1>6, <2>2 DEF QueueInv
    <3>3. QED
      BY <1>1, <3>1, <3>2 DEF QueueInv
  <2>6. QED
    BY <2>1, <2>4, <2>5 DEF PlaceInv
<1>11. QED
  BY <1>7, <1>8, <1>9, <1>10 DEF BaseInv

LEMMA ConsumeKeeps ==
    ASSUME BaseInv, Consume
    PROVE  BaseInv'
<1> DEFINE p == Head(exec)
<1>1. /\ UNCHANGED <<works, believed, matrix, priced, running, changes, faults, code>>
      /\ UNCHANGED <<candidates, worker, slots>> /\ UNCHANGED banned
      /\ exec # <<>> /\ exec' = Tail(exec) /\ pool' = pool \cup {p}
      /\ load' = [load EXCEPT ![p] = Blank]
  BY DEF Consume, environment
<1>2. /\ exec \in Seq(Payloads) /\ Len(exec) \in Nat /\ Len(exec) <= ExecCap
      /\ load \in [Payloads -> LoadRecords] /\ pool \subseteq Payloads
  BY LenProperties DEF BaseInv, OutputTypes
<1>3. /\ p \in Payloads /\ p = exec[1] /\ 1 \in 1..Len(exec)
      /\ exec' \in Seq(Payloads) /\ Len(exec') = Len(exec) - 1
      /\ \A i \in 1..Len(exec') : exec'[i] = exec[i + 1] /\ i + 1 \in 1..Len(exec) /\ i + 1 # 1
  <2>1. Len(exec) > 0
    BY <1>1, <1>2, EmptySeq, LenProperties
  <2>2. /\ p \in Payloads /\ exec' \in Seq(Payloads) /\ Len(exec') = Len(exec) - 1
        /\ \A i \in 1..Len(exec') : exec'[i] = exec[i + 1]
    BY <1>1, <1>2, HeadTailProperties
  <2>3. p = exec[1]
    BY <1>2, <2>1
  <2>4. QED
    BY <1>2, <2>1, <2>2, <2>3
<1> HIDE DEF p
<1>4. HoldInv /\ QueueInv
  BY DEF BaseInv, PlaceInv
<1>5. /\ \A w \in Workers : worker[w].pc \in Holding => worker[w].payload # p
      /\ \A i \in 1..Len(exec') : exec'[i] # p /\ exec'[i] \notin pool
  BY <1>3, <1>4 DEF HoldInv, QueueInv
<1>6. /\ load' \in [Payloads -> LoadRecords] /\ load'[p].route = NoRoute
      /\ \A q \in Payloads \ {p} : load'[q] = load[q]
  BY <1>1, <1>2, <1>3, BlankIsLoad
<1>7. EnvironmentTypes' /\ CandidateTypes' /\ WorkerTypes' /\ SlotInv' /\ BanInv'
  BY <1>1, WorkersSame, BansKept DEF BaseInv, EnvironmentTypes, CandidateTypes, Code, Pools
<1>8. OutputTypes'
  <2>1. pool' \subseteq Payloads /\ Len(exec') <= ExecCap
    BY <1>1, <1>2, <1>3, SimulationAssumption
  <2>2. QED
    BY <1>3, <1>6, <2>1 DEF OutputTypes, LoadRecords
<1>9. NotedInv'
  <2>1. works \subseteq Routes /\ believed \subseteq Routes /\ NotedInv
    BY DEF BaseInv, EnvironmentTypes
  <2>2. load'[p].route \notin works /\ load'[p].route \notin believed
    BY <1>6, <2>1, BlankIsLoad
  <2>3. QED
    BY <1>1, <1>6, <2>1, <2>2 DEF NotedInv
<1>10. PlaceInv'
  <2>1. RouteInv'
    BY <1>1 DEF BaseInv, PlaceInv, RouteInv
  <2>2. HoldInv'
    <3> SUFFICES ASSUME NEW x \in Workers, worker[x].pc \in Holding
                 PROVE  /\ worker[x].payload \in Payloads \ pool'
                        /\ load'[worker[x].payload].route = worker[x].route
                        /\ \A v \in Workers \ {x} :
                              worker[v].pc \in Holding => worker[v].payload # worker[x].payload
                        /\ \A i \in 1..Len(exec') : exec'[i] # worker[x].payload
      BY <1>1 DEF HoldInv
    <3>1. worker[x].payload # p /\ worker[x].payload \in Payloads \ pool
      BY <1>4, <1>5 DEF HoldInv
    <3>2. worker[x].payload \in Payloads \ pool' /\ load'[worker[x].payload].route = worker[x].route
      BY <1>1, <1>4, <1>6, <3>1 DEF HoldInv
    <3>3. QED
      BY <1>3, <1>4, <3>2 DEF HoldInv
  <2>3. QueueInv'
    <3>1. \A i \in 1..Len(exec') : exec'[i] \notin pool'
      BY <1>1, <1>5
    <3>2. \A i, j \in 1..Len(exec') : exec'[i] = exec'[j] => i = j
      BY <1>3, <1>4 DEF QueueInv
    <3>3. QED
      BY <3>1, <3>2 DEF QueueInv
  <2>4. QED
    BY <2>1, <2>2, <2>3 DEF PlaceInv
<1>11. QED
  BY <1>7, <1>8, <1>9, <1>10 DEF BaseInv

LEMMA BaseInitially == Init => BaseInv
<1> SUFFICES ASSUME Init PROVE BaseInv
  OBVIOUS
<1>1. EnvironmentTypes
  <2>1. priced \in BOOLEAN /\ running \in BOOLEAN
    BY Zenon DEF Init
  <2>2. QED
    BY <2>1, SimulationAssumption DEF Init, EnvironmentTypes
<1>2. CandidateTypes
  BY SimulationAssumption DEF Init, CandidateTypes
<1>3. WorkerTypes /\ \A w \in Workers : worker[w].pc = "idle"
  BY DEF Init, WorkerTypes, WorkerRecords, IdleWorker, Pcs
<1>4. OutputTypes
  BY SimulationAssumption, BlankIsLoad DEF Init, OutputTypes
<1>5. SlotInv
  <2>1. Calling = {}
    BY <1>3 DEF Calling
  <2>2. QED
    BY <2>1, FS_EmptySet, SimulationAssumption DEF Init, SlotInv
<1>6. BanInv
  BY <1>3 DEF Init, BanInv
<1>7. PlaceInv
  <2>1. RouteInv /\ HoldInv
    BY <1>3 DEF RouteInv, HoldInv, Holding
  <2>2. QueueInv
    BY DEF Init, QueueInv
  <2>3. QED
    BY <2>1, <2>2 DEF PlaceInv
<1>8. NotedInv
  BY BlankIsLoad DEF Init, NotedInv
<1>9. QED
  BY <1>1, <1>2, <1>3, <1>4, <1>5, <1>6, <1>7, <1>8 DEF BaseInv

LEMMA BaseKept == BaseInv /\ [Next]_vars => BaseInv'
<1> SUFFICES ASSUME BaseInv, [Next]_vars PROVE BaseInv'
  OBVIOUS
<1>1. CASE UNCHANGED vars
  <2>1. /\ UNCHANGED <<works, believed, matrix, priced, running, changes, faults, code>>
        /\ UNCHANGED <<candidates, worker, slots, pool, load, exec>> /\ UNCHANGED banned
    BY <1>1 DEF vars, environment, output
  <2>2. EnvironmentTypes' /\ CandidateTypes'
    BY <2>1 DEF BaseInv, EnvironmentTypes, CandidateTypes, Code, Pools
  <2>3. QED
    BY <2>1, <2>2, WorkersSame, PlacesKept, BansKept, OutputSame DEF BaseInv
<1>2. CASE \/ \E r \in Routes : ChainMoves(r) \/ Offer(r)
           \/ MatrixFollows \/ MatrixChanges \/ SettingChanges
           \/ \E t \in Tokens : Expire(t)
           \/ \E a \in Code : WarmUpAddress(a)
  BY <1>2, EnvironmentKeeps, BlacklistKeeps
<1>3. ASSUME NEW w \in Workers, worker2(w)
      PROVE  BaseInv'
  <2>1. CASE Take(w) \/ Resume(w) \/ Drop(w)
    BY <2>1, IdleKeeps
  <2>2. CASE Fill(w)
    BY <2>2, FillKeeps
  <2>3. CASE ChooseBackend(w) \/ SimulateNative(w) \/ AcquireSlot(w) \/ CallPasses(w)
    BY <2>3, OnwardKeeps
  <2>4. CASE CallReverts(w)
    BY <2>4, RevertKeeps
  <2>5. CASE SlotTimeout(w) \/ CustomError(w) \/ CallFails(w) \/ Reverted(w) \/ TooPoor(w)
    BY <2>5, ExitKeeps
  <2>6. CASE Send(w)
    <3>1. CASE Len(exec) < ExecCap
      BY <2>6, <3>1, SendKeeps
    <3>2. CASE ~ (Len(exec) < ExecCap)
      BY <2>6, <3>2, ExitKeeps DEF Send
    <3>3. QED
      BY <3>1, <3>2
  <2>7. CASE HollowAnswer(w)
    BY <2>7, HollowKeeps
  <2>8. QED
    BY <1>3, <2>1, <2>2, <2>3, <2>4, <2>5, <2>6, <2>7 DEF worker2
<1>4. CASE Consume
  BY <1>4, ConsumeKeeps
<1>5. QED
  BY <1>1, <1>2, <1>3, <1>4 DEF Next

LEMMA BaseAlways == Spec => []BaseInv
  BY BaseInitially, BaseKept, PTL DEF Spec

\* Every variable keeps its type, and a place at the node is taken exactly while a
\* call is there, on every exit of the call (gevm_simulator.go:520-600).
THEOREM SimulationTyped == Spec => []TypeOK
<1>1. BaseInv => TypeOK
  BY DEF BaseInv, EnvironmentTypes, CandidateTypes, WorkerTypes, OutputTypes, SlotInv, Calling, BanInv, TypeOK
<1>2. QED
  BY <1>1, BaseAlways, PTL

\* However entries expire and start again while workers are about to add more, only
\* tokens of routes that reverted at the node are on the blacklist (blacklist.go:58-104).
THEOREM BansAreEarned == Spec => []BlacklistIsEarned
<1>1. BaseInv => BlacklistIsEarned
  BY DEF BaseInv, BanInv, BlacklistIsEarned
<1>2. QED
  BY <1>1, BaseAlways, PTL
-----------------------------------------------------------------------------
(* What is sent has worked, when the local EVM has the executor's code. *)

\* Nothing new passes or is sent, and what is seen stays seen.
LEMMA WorkedSame ==
    ASSUME BaseInv, WorkedInv, code \subseteq code', exec' = exec,
           \A p \in Payloads :
              /\ load'[p].route = load[p].route /\ load[p].seen \subseteq load'[p].seen
              /\ load[p].hollow => load'[p].hollow,
           \A v \in Workers : worker'[v].pc = "passed" => worker'[v] = worker[v]
    PROVE  WorkedInv'
<1>1. \A v \in Workers : worker[v].pc = "passed" => worker[v].payload \in Payloads
  BY DEF BaseInv, PlaceInv, HoldInv, Holding
<1>2. \A i \in 1..Len(exec) : exec[i] \in Payloads
  BY ElementOfSeq DEF BaseInv, OutputTypes
<1>3. SentHasWorked'
  BY <1>2 DEF WorkedInv, SentHasWorked, Vouched
<1>4. QED
  BY <1>1, <1>3 DEF WorkedInv, Vouched

\* A payload that nobody who passed holds, and that was not sent, may be refilled.
LEMMA WorkedElsewhere ==
    ASSUME BaseInv, WorkedInv, NEW p \in Payloads, code' = code, exec' = exec,
           \A i \in 1..Len(exec) : exec[i] # p,
           \A q \in Payloads \ {p} : load'[q] = load[q],
           \A v \in Workers : worker'[v].pc = "passed" => worker'[v] = worker[v] /\ worker[v].payload # p
    PROVE  WorkedInv'
<1>1. \A v \in Workers : worker[v].pc = "passed" => worker[v].payload \in Payloads
  BY DEF BaseInv, PlaceInv, HoldInv, Holding
<1>2. \A i \in 1..Len(exec) : exec[i] \in Payloads
  BY ElementOfSeq DEF BaseInv, OutputTypes
<1>3. SentHasWorked'
  BY <1>2 DEF WorkedInv, SentHasWorked, Vouched
<1>4. QED
  BY <1>1, <1>3 DEF WorkedInv, Vouched

\* A worker that passes holds a payload whose route has worked.
LEMMA WorkedPasses ==
    ASSUME BaseInv, WorkedInv, NEW w \in Workers, worker[w].pc \in Holding,
           UNCHANGED <<code, exec, load>>, NEW pc, StepsTo(w, pc, worker[w].route, worker[w].payload),
           pc = "passed" => \/ worker[w].route \in works
                            \/ worker[w].route \in believed /\ worker[w].route.pools \subseteq matrix
    PROVE  WorkedInv'
<1>1. worker[w].payload \in Payloads /\ load[worker[w].payload].route = worker[w].route
  BY DEF BaseInv, PlaceInv, HoldInv
<1>2. pc = "passed" => Vouched(worker[w].payload)
  BY <1>1 DEF BaseInv, NotedInv, Vouched
<1>3. \A v \in Workers : worker'[v].pc = "passed" => worker'[v].payload = worker[v].payload /\ Vouched(worker[v].payload)
  BY <1>2 DEF StepsTo, WorkedInv
<1>4. SentHasWorked'
  BY DEF WorkedInv, SentHasWorked, Vouched
<1>5. QED
  BY <1>3, <1>4 DEF WorkedInv, Vouched

LEMMA WorkedReturned ==
    ASSUME BaseInv, WorkedInv, NEW w \in Workers, worker[w].pc \in Holding, PutPayload(w), code' = code
    PROVE  WorkedInv'
<1> DEFINE p == worker[w].payload
<1>1. load' = [load EXCEPT ![p] = Blank] /\ exec' = exec /\ StepsTo(w, "idle", NoRoute, Nothing)
  BY ToIdle DEF PutPayload, BaseInv
<1>2. /\ p \in Payloads /\ \A i \in 1..Len(exec) : exec[i] # p
      /\ \A v \in Workers \ {w} : worker[v].pc \in Holding => worker[v].payload # p
  BY DEF BaseInv, PlaceInv, HoldInv
<1> HIDE DEF p
<1>3. \A q \in Payloads \ {p} : load'[q] = load[q]
  BY <1>1 DEF BaseInv, OutputTypes
<1>4. \A v \in Workers : worker'[v].pc = "passed" => worker'[v] = worker[v] /\ worker[v].payload # p
  BY <1>1, <1>2 DEF StepsTo, Holding
<1>5. QED
  BY <1>1, <1>2, <1>3, <1>4, WorkedElsewhere

LEMMA WorkedKept == BaseInv /\ WorkedInv /\ [Next]_vars => WorkedInv'
<1> SUFFICES ASSUME BaseInv, WorkedInv, [Next]_vars PROVE WorkedInv'
  OBVIOUS
<1>1. CASE \/ UNCHANGED vars
           \/ \E r \in Routes : Offer(r)
           \/ SettingChanges \/ \E t \in Tokens : Expire(t)
           \/ \E a \in Code : WarmUpAddress(a)
  <2>1. UNCHANGED <<worker, exec, load>> /\ code \subseteq code'
    BY <1>1 DEF vars, environment, output, Offer, SettingChanges, Expire, WarmUpAddress
  <2>2. QED
    BY <2>1, WorkedSame
<1>2. CASE (\E r \in Routes : ChainMoves(r)) \/ MatrixFollows \/ MatrixChanges
  <2>1. works \subseteq Routes /\ believed \subseteq Routes
    BY DEF BaseInv, EnvironmentTypes
  <2>2. \E ws \in SUBSET Routes, bs \in SUBSET Routes : \E in : Note(ws, bs, in)
    <3>1. ASSUME NEW r \in Routes, ChainMoves(r)
          PROVE  works' \in SUBSET Routes /\ Note(works', believed, matrix)
      BY <2>1, <3>1 DEF ChainMoves
    <3>2. MatrixFollows => Note(works, works, matrix)
      BY DEF MatrixFollows, Note
    <3>3. MatrixChanges => Note(works, believed, matrix')
      BY DEF MatrixChanges
    <3>4. QED
      BY <1>2, <2>1, <3>1, <3>2, <3>3
  <2>3. UNCHANGED <<pool, exec, worker, code>>
    BY <1>2 DEF ChainMoves, MatrixFollows, MatrixChanges
  <2>4. \A p \in Payloads :
          /\ load'[p].route = load[p].route /\ load[p].seen \subseteq load'[p].seen
          /\ load[p].hollow => load'[p].hollow
    BY <2>2, <2>3, NoteKeeps
  <2>5. QED
    BY <2>3, <2>4, WorkedSame
<1>3. ASSUME NEW w \in Workers, worker2(w)
      PROVE  WorkedInv'
  <2>1. CASE Take(w) \/ Resume(w) \/ Drop(w)
    <3>1. UNCHANGED <<exec, load, code>>
      BY <2>1 DEF Take, Resume, Drop, output
    <3>2. \A v \in Workers : worker'[v].pc = "passed" => worker'[v] = worker[v]
      <4>1. worker \in [Workers -> WorkerRecords]
        BY DEF BaseInv, WorkerTypes
      <4>2. CASE Take(w)
        <5>1. /\ \A v \in Workers \ {w} : worker'[v] = worker[v]
              /\ worker'[w].pc = IF running THEN "vet" ELSE "paused"
          BY <2>1, <4>1, <4>2 DEF Take, IdleWorker
        <5>2. QED
          BY <5>1
      <4>3. CASE Resume(w) \/ Drop(w)
        <5>1. worker' = [worker EXCEPT ![w] = IdleWorker]
          BY <4>3 DEF Resume, Drop
        <5>2. QED
          BY <4>1, <5>1 DEF IdleWorker
      <4>4. QED
        BY <2>1, <4>2, <4>3
    <3>3. QED
      BY <3>1, <3>2, WorkedSame
  <2>2. CASE Fill(w)
    <3>0. PICK p \in pool :
            /\ \E rec : load' = [load EXCEPT ![p] = rec]
            /\ worker' = [worker EXCEPT ![w].pc = "choose", ![w].payload = p]
      BY <2>2 DEF Fill
    <3>1. PICK rec : load' = [load EXCEPT ![p] = rec]
      BY <3>0
    <3>2. code' = code /\ exec' = exec
      BY <2>2 DEF Fill
    <3>3. p \in Payloads /\ \A q \in Payloads \ {p} : load'[q] = load[q]
      BY <3>1 DEF BaseInv, OutputTypes
    <3>4. \A i \in 1..Len(exec) : exec[i] # p
      BY DEF BaseInv, PlaceInv, QueueInv
    <3>5. \A v \in Workers : worker'[v].pc = "passed" => worker'[v] = worker[v]
      BY <3>0 DEF BaseInv, WorkerTypes, WorkerRecords
    <3>6. \A v \in Workers : worker[v].pc = "passed" => worker[v].payload # p
      BY DEF BaseInv, PlaceInv, HoldInv, Holding
    <3>7. QED
      BY <3>2, <3>3, <3>4, <3>5, <3>6, WorkedElsewhere
  <2>3. CASE ChooseBackend(w) \/ SimulateNative(w) \/ AcquireSlot(w) \/ CallPasses(w) \/ CallReverts(w)
    <3>1. UNCHANGED <<code, exec, load>> /\ worker[w].pc \in Holding
      BY <2>3 DEF ChooseBackend, SimulateNative, AcquireSlot, CallPasses, CallReverts, output, Holding
    <3>2. WorkerTypes /\ Executor \in code
      BY DEF BaseInv, WorkedInv
    <3>3. CASE ChooseBackend(w) \/ AcquireSlot(w) \/ CallReverts(w)
      <4>1. PICK pc \in {"local", "remote", "call", "reverted"} : worker' = [worker EXCEPT ![w].pc = pc]
        BY <3>3 DEF ChooseBackend, AcquireSlot, CallReverts, Goto
      <4>2. StepsTo(w, pc, worker[w].route, worker[w].payload)
        BY <3>2, <4>1, PcOnly DEF Pcs
      <4>3. QED
        BY <3>1, <4>1, <4>2, WorkedPasses
    <3>4. CASE SimulateNative(w)
      <4> DEFINE ok == Injected(worker[w].route) /\ worker[w].route \in believed
                 pc == IF ok THEN "passed" ELSE "remote"
      <4>1. worker' = [worker EXCEPT ![w].pc = pc, ![w].gas = LocalGas]
        BY <3>2, <3>4 DEF SimulateNative
      <4>2. /\ pc \in {"passed", "remote"}
            /\ pc = "passed" => worker[w].route \in believed /\ worker[w].route.pools \subseteq matrix
        BY DEF Injected
      <4> HIDE DEF pc
      <4>3. StepsTo(w, pc, worker[w].route, worker[w].payload)
        BY <3>2, <4>1, <4>2, PcAndGas DEF Pcs
      <4>4. QED
        BY <3>1, <4>2, <4>3, WorkedPasses
    <3>5. CASE CallPasses(w)
      <4>1. worker' = [worker EXCEPT ![w].pc = "passed", ![w].gas = RemoteGas] /\ worker[w].route \in works
        BY <3>5 DEF CallPasses
      <4>2. StepsTo(w, "passed", worker[w].route, worker[w].payload)
        BY <3>2, <4>1, PcAndGas DEF Pcs
      <4>3. QED
        BY <3>1, <4>1, <4>2, WorkedPasses
    <3>6. QED
      BY <2>3, <3>3, <3>4, <3>5
  <2>4. CASE \/ SlotTimeout(w) \/ CustomError(w) \/ CallFails(w) \/ Reverted(w) \/ TooPoor(w)
             \/ Send(w) /\ PutPayload(w)
    <3>1. PutPayload(w) /\ code' = code /\ worker[w].pc \in Holding
      BY <2>4 DEF SlotTimeout, CustomError, CallFails, Reverted, TooPoor, Send, Holding
    <3>2. QED
      BY <3>1, WorkedReturned
  <2>5. CASE Send(w) /\ Len(exec) < ExecCap
    <3> DEFINE p == worker[w].payload
    <3>1. /\ exec' = Append(exec, p) /\ code' = code /\ load' = load /\ worker[w].pc = "passed"
          /\ worker' = [worker EXCEPT ![w] = IdleWorker]
      BY <2>5 DEF Send
    <3>2. exec \in Seq(Payloads) /\ p \in Payloads /\ Vouched(p)
      BY <3>1 DEF BaseInv, OutputTypes, PlaceInv, HoldInv, WorkedInv, Holding
    <3> HIDE DEF p
    <3>3. /\ Len(exec') = Len(exec) + 1 /\ exec'[Len(exec) + 1] = p /\ Len(exec) \in Nat
          /\ \A i \in 1..Len(exec) : exec'[i] = exec[i]
      BY <3>1, <3>2, AppendProperties, LenProperties
    <3>4. \A i \in 1..Len(exec') : Vouched(exec'[i])
      <4>1. \A i \in 1..Len(exec') : i \in 1..Len(exec) \/ (i = Len(exec) + 1 /\ exec'[i] = p)
        BY <3>3
      <4>2. QED
        BY <3>2, <3>3, <4>1 DEF WorkedInv, SentHasWorked
    <3>5. \A v \in Workers : worker'[v].pc = "passed" => worker'[v] = worker[v]
      BY <3>1 DEF BaseInv, WorkerTypes, IdleWorker
    <3>6. QED
      BY <3>1, <3>4, <3>5 DEF WorkedInv, SentHasWorked, Vouched
  <2>6. Send(w) => (Len(exec) < ExecCap) \/ PutPayload(w)
    BY DEF Send
  <2>7. CASE HollowAnswer(w)
    <3>1. code' = code /\ exec' = exec
      BY <2>7 DEF HollowAnswer, environment
    <3>2. /\ StepsTo(w, "passed", worker[w].route, worker[w].payload)
          /\ load'[worker[w].payload].hollow
          /\ \A p \in Payloads :
                /\ load'[p].route = load[p].route /\ load'[p].seen = load[p].seen
                /\ load[p].hollow => load'[p].hollow
      BY <2>7, HollowStep
    <3>3. \A v \in Workers : worker[v].pc = "passed" => worker[v].payload \in Payloads
      BY DEF BaseInv, PlaceInv, HoldInv, Holding
    <3>4. \A i \in 1..Len(exec) : exec[i] \in Payloads
      BY ElementOfSeq DEF BaseInv, OutputTypes
    <3>5. SentHasWorked'
      BY <3>1, <3>2, <3>4 DEF WorkedInv, SentHasWorked, Vouched
    <3>6. \A v \in Workers : worker'[v].pc = "passed" =>
             load'[worker'[v].payload].route \in load'[worker'[v].payload].seen \/ load'[worker'[v].payload].hollow
      BY <3>2, <3>3 DEF WorkedInv, StepsTo, Vouched
    <3>7. QED
      BY <3>1, <3>5, <3>6 DEF WorkedInv, Vouched
  <2>8. QED
    BY <1>3, <2>1, <2>2, <2>3, <2>4, <2>5, <2>6, <2>7 DEF worker2
<1>4. CASE Consume
  <2> DEFINE p == Head(exec)
  <2>1. /\ UNCHANGED <<code, worker>> /\ exec # <<>> /\ exec' = Tail(exec)
        /\ load' = [load EXCEPT ![p] = Blank]
    BY <1>4 DEF Consume
  <2>2. exec \in Seq(Payloads) /\ Len(exec) \in Nat /\ load \in [Payloads -> LoadRecords]
    BY LenProperties DEF BaseInv, OutputTypes
  <2>3. /\ p \in Payloads /\ p = exec[1] /\ 1 \in 1..Len(exec)
        /\ \A i \in 1..Len(exec') : exec'[i] = exec[i + 1] /\ i + 1 \in 1..Len(exec) /\ i + 1 # 1
    <3>1. Len(exec) > 0
      BY <2>1, <2>2, EmptySeq, LenProperties
    <3>2. /\ p \in Payloads /\ exec' \in Seq(Payloads) /\ Len(exec') = Len(exec) - 1
          /\ \A i \in 1..Len(exec') : exec'[i] = exec[i + 1]
      BY <2>1, <2>2, HeadTailProperties
    <3>3. p = exec[1]
      BY <2>2, <3>1
    <3>4. QED
      BY <2>2, <3>1, <3>2, <3>3
  <2> HIDE DEF p
  <2>4. \A i \in 1..Len(exec') : exec'[i] # p /\ exec'[i] \in Payloads
    <3>1. QueueInv
      BY DEF BaseInv, PlaceInv
    <3>2. \A i \in 1..Len(exec) : exec[i] \in Payloads
      BY <2>2, ElementOfSeq
    <3>3. QED
      BY <2>3, <3>1, <3>2 DEF QueueInv
  <2>5. \A v \in Workers : worker[v].pc = "passed" => worker[v].payload \in Payloads \ {p}
    BY <2>3 DEF BaseInv, PlaceInv, HoldInv, Holding
  <2>6. \A q \in Payloads \ {p} : load'[q] = load[q]
    BY <2>1, <2>2
  <2> DEFINE Ok(q) == load'[q].route \in load'[q].seen \/ load'[q].hollow
  <2>7. \A i \in 1..Len(exec') : Ok(exec'[i])
    BY <2>3, <2>4, <2>6 DEF WorkedInv, SentHasWorked, Vouched
  <2>8. \A v \in Workers : worker[v].pc = "passed" => Ok(worker[v].payload)
    BY <2>5, <2>6 DEF WorkedInv, Vouched
  <2>9. QED
    BY <2>1, <2>7, <2>8 DEF WorkedInv, SentHasWorked, Vouched
<1>5. QED
  BY <1>1, <1>2, <1>3, <1>4 DEF Next

\* What is sent worked at some moment after its payload was filled, whichever backend
\* answered and whatever moved meanwhile, unless the node's answer was neither a result
\* nor an error (gevm_simulator.go:581-599), provided the code of the executor was fetched
\* at the start (main.go:258-263; without it the local EVM passes anything).
THEOREM SentRoutesWorked == Executor \notin Unfetched => (Spec => []SentHasWorked)
<1> SUFFICES ASSUME Executor \notin Unfetched PROVE Spec => []SentHasWorked
  OBVIOUS
<1>1. Init => WorkedInv
  <2> SUFFICES ASSUME Init PROVE WorkedInv
    OBVIOUS
  <2>1. Executor \in code
    BY DEF Init, Code
  <2>2. \A w \in Workers : worker[w].pc = "idle"
    BY DEF Init, IdleWorker
  <2>3. SentHasWorked
    BY DEF Init, SentHasWorked
  <2>4. QED
    BY <2>1, <2>2, <2>3 DEF WorkedInv
<1>2. WorkedInv => SentHasWorked
  BY DEF WorkedInv
<1>3. QED
  BY <1>1, <1>2, WorkedKept, BaseAlways, PTL DEF Spec
=============================================================================
