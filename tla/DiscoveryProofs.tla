--------------------------- MODULE DiscoveryProofs ---------------------------
(* The matrix keeps its bound and its maps agree, for any number of pools,  *)
(* gatekeeper workers and reorgs.                                           *)
EXTENDS Discovery, SequenceTheorems, TLAPS

USE DiscoveryAssumption

LEMMA TypesInitially == Init => TypeOK
<1> SUFFICES ASSUME Init PROVE TypeOK
  OBVIOUS
<1>1. MatrixTypes /\ TickTypes
  BY DEF Init, MatrixTypes, TickTypes
<1>2. QueueTypes /\ WorkerTypes /\ SeedTypes
  BY DEF Init, QueueTypes, WorkerTypes, SeedTypes, Free
<1>3. QED
  BY <1>1, <1>2 DEF TypeOK

\* Groups of variables that a step leaves alone keep their types.
LEMMA Untouched ==
    /\ MatrixTypes /\ UNCHANGED matrix => MatrixTypes'
    /\ TickTypes /\ UNCHANGED <<ticks, age, loop>> => TickTypes'
    /\ QueueTypes /\ UNCHANGED queue => QueueTypes'
    /\ WorkerTypes /\ UNCHANGED gk => WorkerTypes'
    /\ SeedTypes /\ UNCHANGED <<seeder, clears>> => SeedTypes'
BY DEF MatrixTypes, TickTypes, QueueTypes, WorkerTypes, SeedTypes, matrix, Pools

\* A worker's next place.
LEMMA WorkerMoves ==
    ASSUME WorkerTypes, NEW w \in Workers,
           NEW c \in {"idle", "check", "read", "ticks", "register"},
           NEW p \in Pools \cup {"none"}, gk' = [gk EXCEPT ![w] = [pc |-> c, pool |-> p]]
    PROVE  WorkerTypes'
BY DEF WorkerTypes, Pools

LEMMA SeedTyped ==
    ASSUME TypeOK, SeedFetch \/ SeedDone \/ \E p \in Pools : SeedOffer(p)
    PROVE  TypeOK' /\ UNCHANGED matrix
<1>1. UNCHANGED <<order, index, stats, ticks, age, loop, gk, clears>>
  BY DEF SeedFetch, SeedDone, SeedOffer, matrix
<1>2. SeedTypes'
  BY <1>1 DEF TypeOK, SeedTypes, SeedFetch, SeedDone, SeedOffer, Pools
<1>3. QueueTypes'
  <2>1. CASE UNCHANGED queue
    BY <2>1, Untouched DEF TypeOK
  <2>2. ASSUME NEW p \in Pools, queue' = Append(queue, p), Len(queue) < QueueCap
        PROVE  QueueTypes'
    BY <2>2 DEF TypeOK, QueueTypes, Pools
  <2>3. QED
    BY <2>1, <2>2 DEF SeedFetch, SeedDone, SeedOffer
<1>4. QED
  BY <1>1, <1>2, <1>3, Untouched DEF TypeOK, matrix

LEMMA WorkerTyped ==
    ASSUME TypeOK, NEW w \in Workers, Worker(w), ~ Register(w)
    PROVE  TypeOK' /\ UNCHANGED matrix
<1>1. gk[w].pool \in Pools \cup {"none"} /\ "none" \in Pools \cup {"none"}
  BY DEF TypeOK, WorkerTypes
<1>2. UNCHANGED matrix /\ UNCHANGED <<seeder, clears, loop>>
  BY DEF Worker, Take, CheckKnown, CheckUnknown, ReadPool, ReadFails, FetchTicks, RegisterKnown
<1>3. CASE Take(w)
  <2>1. Head(queue) \in Pools /\ QueueTypes'
    BY <1>3 DEF Take, TypeOK, QueueTypes, Pools
  <2>2. WorkerTypes'
    BY <1>3, <2>1, WorkerMoves DEF Take, TypeOK
  <2>3. QED
    BY <1>2, <1>3, <2>1, <2>2, Untouched DEF Take, TypeOK
<1>4. CASE CheckKnown(w) \/ ReadFails(w) \/ RegisterKnown(w)
  <2>1. gk' = [gk EXCEPT ![w] = [pc |-> "idle", pool |-> "none"]]
    BY <1>4 DEF CheckKnown, ReadFails, RegisterKnown, Free
  <2>2. WorkerTypes'
    BY <1>1, <2>1, WorkerMoves DEF TypeOK
  <2>3. QED
    BY <1>2, <1>4, <2>2, Untouched DEF CheckKnown, ReadFails, RegisterKnown, TypeOK
<1>5. CASE CheckUnknown(w) \/ ReadPool(w)
  <2>1. WorkerTypes'
    BY <1>1, <1>5 DEF CheckUnknown, ReadPool, TypeOK, WorkerTypes, Pools
  <2>2. QED
    BY <1>2, <1>5, <2>1, Untouched DEF CheckUnknown, ReadPool, TypeOK
<1>6. ASSUME NEW data \in {"empty", "bitmap"}, NEW date \in {"recent", "old"},
             FetchTicks(w, data, date)
      PROVE  TypeOK'
  <2>1. WorkerTypes'
    BY <1>1, <1>6 DEF FetchTicks, TypeOK, WorkerTypes, Pools
  <2>2. TickTypes'
    BY <1>2, <1>6 DEF FetchTicks, TickData, TypeOK, TickTypes, Pools
  <2>3. QED
    BY <1>2, <1>6, <2>1, <2>2, Untouched DEF FetchTicks, TypeOK
<1>7. QED
  BY <1>2, <1>3, <1>4, <1>5, <1>6 DEF Worker

LEMMA LoopTyped ==
    ASSUME TypeOK, LoopCollect \/ BlocksPass \/ \E p \in V3Pools : RefreshOf(p)
    PROVE  TypeOK' /\ UNCHANGED matrix
<1>1. UNCHANGED matrix /\ UNCHANGED <<queue, gk, seeder, clears>>
  BY DEF LoopCollect, BlocksPass, RefreshOf, LoopSkip, LoopStart, LoopFetch
<1>2. CASE LoopCollect \/ BlocksPass
  BY <1>1, <1>2, Untouched DEF LoopCollect, BlocksPass, TypeOK, TickTypes, Pools
<1>3. ASSUME NEW p \in V3Pools, RefreshOf(p)
      PROVE  TypeOK'
  <2>1. TickTypes'
    <3>1. CASE LoopSkip(p) \/ LoopStart(p)
      BY <3>1 DEF LoopSkip, LoopStart, TypeOK, TickTypes, Pools
    <3>2. ASSUME NEW data \in {"empty", "bitmap"}, NEW date \in {"recent", "old"},
                 LoopFetch(p, data, date)
          PROVE  TickTypes'
      BY <3>2 DEF LoopFetch, TickData, TypeOK, TickTypes, Pools
    <3>3. QED
      BY <1>3, <3>1, <3>2 DEF RefreshOf
  <2>2. QED
    BY <1>1, <2>1, Untouched DEF TypeOK
<1>4. QED
  BY <1>1, <1>2, <1>3

LEMMA ClearTyped ==
    ASSUME TypeOK, Clear
    PROVE  TypeOK' /\ MatrixConsistent'
<1>1. MatrixTypes' /\ TickTypes' /\ SeedTypes'
  BY DEF Clear, TypeOK, MatrixTypes, TickTypes, SeedTypes, Pools
<1>2. TypeOK'
  BY <1>1, Untouched DEF Clear, TypeOK
<1>3. Known' = {}
  BY DEF Clear, Known
<1>4. QED
  BY <1>2, <1>3 DEF Clear, MatrixConsistent, Pools

-----------------------------------------------------------------------------
\* Turning the places i..n by one puts no two of them in the same place.
LEMMA TurnInjective ==
    ASSUME NEW n \in Nat, NEW i \in 1..n, NEW j \in 1..n, NEW k \in 1..n,
           (IF j < i THEN j ELSE IF j < n THEN j + 1 ELSE i)
              = (IF k < i THEN k ELSE IF k < n THEN k + 1 ELSE i)
    PROVE  j = k
OBVIOUS

\* A swap turns a part of the order: nothing is lost, nothing appears twice.
LEMMA SwapKeeps ==
    ASSUME TypeOK, MatrixConsistent, NEW i \in DOMAIN order, Swap(i)
    PROVE  TypeOK' /\ MatrixConsistent'
<1> DEFINE n == Len(order)
           From(j) == IF j < i THEN j ELSE IF j < n THEN j + 1 ELSE i
<1>1. order \in Seq(Pools) /\ n \in Nat /\ DOMAIN order = 1..n /\ i \in 1..n
  BY DEF TypeOK, MatrixTypes
<1>2. order' = [j \in 1..n |-> order[From(j)]]
  BY <1>1 DEF Swap
<1>3. \A j \in 1..n : From(j) \in 1..n
  BY <1>1
<1>4. order' \in Seq(Pools) /\ Len(order') = n /\ DOMAIN order' = 1..n
  <2>1. \A j \in 1..n : order[From(j)] \in Pools
    BY <1>1, <1>3, ElementOfSeq
  <2>2. order' \in [1..n -> Pools]
    BY <1>2, <2>1
  <2>3. order' \in Seq(Pools)
    BY <1>1, <2>2
  <2>4. DOMAIN order' = 1..n
    BY <2>2
  <2>5. Len(order') = n
    <3>1. Len(order') \in Nat /\ 1..Len(order') = 1..n
      BY <2>3, <2>4, LenProperties
    <3>2. \A x, y \in Nat : 1..x = 1..y => x <= y
      <4> SUFFICES ASSUME NEW x \in Nat, NEW y \in Nat, 1..x = 1..y, x > y PROVE FALSE
        OBVIOUS
      <4>1. x \in 1..x /\ x \notin 1..y
        OBVIOUS
      <4>2. QED
        BY <4>1
    <3>3. QED
      BY <1>1, <3>1, <3>2
  <2>6. QED
    BY <2>3, <2>4, <2>5
<1>5. \A j, k \in 1..n : From(j) = From(k) => j = k
  BY <1>1, TurnInjective
<1>6. \A k \in 1..n : \E j \in 1..n : From(j) = k
  <2> SUFFICES ASSUME NEW k \in 1..n PROVE \E j \in 1..n : From(j) = k
    OBVIOUS
  <2>1. CASE k < i
    BY <1>1, <2>1
  <2>2. CASE k = i
    <3>1. From(n) = i /\ n \in 1..n
      BY <1>1
    <3>2. QED
      BY <2>2, <3>1
  <2>3. CASE k > i
    <3>1. From(k - 1) = k /\ k - 1 \in 1..n
      BY <1>1, <2>3
    <3>2. QED
      BY <3>1
  <2>4. QED
    BY <1>1, <2>1, <2>2, <2>3
<1> HIDE DEF From
<1>7. Known' = Known
  <2>1. \A j \in 1..n : order'[j] = order[From(j)]
    BY <1>2
  <2>2. \A q : (\E j \in 1..n : order'[j] = q) <=> (\E k \in 1..n : order[k] = q)
    BY <1>3, <1>6, <2>1
  <2>3. QED
    BY <1>1, <1>4, <2>2 DEF Known
<1>8. TypeOK'
  BY <1>4, Untouched DEF Swap, TypeOK, MatrixTypes, Pools
<1>9. \A j, k \in DOMAIN order' : order'[j] = order'[k] => j = k
  <2> SUFFICES ASSUME NEW j \in 1..n, NEW k \in 1..n, order'[j] = order'[k] PROVE j = k
    BY <1>4
  <2>1. From(j) \in DOMAIN order /\ From(k) \in DOMAIN order /\ order[From(j)] = order[From(k)]
    BY <1>1, <1>2, <1>3
  <2>2. From(j) = From(k)
    BY <2>1 DEF MatrixConsistent
  <2>3. QED
    BY <1>5, <2>2
<1>10. QED
  BY <1>1, <1>4, <1>7, <1>8, <1>9 DEF MatrixConsistent, Swap, Pools

\* Who registers has a pool in hand.
HandInv == \A w \in Workers : gk[w].pc # "idle" => gk[w].pool \in Pools

\* A registration adds the pool at the end and takes at most the first.
LEMMA RegisterKeeps ==
    ASSUME TypeOK, MatrixConsistent, HandInv, NEW w \in Workers, Register(w)
    PROVE  TypeOK' /\ MatrixConsistent'
<1> DEFINE p == gk[w].pool
           n == Len(order)
           grown == Append(order, p)
           evicted == IF n + 1 > MaxPools THEN {Head(grown)} ELSE {}
<1>1. p \in Pools /\ p \notin Known
  BY DEF Register, HandInv
<1>2. order \in Seq(Pools) /\ n \in Nat /\ DOMAIN order = 1..n /\ n <= MaxPools
  BY DEF TypeOK, MatrixTypes, MatrixConsistent
<1>3. grown \in Seq(Pools) /\ Len(grown) = n + 1 /\ DOMAIN grown = 1..(n + 1)
      /\ grown[n + 1] = p /\ \A j \in 1..n : grown[j] = order[j]
  BY <1>1, <1>2, AppendProperties, LenProperties
<1>4. \A j \in 1..n : order[j] \in Known
  BY <1>2 DEF Known
<1>5. \A j, k \in 1..(n + 1) : grown[j] = grown[k] => j = k
  BY <1>1, <1>2, <1>3, <1>4 DEF MatrixConsistent
<1>6. \A q : q \in Known \cup {p} <=> \E j \in 1..(n + 1) : grown[j] = q
  BY <1>1, <1>2, <1>3 DEF Known
<1>7. TickTypes' /\ WorkerTypes'
  <2>1. WorkerTypes'
    BY WorkerMoves DEF Register, Free, TypeOK
  <2>2. TickTypes'
    BY DEF Register, TypeOK, TickTypes, Pools
  <2>3. QED
    BY <2>1, <2>2
<1>8. CASE n + 1 > MaxPools
  <2>1. order' = Tail(grown) /\ evicted = {grown[1]}
    BY <1>2, <1>3, <1>8 DEF Register
  <2>2. order' \in Seq(Pools) /\ Len(order') = n /\ DOMAIN order' = 1..n
        /\ \A j \in 1..n : order'[j] = grown[j + 1]
    BY <1>2, <1>3, <2>1, HeadTailProperties, LenProperties
  <2>3. Known' = (Known \cup {p}) \ {grown[1]}
    <3>1. \A q : q \in Known' <=> \E j \in 1..n : grown[j + 1] = q
      BY <2>2 DEF Known
    <3>2. \A q : (\E j \in 1..n : grown[j + 1] = q) <=>
                 (q # grown[1] /\ \E j \in 1..(n + 1) : grown[j] = q)
      <4> SUFFICES ASSUME NEW q
                   PROVE  (\E j \in 1..n : grown[j + 1] = q) <=>
                          (q # grown[1] /\ \E j \in 1..(n + 1) : grown[j] = q)
        OBVIOUS
      <4>1. ASSUME NEW j \in 1..n, grown[j + 1] = q
            PROVE  q # grown[1] /\ \E k \in 1..(n + 1) : grown[k] = q
        BY <1>2, <1>5, <4>1
      <4>2. ASSUME NEW j \in 1..(n + 1), grown[j] = q, q # grown[1]
            PROVE  \E k \in 1..n : grown[k + 1] = q
        <5>1. j - 1 \in 1..n /\ (j - 1) + 1 = j
          BY <1>2, <4>2
        <5>2. QED
          BY <4>2, <5>1
      <4>3. QED
        BY <4>1, <4>2
    <3>3. QED
      BY <1>6, <3>1, <3>2
  <2>4. ASSUME NEW j \in 1..n, NEW k \in 1..n, order'[j] = order'[k]
        PROVE  j = k
    <3>1. j + 1 \in 1..(n + 1) /\ k + 1 \in 1..(n + 1)
      BY <1>2
    <3>2. grown[j + 1] = grown[k + 1]
      BY <2>2, <2>4
    <3>3. j + 1 = k + 1
      BY <1>5, <3>1, <3>2
    <3>4. QED
      BY <1>2, <3>3
  <2>5. grown[1] \in Pools
    BY <1>2, <1>3
  <2>6. stats' = Known' /\ \A q \in Pools : index'[q] = IF q \in Known' THEN 1 ELSE 0
    BY <1>1, <1>3, <1>8, <2>1, <2>3 DEF Register, MatrixConsistent, Pools
  <2>7. MatrixTypes'
    BY <1>1, <1>8, <2>1, <2>2, <2>5 DEF Register, TypeOK, MatrixTypes, Pools
  <2>8. QED
    BY <1>2, <1>7, <2>2, <2>4, <2>6, <2>7, Untouched DEF Register, TypeOK, MatrixConsistent, Pools
<1>9. CASE ~ (n + 1 > MaxPools)
  <2>1. order' = grown /\ evicted = {}
    BY <1>9 DEF Register
  <2>2. Known' = Known \cup {p}
    BY <1>3, <1>6, <2>1 DEF Known
  <2>3. stats' = Known' /\ \A q \in Pools : index'[q] = IF q \in Known' THEN 1 ELSE 0
    BY <1>1, <1>9, <2>1, <2>2 DEF Register, MatrixConsistent, Pools
  <2>4. MatrixTypes'
    BY <1>1, <1>3, <1>9, <2>1 DEF Register, TypeOK, MatrixTypes, Pools
  <2>5. QED
    BY <1>2, <1>3, <1>5, <1>7, <1>9, <2>1, <2>3, <2>4, Untouched
    DEF Register, TypeOK, MatrixConsistent, Pools
<1>10. QED
  BY <1>8, <1>9

LEMMA HandKept ==
    ASSUME TypeOK, HandInv, [Next]_vars
    PROVE  HandInv'
<1>1. CASE UNCHANGED gk
  BY <1>1 DEF HandInv, Pools
<1>2. ASSUME NEW w \in Workers, Worker(w)
      PROVE  HandInv'
  <2>1. \A v \in Workers : v # w => gk'[v] = gk[v]
    BY <1>2 DEF TypeOK, WorkerTypes, Worker, Take, CheckKnown, CheckUnknown, ReadPool, ReadFails,
                FetchTicks, RegisterKnown, Register
  <2>2. gk'[w].pc # "idle" => gk'[w].pool \in Pools
    <3>1. CASE Take(w)
      BY <3>1 DEF Take, TypeOK, WorkerTypes, QueueTypes
    <3>2. CASE CheckKnown(w) \/ ReadFails(w) \/ RegisterKnown(w) \/ Register(w)
      BY <3>2 DEF CheckKnown, ReadFails, RegisterKnown, Register, Free, TypeOK, WorkerTypes
    <3>3. CASE CheckUnknown(w) \/ ReadPool(w)
               \/ \E data \in {"empty", "bitmap"}, date \in {"recent", "old"} : FetchTicks(w, data, date)
      BY <3>3 DEF CheckUnknown, ReadPool, FetchTicks, TypeOK, WorkerTypes, HandInv
    <3>4. QED
      BY <1>2, <3>1, <3>2, <3>3 DEF Worker
  <2>3. QED
    BY <2>1, <2>2 DEF HandInv, Pools
<1>3. CASE \/ SeedFetch \/ SeedDone \/ Clear \/ (\E p \in Pools : SeedOffer(p))
           \/ (\E i \in DOMAIN order : Swap(i)) \/ LoopCollect
           \/ (\E p \in V3Pools : RefreshOf(p)) \/ BlocksPass \/ UNCHANGED vars
  BY <1>1, <1>3 DEF SeedFetch, SeedDone, Clear, SeedOffer, Swap, LoopCollect, RefreshOf, LoopSkip,
                    LoopStart, LoopFetch, BlocksPass, vars
<1>4. QED
  BY <1>2, <1>3 DEF Next

-----------------------------------------------------------------------------
DiscoveryInv == TypeOK /\ MatrixConsistent /\ HandInv

LEMMA InvInitially == Init => DiscoveryInv
<1> SUFFICES ASSUME Init PROVE DiscoveryInv
  OBVIOUS
<1>1. Known = {}
  BY DEF Init, Known
<1>2. MatrixConsistent /\ HandInv
  BY <1>1 DEF Init, MatrixConsistent, HandInv, Free
<1>3. QED
  BY <1>2, TypesInitially DEF DiscoveryInv

LEMMA InvKept == DiscoveryInv /\ [Next]_vars => DiscoveryInv'
<1> SUFFICES ASSUME DiscoveryInv, [Next]_vars PROVE DiscoveryInv'
  OBVIOUS
<1>1. TypeOK /\ MatrixConsistent /\ HandInv
  BY DEF DiscoveryInv
<1>2. ASSUME UNCHANGED matrix
      PROVE  MatrixConsistent'
  BY <1>1, <1>2 DEF MatrixConsistent, Known, matrix, Pools
<1>3. TypeOK' /\ MatrixConsistent'
  <2>1. CASE SeedFetch \/ SeedDone \/ \E p \in Pools : SeedOffer(p)
    BY <1>1, <1>2, <2>1, SeedTyped
  <2>2. CASE Clear
    BY <1>1, <2>2, ClearTyped
  <2>3. CASE \E i \in DOMAIN order : Swap(i)
    BY <1>1, <2>3, SwapKeeps
  <2>4. ASSUME NEW w \in Workers, Worker(w)
        PROVE  TypeOK' /\ MatrixConsistent'
    BY <1>1, <1>2, <2>4, WorkerTyped, RegisterKeeps
  <2>5. CASE LoopCollect \/ BlocksPass \/ \E p \in V3Pools : RefreshOf(p)
    BY <1>1, <1>2, <2>5, LoopTyped
  <2>6. CASE UNCHANGED vars
    <3>1. UNCHANGED matrix
      BY <2>6 DEF vars, matrix
    <3>2. TypeOK'
      BY <1>1, <2>6, Untouched DEF TypeOK, vars, matrix
    <3>3. QED
      BY <1>2, <3>1, <3>2
  <2>7. QED
    BY <2>1, <2>2, <2>3, <2>4, <2>5, <2>6 DEF Next
<1>4. QED
  BY <1>1, <1>3, HandKept DEF DiscoveryInv

LEMMA InvAlways == Spec => []DiscoveryInv
  BY InvInitially, InvKept, PTL DEF Spec

\* Every variable keeps its type; the candidate queue keeps its capacity
\* (gatekeeper.go:158-171).
THEOREM DiscoveryTyped == Spec => []TypeOK
  BY InvAlways, PTL DEF DiscoveryInv

\* Registrations, evictions, swaps and Clears leave the matrix within its bound and
\* its maps in agreement (matrix.go:202-271).
THEOREM MatrixAgrees == Spec => []MatrixConsistent
  BY InvAlways, PTL DEF DiscoveryInv
=============================================================================
