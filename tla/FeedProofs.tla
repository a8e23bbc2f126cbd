------------------------------- MODULE FeedProofs -------------------------------
(* Theorems about Feed, for any pools, any number of SwapLog objects, blocks,   *)
(* logs, forks and broken connections, and any capacity of eventChan.           *)
EXTENDS Feed, Integers, FiniteSetTheorems, SequenceTheorems, TLAPS

-----------------------------------------------------------------------------
(* The invariants, in the parts the actions disturb.                          *)

\* Logs of the blocks with numbers in N; what they carry is left open.
LogRecords(N, V) == [pool : Pools, n : N, fork : Nat, removed : BOOLEAN, val : V]

NodeInv ==
    /\ \E S : chain \in Seq(S)
    /\ Len(chain) \in 1..MaxHeight
    /\ \A i \in 1..Len(chain) : chain[i].fork \in 0..MaxForks
    /\ \A i \in 1..Len(chain) : \E V : chain[i].logs \in Seq(LogRecords({i}, V))
    /\ \E V : msgs \in Seq(LogRecords(1..Len(chain), V))
    /\ Len(msgs) <= MaxLogs
    /\ losses \in 0..MaxLosses
    /\ wire \in Seq(1..Len(msgs))

InChannel(o) == \E i \in 1..Len(events) : events[i] = o

\* An object is free, or has one holder, once.
HolderInv ==
    /\ ObjectTypes
    /\ \A o \in Objs : free[o] \in {0, 1}
    /\ \A i, j \in 1..Len(events) : events[i] = events[j] => i = j
    /\ \A o \in Objs :
          /\ free[o] = 1 => rd.obj # o /\ w1.obj # o /\ ~ InChannel(o)
          /\ rd.obj = o => w1.obj # o /\ ~ InChannel(o)
          /\ w1.obj = o => ~ InChannel(o)
          /\ free[o] = 0 => rd.obj = o \/ w1.obj = o \/ InChannel(o)

\* Each object in use holds a log, and the logs are in the order of their holders.
OrderInv ==
    /\ \A o \in Objs : free[o] = 0 => holds[o] \in 1..Len(msgs)
    /\ \A i, j \in 1..Len(wire) : i < j => wire[i] < wire[j]
    /\ \A i, j \in 1..Len(events) : i < j => holds[events[i]] < holds[events[j]]
    /\ \A i \in 1..Len(events), j \in 1..Len(wire) : holds[events[i]] < wire[j]
    /\ rd.obj \in Objs =>
          /\ \A i \in 1..Len(events) : holds[events[i]] < holds[rd.obj]
          /\ \A j \in 1..Len(wire) : holds[rd.obj] < wire[j]
    /\ w1.obj \in Objs =>
          /\ \A i \in 1..Len(events) : holds[w1.obj] < holds[events[i]]
          /\ rd.obj \in Objs => holds[w1.obj] < holds[rd.obj]
          /\ \A j \in 1..Len(wire) : holds[w1.obj] < wire[j]

PoolRecords(S) == [known : BOOLEAN, st : S, snap : Nat, seen : SUBSET Nat, by : HashTypes]

\* Between Clear and the next log worker1 has finished, no pool has taken anything
\* from a log: what the gatekeeper registers has not.
MatrixInv ==
    /\ {last, latest} \subseteq HashTypes
    /\ \E S : mx \in [Pools -> PoolRecords(S)]
    /\ \E S : reading \in [Pools -> PoolRecords(S)]
    /\ \A p \in Pools :
          /\ mx[p].seen \subseteq 1..Len(msgs) /\ mx[p].snap <= Len(msgs)
          /\ mx[p] # Unknown => mx[p].known
          /\ reading[p].seen = {} /\ reading[p].by = NoHash /\ reading[p].snap <= Len(msgs)
    /\ SameFork
    /\ w1.pc = "reseed" => last.n = 0

FeedInv == NodeInv /\ HolderInv /\ OrderInv /\ MatrixInv

-----------------------------------------------------------------------------
(* Sequences.                                                                 *)

LEMMA FunctionIsSeq ==
    ASSUME NEW S, NEW k \in Nat, NEW f \in [1..k -> S]
    PROVE  f \in Seq(S) /\ Len(f) = k
  BY SeqDef

LEMMA SeqWider ==
    ASSUME NEW S, NEW T, S \subseteq T, NEW s \in Seq(S)
    PROVE  s \in Seq(T)
<1>1. PICK k \in Nat : s \in [1..k -> S]
  BY SeqDef
<1>2. s \in [1..k -> T]
  BY <1>1
<1>3. QED
  BY <1>2, SeqDef

-----------------------------------------------------------------------------
(* The node.                                                                  *)

LEMMA HashFacts ==
    /\ NoHash \in HashTypes
    /\ \A h \in HashTypes : h.n \in Nat /\ h.fork \in Nat /\ h = [n |-> h.n, fork |-> h.fork]
  BY FeedAssumption DEF HashTypes, NoHash

LEMMA ConstantsTyped ==
    MaxHeight \in Nat /\ MaxHeight > 0 /\ MaxForks \in Nat /\ MaxLogs \in Nat /\ MaxLosses \in Nat
    /\ EventCap \in Nat /\ EventCap > 0 /\ NoObj \notin Objs
  BY FeedAssumption DEF NoObj

\* Whatever its logs carry, a block is of its fork and its logs are of its number.
LEMMA MineTyped ==
    ASSUME NEW b \in Blocks, NEW st, NEW seq, NEW n \in Nat, NEW fork \in Nat
    PROVE  /\ Mine(b, st, seq, n, fork).fork = fork
           /\ \E V : Mine(b, st, seq, n, fork).logs \in Seq(LogRecords({n}, V))
<1> DEFINE V == {Carried(b, st, seq, i) : i \in 1..Len(b)}
           log == [i \in 1..Len(b) |->
                     [pool |-> b[i].pool, n |-> n, fork |-> fork, removed |-> FALSE,
                      val |-> Carried(b, st, seq, i)]]
<1>1. PICK k \in 0..BlockLogs : b \in [1..k -> Swaps]
  BY DEF Blocks
<1>2. k \in Nat
  BY FeedAssumption
<1>3. Len(b) = k /\ b \in Seq(Swaps)
  BY <1>1, <1>2
<1>4. \A i \in 1..k : log[i] \in LogRecords({n}, V)
  BY <1>1, <1>3 DEF LogRecords, Swaps
<1>5. log \in Seq(LogRecords({n}, V))
  <2> HIDE DEF V
  <2>1. log \in [1..k -> LogRecords({n}, V)]
    BY <1>3, <1>4
  <2>2. QED
    BY <1>2, <2>1, FunctionIsSeq
<1>6. Mine(b, st, seq, n, fork).fork = fork /\ Mine(b, st, seq, n, fork).logs = log
  BY DEF Mine
<1>7. QED
  BY <1>5, <1>6

\* Concatenation, as the provers take it.
LEMMA ConcatFacts ==
    ASSUME NEW S, NEW s \in Seq(S), NEW t \in Seq(S)
    PROVE  /\ s \o t \in Seq(S)
           /\ Len(s \o t) = Len(s) + Len(t)
           /\ \A i \in 1..Len(s \o t) : (s \o t)[i] = IF i <= Len(s) THEN s[i] ELSE t[i - Len(s)]
  OBVIOUS

\* Logs in a longer sequence, of more blocks.
LEMMA LogsAppended ==
    ASSUME NEW N, NEW M, N \subseteq M, NEW s, NEW t,
           \E V : s \in Seq(LogRecords(N, V)), \E V : t \in Seq(LogRecords(M, V))
    PROVE  /\ \E V : s \o t \in Seq(LogRecords(M, V))
           /\ Len(s \o t) = Len(s) + Len(t)
           /\ Len(s) \in Nat /\ Len(t) \in Nat
<1>1. PICK V1 : s \in Seq(LogRecords(N, V1))
  OBVIOUS
<1>2. PICK V2 : t \in Seq(LogRecords(M, V2))
  OBVIOUS
<1> DEFINE V == V1 \cup V2
<1>3. LogRecords(N, V1) \subseteq LogRecords(M, V) /\ LogRecords(M, V2) \subseteq LogRecords(M, V)
  BY DEF LogRecords
<1>4. s \in Seq(LogRecords(M, V)) /\ t \in Seq(LogRecords(M, V))
  BY <1>1, <1>2, <1>3, SeqWider
<1> HIDE DEF V
<1>5. s \o t \in Seq(LogRecords(M, V)) /\ Len(s \o t) = Len(s) + Len(t)
  BY <1>4
<1>6. QED
  BY <1>1, <1>2, <1>5

\* Pushed logs get the next numbers, and are on the wire in that order.
LEMMA PushKeepsOrder ==
    ASSUME NodeInv, HolderInv, OrderInv, NEW logs, Push(logs), Len(logs) \in Nat,
           Len(msgs') = Len(msgs) + Len(logs), UNCHANGED <<rd, objects, w1>>
    PROVE  /\ wire' \in Seq(1..Len(msgs')) /\ HolderInv' /\ OrderInv'
           /\ \A j \in 1..Len(wire') :
                 (j \in 1..Len(wire) /\ wire'[j] = wire[j]) \/ wire'[j] > Len(msgs)
<1> DEFINE m == Len(msgs)  k == Len(logs)
           new == [i \in 1..k |-> m + i]
<1>1. m \in Nat /\ wire \in Seq(1..m)
  BY DEF NodeInv
<1>2. HolderInv'
  BY DEF HolderInv, ObjectTypes, InChannel, HashTypes, objects
<1>3. new \in Seq(1..m + k) /\ Len(new) = k
  <2>1. k \in Nat /\ new \in [1..k -> 1..m + k]
    BY <1>1
  <2>2. QED
    BY <2>1, FunctionIsSeq
<1>4. wire \in Seq(1..m + k)
  <2>1. 1..m \subseteq 1..m + k
    BY <1>1
  <2>2. QED
    BY <1>1, <2>1, SeqWider
<1>5. wire' \in Seq(1..m + k)
  BY <1>3, <1>4, ConcatProperties DEF Push
<1>6. \A j \in 1..Len(wire') : IF j <= Len(wire) THEN wire'[j] = wire[j] ELSE wire'[j] = m + (j - Len(wire))
  <2>1. Len(wire) \in Nat
    BY <1>1
  <2>2. CASE Subscribed
    <3>1. wire' = wire \o new
      BY <2>2 DEF Push
    <3>2. \A i \in 1..k : new[i] = m + i
      OBVIOUS
    <3> HIDE DEF new
    <3> DEFINE S == 1..m + k
    <3>a. wire \in Seq(S) /\ new \in Seq(S) /\ Len(new) = k /\ k \in Nat
      BY <1>3, <1>4
    <3> HIDE DEF S, k
    <3>3. Len(wire') = Len(wire) + k
      BY <3>1, <3>a, ConcatFacts
    <3>4. \A j \in 1..Len(wire') : wire'[j] = IF j <= Len(wire) THEN wire[j] ELSE new[j - Len(wire)]
      BY <3>1, <3>a, ConcatFacts
    <3>5. ASSUME NEW j \in 1..Len(wire'), ~ (j <= Len(wire)) PROVE j - Len(wire) \in 1..k
      BY <2>1, <3>a, <3>3, <3>5
    <3>6. QED
      BY <3>2, <3>4, <3>5
  <2>3. CASE ~ Subscribed
    BY <2>1, <2>3 DEF Push
  <2>4. QED
    BY <2>2, <2>3
<1>7. Len(wire) \in Nat /\ Len(wire') \in Nat /\ \A j \in 1..Len(wire) : wire[j] \in 1..m
  BY <1>1, <1>5
<1>8. \A j \in 1..Len(wire') :
        \/ j \in 1..Len(wire) /\ wire'[j] = wire[j] /\ wire[j] \in 1..m
        \/ j > Len(wire) /\ wire'[j] = m + (j - Len(wire)) /\ wire'[j] > m /\ wire'[j] \in Nat
  <2> HIDE DEF m, k
  <2> QED
    BY <1>1, <1>6, <1>7
<1>9. \A i \in 1..Len(events) : free[events[i]] = 0 /\ events[i] \in Objs
  BY DEF HolderInv, ObjectTypes, InChannel
<1>10. /\ rd.obj \in Objs => free[rd.obj] = 0
       /\ w1.obj \in Objs => free[w1.obj] = 0
  BY DEF HolderInv
<1>11. OrderInv'
  <2>1. \A o \in Objs : free[o] = 0 => holds[o] \in 1..m
    BY DEF OrderInv
  <2>2. events' = events /\ holds' = holds /\ free' = free /\ rd' = rd /\ w1' = w1
    BY DEF objects
  <2>3. \A o \in Objs : free'[o] = 0 => holds'[o] \in 1..Len(msgs')
    BY <1>1, <2>1, <2>2
  <2>4. \A i, j \in 1..Len(wire') : i < j => wire'[i] < wire'[j]
    <3> HIDE DEF m, k
    <3> SUFFICES ASSUME NEW i \in 1..Len(wire'), NEW j \in 1..Len(wire'), i < j
                 PROVE  wire'[i] < wire'[j]
      OBVIOUS
    <3>1. CASE j \in 1..Len(wire)
      <4>1. i \in 1..Len(wire)
        BY <1>7, <3>1
      <4>2. QED
        BY <1>7, <1>8, <3>1, <4>1 DEF OrderInv
    <3>2. CASE j \notin 1..Len(wire)
      <4>1. wire'[j] = m + (j - Len(wire)) /\ wire'[j] > m /\ j > Len(wire)
        BY <1>8, <3>2
      <4>2. CASE i \in 1..Len(wire)
        <5>1. wire'[i] = wire[i] /\ wire[i] \in 1..m
          BY <1>7, <1>8, <4>2
        <5>2. QED
          BY <1>1, <1>7, <4>1, <5>1
      <4>3. CASE i \notin 1..Len(wire)
        <5>1. wire'[i] = m + (i - Len(wire))
          BY <1>8, <4>3
        <5>2. QED
          BY <1>1, <1>7, <4>1, <5>1
      <4>4. QED
        BY <4>2, <4>3
    <3>3. QED
      BY <3>1, <3>2
  <2>5. ASSUME NEW x \in 1..m, NEW j \in 1..Len(wire'),
               \A i \in 1..Len(wire) : x < wire[i]
        PROVE  x < wire'[j]
    <3> HIDE DEF m, k
    <3> QED
      BY <1>1, <1>8, <2>5
  <2>6. ASSUME NEW i \in 1..Len(events'), NEW j \in 1..Len(wire')
        PROVE  holds'[events'[i]] < wire'[j]
    <3>1. holds[events[i]] \in 1..m /\ \A l \in 1..Len(wire) : holds[events[i]] < wire[l]
      BY <1>9, <2>1, <2>2 DEF OrderInv
    <3>2. QED
      BY <2>2, <2>5, <3>1
  <2>7. ASSUME rd.obj \in Objs, NEW j \in 1..Len(wire') PROVE holds[rd.obj] < wire'[j]
    BY <1>10, <2>1, <2>5, <2>7 DEF OrderInv
  <2>8. ASSUME w1.obj \in Objs, NEW j \in 1..Len(wire') PROVE holds[w1.obj] < wire'[j]
    BY <1>10, <2>1, <2>5, <2>8 DEF OrderInv
  <2>9. QED
    BY <2>2, <2>3, <2>4, <2>6, <2>7, <2>8 DEF OrderInv
<1>12. QED
  BY <1>2, <1>5, <1>8, <1>11

\* More logs change nothing for the pools.
LEMMA MoreLogs ==
    ASSUME MatrixInv, Len(msgs) \in Nat, Len(msgs') \in Nat, Len(msgs) <= Len(msgs'),
           UNCHANGED <<w1, latest, matrix, reading>>
    PROVE  MatrixInv'
<1>1. SameFork'
  BY DEF MatrixInv, SameFork, matrix
<1>2. PICK S : mx \in [Pools -> PoolRecords(S)]
  BY DEF MatrixInv
<1>3. PICK T : reading \in [Pools -> PoolRecords(T)]
  BY DEF MatrixInv
<1>4. ASSUME NEW p \in Pools
      PROVE  /\ mx[p].seen \subseteq 1..Len(msgs') /\ mx[p].snap <= Len(msgs')
             /\ reading[p].snap <= Len(msgs')
  <2>1. mx[p].snap \in Nat /\ reading[p].snap \in Nat
    BY <1>2, <1>3 DEF PoolRecords
  <2>2. QED
    BY <2>1 DEF MatrixInv
<1>5. QED
  <2>1. last' = last /\ latest' = latest /\ mx' = mx /\ reading' = reading /\ w1' = w1
    BY DEF matrix
  <2>2. mx' \in [Pools -> PoolRecords(S)]' /\ reading' \in [Pools -> PoolRecords(T)]'
    BY <1>2, <1>3, <2>1 DEF PoolRecords, HashTypes
  <2>3. {last, latest}' \subseteq HashTypes'
    BY <2>1 DEF MatrixInv, HashTypes
  <2>4. QED
    BY <1>1, <1>4, <2>1, <2>2, <2>3 DEF MatrixInv

LEMMA NewBlockKeeps ==
    ASSUME FeedInv, NewBlock
    PROVE  FeedInv'
<1>1. PICK b \in Blocks :
        LET new == Mine(b, Tip.st, Len(msgs), Len(chain) + 1, Tip.fork)
        IN  chain' = Append(chain, new) /\ Push(new.logs)
  BY DEF NewBlock
<1> DEFINE n == Len(chain)
           new == Mine(b, Tip.st, Len(msgs), n + 1, Tip.fork)
<1>2. NodeInv /\ HolderInv /\ OrderInv /\ MatrixInv
  BY DEF FeedInv
<1>3. PICK S : chain \in Seq(S)
  BY <1>2 DEF NodeInv
<1>4. n \in Nat /\ n > 0 /\ n < MaxHeight /\ Tip.fork \in 0..MaxForks
  BY <1>2, ConstantsTyped DEF NewBlock, NodeInv, Tip
<1>5. new.fork = Tip.fork /\ \E V : new.logs \in Seq(LogRecords({n + 1}, V))
  <2>1. n + 1 \in Nat /\ Tip.fork \in Nat
    BY <1>4, ConstantsTyped
  <2>2. QED
    BY <2>1, MineTyped
<1>6. chain' = Append(chain, new) /\ Push(new.logs)
  BY <1>1
<1> HIDE DEF new
<1>7. /\ chain' \in Seq(S \cup {new}) /\ Len(chain') = n + 1
      /\ \A i \in 1..n : chain'[i] = chain[i]
      /\ chain'[n + 1] = new
  <2>1. chain \in Seq(S \cup {new})
    BY <1>3, SeqWider
  <2>2. QED
    BY <1>6, <2>1, AppendProperties
<1>8. \E V : new.logs \in Seq(LogRecords(1..n + 1, V))
  <2>1. PICK V : new.logs \in Seq(LogRecords({n + 1}, V))
    BY <1>5
  <2>2. LogRecords({n + 1}, V) \subseteq LogRecords(1..n + 1, V)
    BY <1>4 DEF LogRecords
  <2>3. QED
    BY <2>1, <2>2, SeqWider
<1>9. /\ \E V : msgs \o new.logs \in Seq(LogRecords(1..n + 1, V))
      /\ Len(msgs \o new.logs) = Len(msgs) + Len(new.logs)
      /\ Len(msgs) \in Nat /\ Len(new.logs) \in Nat
  <2>1. 1..n \subseteq 1..n + 1
    BY <1>4
  <2>2. \E V : msgs \in Seq(LogRecords(1..n, V))
    BY <1>2 DEF NodeInv
  <2>3. QED
    BY <1>8, <2>1, <2>2, LogsAppended
<1>10. msgs' = msgs \o new.logs /\ Len(msgs') <= MaxLogs
  BY <1>6 DEF Push
<1>11. wire' \in Seq(1..Len(msgs')) /\ HolderInv' /\ OrderInv'
  BY <1>2, <1>6, <1>9, <1>10, PushKeepsOrder DEF NewBlock
<1>12. NodeInv'
  <2>1. \A i \in 1..n + 1 : chain'[i].fork \in 0..MaxForks
    <3>1. \A i \in 1..n : chain[i].fork \in 0..MaxForks
      BY <1>2 DEF NodeInv
    <3>2. \A i \in 1..n + 1 : i \in 1..n \/ i = n + 1
      BY <1>4
    <3>3. QED
      BY <1>4, <1>5, <1>7, <3>1, <3>2
  <2>2. \A i \in 1..n + 1 : \E V : chain'[i].logs \in Seq(LogRecords({i}, V))
    <3>1. \A i \in 1..n : \E V : chain[i].logs \in Seq(LogRecords({i}, V))
      BY <1>2 DEF NodeInv
    <3>2. \A i \in 1..n + 1 : i \in 1..n \/ i = n + 1
      BY <1>4
    <3>3. QED
      BY <1>5, <1>7, <3>1, <3>2
  <2>3. losses' \in 0..MaxLosses
    BY <1>2 DEF NewBlock, NodeInv
  <2>4. \E V : msgs' \in Seq(LogRecords(1..Len(chain'), V))
    BY <1>7, <1>9, <1>10
  <2>5. Len(chain') \in 1..MaxHeight
    BY <1>4, <1>7, ConstantsTyped
  <2>6. QED
    BY <1>7, <1>10, <1>11, <2>1, <2>2, <2>3, <2>4, <2>5 DEF NodeInv, LogRecords
<1>13. MatrixInv'
  BY <1>2, <1>9, <1>10, MoreLogs DEF NewBlock
<1>14. QED
  BY <1>11, <1>12, <1>13 DEF FeedInv

LEMMA ReorgKeeps ==
    ASSUME FeedInv, Reorg
    PROVE  FeedInv'
<1> DEFINE n == Len(chain)
           gone == [i \in 1..Len(Tip.logs) |-> [Tip.logs[i] EXCEPT !.removed = TRUE]]
<1>1. PICK b \in Blocks :
        LET new == Mine(b, chain[n - 1].st, Len(msgs) + Len(gone), n, Tip.fork + 1)
        IN  chain' = [chain EXCEPT ![n] = new] /\ Push(gone \o new.logs)
  BY DEF Reorg
<1> DEFINE new == Mine(b, chain[n - 1].st, Len(msgs) + Len(gone), n, Tip.fork + 1)
           logs == gone \o new.logs
<1>2. NodeInv /\ HolderInv /\ OrderInv /\ MatrixInv
  BY DEF FeedInv
<1>3. PICK S : chain \in Seq(S)
  BY <1>2 DEF NodeInv
<1>4. n \in Nat /\ n > 1 /\ n <= MaxHeight /\ Tip.fork + 1 \in 0..MaxForks /\ Tip = chain[n]
  BY <1>2, ConstantsTyped DEF Reorg, NodeInv, Tip
<1>5. new.fork = Tip.fork + 1 /\ \E V : new.logs \in Seq(LogRecords({n}, V))
  <2>1. Tip.fork + 1 \in Nat
    BY <1>4, ConstantsTyped
  <2>2. QED
    BY <1>4, <2>1, MineTyped
<1>6. chain' = [chain EXCEPT ![n] = new] /\ Push(logs)
  BY <1>1
<1>7. \E V : gone \in Seq(LogRecords({n}, V))
  <2>a. \A i \in 1..Len(chain) : \E V : chain[i].logs \in Seq(LogRecords({i}, V))
    BY <1>2 DEF NodeInv
  <2>b. Len(chain) \in 1..Len(chain)
    BY <1>4
  <2>1. PICK V : Tip.logs \in Seq(LogRecords({n}, V))
    BY <2>a, <2>b DEF Tip
  <2> DEFINE ls == Tip.logs
  <2> HIDE DEF n
  <2>2. ASSUME NEW i \in 1..Len(ls) PROVE [ls[i] EXCEPT !.removed = TRUE] \in LogRecords({n}, V)
    <3>1. ls \in Seq(LogRecords({n}, V))
      BY <2>1
    <3> HIDE DEF ls
    <3>2. ls[i] \in LogRecords({n}, V)
      BY <3>1
    <3>3. QED
      BY <3>2 DEF LogRecords
  <2>3. Len(ls) \in Nat
    BY <2>1
  <2>4. gone \in [1..Len(Tip.logs) -> LogRecords({n}, V)]
    BY <2>2
  <2>5. QED
    BY <2>3, <2>4, FunctionIsSeq
<1> HIDE DEF new, gone
<1>8. /\ chain' \in Seq(S \cup {new}) /\ Len(chain') = n
      /\ \A i \in 1..n : chain'[i] = IF i = n THEN new ELSE chain[i]
  <2>1. chain \in Seq(S \cup {new})
    BY <1>3, SeqWider
  <2>2. chain \in [1..n -> S \cup {new}]
    BY <2>1
  <2>3. chain' \in [1..n -> S \cup {new}]
    BY <1>6, <2>2
  <2>4. chain' \in Seq(S \cup {new}) /\ Len(chain') = n
    BY <1>4, <2>3, FunctionIsSeq
  <2>5. \A i \in 1..n : chain'[i] = IF i = n THEN new ELSE chain[i]
    BY <1>6, <2>2
  <2>6. QED
    BY <2>4, <2>5
<1>9. \E V : logs \in Seq(LogRecords({n}, V))
  BY <1>5, <1>7, LogsAppended
<1> HIDE DEF logs
<1>10. \E V : logs \in Seq(LogRecords(1..n, V))
  <2>1. PICK V : logs \in Seq(LogRecords({n}, V))
    BY <1>9
  <2>2. LogRecords({n}, V) \subseteq LogRecords(1..n, V)
    BY <1>4 DEF LogRecords
  <2>3. QED
    BY <2>1, <2>2, SeqWider
<1>11. /\ \E V : msgs \o logs \in Seq(LogRecords(1..n, V))
       /\ Len(msgs \o logs) = Len(msgs) + Len(logs)
       /\ Len(msgs) \in Nat /\ Len(logs) \in Nat
  <2>1. \E V : msgs \in Seq(LogRecords(1..n, V))
    BY <1>2 DEF NodeInv
  <2>2. QED
    BY <1>10, <2>1, LogsAppended
<1>12. msgs' = msgs \o logs /\ Len(msgs') <= MaxLogs
  BY <1>6 DEF Push
<1>13. wire' \in Seq(1..Len(msgs')) /\ HolderInv' /\ OrderInv'
  BY <1>2, <1>6, <1>11, <1>12, PushKeepsOrder DEF Reorg
<1>14. NodeInv'
  <2>1. \A i \in 1..n : chain'[i].fork \in 0..MaxForks
    <3>1. \A i \in 1..n : chain[i].fork \in 0..MaxForks
      BY <1>2 DEF NodeInv
    <3>2. QED
      BY <1>4, <1>5, <1>8, <3>1
  <2>2. \A i \in 1..n : \E V : chain'[i].logs \in Seq(LogRecords({i}, V))
    <3>1. \A i \in 1..n : \E V : chain[i].logs \in Seq(LogRecords({i}, V))
      BY <1>2 DEF NodeInv
    <3>2. QED
      BY <1>5, <1>8, <3>1
  <2>3. losses' \in 0..MaxLosses
    BY <1>2 DEF Reorg, NodeInv
  <2>4. \E V : msgs' \in Seq(LogRecords(1..Len(chain'), V))
    BY <1>8, <1>11, <1>12
  <2>5. Len(chain') \in 1..MaxHeight
    BY <1>4, <1>8, ConstantsTyped
  <2>6. QED
    BY <1>8, <1>12, <1>13, <2>1, <2>2, <2>3, <2>4, <2>5 DEF NodeInv, LogRecords
<1>15. MatrixInv'
  BY <1>2, <1>11, <1>12, MoreLogs DEF Reorg
<1>16. QED
  BY <1>13, <1>14, <1>15 DEF FeedInv

\* A hash of the chain is of a block and a fork it may have.
LEMMA HashTyped ==
    ASSUME NodeInv, NEW n \in 1..Len(chain)
    PROVE  Hash(n) \in HashTypes
<1>1. Len(chain) \in Nat /\ Len(chain) <= MaxHeight /\ chain[n].fork \in 0..MaxForks
  BY ConstantsTyped DEF NodeInv
<1>2. n \in 0..MaxHeight
  BY <1>1, ConstantsTyped
<1>3. QED
  BY <1>1, <1>2 DEF Hash, HashTypes

\* Where neither the chain nor the wire changes.
LEMMA NodeKept ==
    ASSUME NodeInv, UNCHANGED node
    PROVE  NodeInv'
  BY DEF NodeInv, node, LogRecords

LEMMA MatrixKept ==
    ASSUME NodeInv, MatrixInv, UNCHANGED <<msgs, latest, matrix, reading>>, w1'.pc # "reseed"
    PROVE  MatrixInv'
<1>1. last' = last /\ latest' = latest /\ mx' = mx /\ reading' = reading /\ msgs' = msgs
  BY DEF matrix
<1>2. SameFork'
  BY <1>1 DEF MatrixInv, SameFork
<1>3. PICK S : mx \in [Pools -> PoolRecords(S)]
  BY DEF MatrixInv
<1>4. PICK T : reading \in [Pools -> PoolRecords(T)]
  BY DEF MatrixInv
<1>5. mx' \in [Pools -> PoolRecords(S)]' /\ reading' \in [Pools -> PoolRecords(T)]'
  BY <1>1, <1>3, <1>4 DEF PoolRecords, HashTypes
<1>6. {last, latest}' \subseteq HashTypes'
  BY <1>1 DEF MatrixInv, HashTypes
<1>7. QED
  BY <1>1, <1>2, <1>5, <1>6 DEF MatrixInv

LEMMA CacheHeadKeeps ==
    ASSUME FeedInv, CacheHead
    PROVE  FeedInv'
<1>1. NodeInv /\ HolderInv /\ OrderInv /\ MatrixInv
  BY DEF FeedInv
<1>2. NodeInv'
  BY <1>1, NodeKept DEF CacheHead
<1>3. HolderInv' /\ OrderInv'
  BY <1>1 DEF CacheHead, node, objects, HolderInv, ObjectTypes, OrderInv, InChannel, HashTypes
<1>4. latest' \in HashTypes
  <2>1. Len(chain) \in 1..Len(chain)
    BY <1>1 DEF NodeInv
  <2>2. QED
    BY <1>1, <2>1, HashTyped DEF CacheHead
<1>5. MatrixInv'
  <2>1. last' = last /\ mx' = mx /\ reading' = reading /\ msgs' = msgs /\ w1' = w1
    BY DEF CacheHead, matrix, node
  <2>2. SameFork'
    BY <1>1, <2>1 DEF MatrixInv, SameFork
  <2>3. {last, latest}' \subseteq HashTypes'
    BY <1>1, <1>4, <2>1 DEF MatrixInv, HashTypes
  <2>4. QED
    BY <1>1, <2>1, <2>2, <2>3 DEF MatrixInv, PoolRecords, HashTypes
<1>6. QED
  BY <1>2, <1>3, <1>5 DEF FeedInv

-----------------------------------------------------------------------------
(* The reader.                                                                *)

LEMMA DialKeeps ==
    ASSUME FeedInv, Connect \/ ConnectFails \/ BackOff
    PROVE  FeedInv'
<1>1. NodeInv /\ HolderInv /\ OrderInv /\ MatrixInv
  BY DEF FeedInv
<1>2. /\ UNCHANGED <<node, objects, w1, latest, matrix, reading>>
      /\ rd.pc \in {"dial", "backoff"}
      /\ \E pc \in {"dial", "backoff", "read"} : rd' = [rd EXCEPT !.pc = pc]
  BY DEF Connect, ConnectFails, BackOff
<1>3. NodeInv'
  BY <1>1, <1>2, NodeKept
<1>4. rd \in [pc : {"dial", "read", "backoff"}, obj : {NoObj}]
  BY <1>1, <1>2 DEF HolderInv, ObjectTypes
<1>5. rd' \in [pc : {"dial", "read", "backoff"}, obj : {NoObj}] /\ rd'.obj = rd.obj
  BY <1>2, <1>4
<1>6. free' = free /\ holds' = holds /\ events' = events /\ w1' = w1 /\ msgs' = msgs /\ wire' = wire
  BY <1>2 DEF objects, node
<1>7. HolderInv'
  BY <1>1, <1>5, <1>6 DEF HolderInv, ObjectTypes, InChannel, HashTypes
<1>8. OrderInv'
  BY <1>1, <1>5, <1>6 DEF OrderInv
<1>9. MatrixInv'
  BY <1>1, <1>2, <1>6, MoreLogs, ConstantsTyped DEF NodeInv
<1>10. QED
  BY <1>3, <1>7, <1>8, <1>9 DEF FeedInv

\* What was on the wire is lost; what is in hand keeps its order.
LEMMA DisconnectKeeps ==
    ASSUME FeedInv, Disconnect
    PROVE  FeedInv'
<1>1. NodeInv /\ HolderInv /\ OrderInv /\ MatrixInv
  BY DEF FeedInv
<1>2. /\ UNCHANGED <<chain, msgs, objects, w1, latest, matrix, reading>>
      /\ rd.pc = "read" /\ wire' = <<>> /\ losses < MaxLosses /\ losses' = losses + 1
      /\ \E pc \in {"dial", "backoff"} : rd' = [rd EXCEPT !.pc = pc]
  BY DEF Disconnect
<1>3. free' = free /\ holds' = holds /\ events' = events /\ w1' = w1 /\ msgs' = msgs /\ chain' = chain
  BY <1>2 DEF objects
<1>4. NodeInv'
  <2>1. wire' \in Seq(1..Len(msgs))
    BY <1>2, EmptySeq
  <2>2. losses' \in 0..MaxLosses
    BY <1>1, <1>2, ConstantsTyped DEF NodeInv
  <2>3. QED
    BY <1>1, <1>3, <2>1, <2>2 DEF NodeInv, LogRecords
<1>5. rd \in [pc : {"dial", "read", "backoff"}, obj : {NoObj}]
  BY <1>1, <1>2 DEF HolderInv, ObjectTypes
<1>6. rd' \in [pc : {"dial", "read", "backoff"}, obj : {NoObj}] /\ rd'.obj = rd.obj
  BY <1>2, <1>5
<1>7. HolderInv'
  BY <1>1, <1>3, <1>6 DEF HolderInv, ObjectTypes, InChannel, HashTypes
<1>8. OrderInv'
  <2>1. Len(wire') = 0
    BY <1>2
  <2>2. \A j : j \notin 1..Len(wire')
    BY <2>1
  <2>3. QED
    BY <1>1, <1>3, <1>6, <2>2 DEF OrderInv
<1>9. MatrixInv'
  <2>1. Len(msgs) \in Nat
    BY <1>1 DEF NodeInv
  <2>2. QED
    BY <1>1, <1>2, <1>3, <2>1, MoreLogs
<1>10. QED
  BY <1>4, <1>7, <1>8, <1>9 DEF FeedInv

\* The objects on their way: each is in use, so it is none of the free ones.
LEMMA InUse ==
    ASSUME HolderInv
    PROVE  /\ \A i \in 1..Len(events) : events[i] \in Objs /\ free[events[i]] = 0
           /\ rd.obj \in Objs => free[rd.obj] = 0
           /\ w1.obj \in Objs => free[w1.obj] = 0
           /\ Len(events) \in Nat
           /\ rd.obj # NoObj => rd.obj \in Objs /\ rd.pc = "parsed"
           /\ w1.obj # NoObj => w1.obj \in Objs /\ w1.pc \in {"hash", "check", "reseed"}
<1>1. \A i \in 1..Len(events) : events[i] \in Objs
  BY DEF HolderInv, ObjectTypes
<1>2. QED
  BY <1>1 DEF HolderInv, ObjectTypes, InChannel

LEMMA ReadKeeps ==
    ASSUME FeedInv, NEW o \in Objs, Read(o)
    PROVE  FeedInv'
<1>1. NodeInv /\ HolderInv /\ OrderInv /\ MatrixInv
  BY DEF FeedInv
<1>2. /\ UNCHANGED <<chain, msgs, losses, events, w1, latest, matrix, reading>>
      /\ rd.pc = "read" /\ wire # <<>> /\ free[o] > 0
      /\ wire' = Tail(wire)
      /\ free' = [free EXCEPT ![o] = @ - 1]
      /\ holds' = [holds EXCEPT ![o] = Head(wire)]
      /\ rd' = [pc |-> "parsed", obj |-> o]
  BY DEF Read
<1>3. free[o] = 1 /\ rd.obj = NoObj /\ w1.obj # o /\ ~ InChannel(o) /\ NoObj \notin Objs
  BY <1>1, <1>2, ConstantsTyped DEF HolderInv, ObjectTypes
<1>4. wire \in Seq(1..Len(msgs)) /\ Len(msgs) \in Nat /\ Len(msgs) <= MaxLogs
  BY <1>1 DEF NodeInv
<1>5. /\ Head(wire) \in 1..Len(msgs) /\ Tail(wire) \in Seq(1..Len(msgs))
      /\ Len(wire) \in Nat /\ Len(wire) >= 1 /\ Len(wire') = Len(wire) - 1
      /\ Head(wire) = wire[1]
      /\ \A j \in 1..Len(wire') : wire'[j] = wire[j + 1]
  BY <1>2, <1>4
<1>6. NodeInv'
  BY <1>1, <1>2, <1>5 DEF NodeInv, LogRecords
<1>7. \A x \in Objs : /\ free'[x] = IF x = o THEN 0 ELSE free[x]
                      /\ holds'[x] = IF x = o THEN wire[1] ELSE holds[x]
  BY <1>1, <1>2, <1>3, <1>5 DEF HolderInv, ObjectTypes
<1>8. events' = events /\ w1' = w1 /\ msgs' = msgs /\ rd'.obj = o
  BY <1>2
<1>9. ObjectTypes'
  <2>1. free' \in [Objs -> Nat]
    BY <1>1, <1>2, <1>3 DEF HolderInv, ObjectTypes
  <2>2. holds' \in [Objs -> 0..MaxLogs]
    <3>1. Head(wire) \in 0..MaxLogs
      BY <1>4, <1>5, ConstantsTyped
    <3>2. QED
      BY <1>1, <1>2, <3>1 DEF HolderInv, ObjectTypes
  <2>3. QED
    BY <1>1, <1>2, <2>1, <2>2 DEF HolderInv, ObjectTypes, HashTypes
<1>10. HolderInv'
  BY <1>1, <1>3, <1>7, <1>8, <1>9 DEF HolderInv, InChannel
<1>11. /\ \A i \in 1..Len(events) : events[i] \in Objs /\ events[i] # o
       /\ w1.obj # o
  BY <1>1, <1>3, InUse DEF InChannel
<1>12. OrderInv'
  <2>1. \A x \in Objs : free'[x] = 0 => holds'[x] \in 1..Len(msgs')
    BY <1>1, <1>5, <1>7, <1>8 DEF OrderInv
  <2>2. \A i, j \in 1..Len(wire') : i < j => wire'[i] < wire'[j]
    <3>1. \A i \in 1..Len(wire') : i + 1 \in 1..Len(wire) /\ i \in Nat
      BY <1>5
    <3>2. \A i, j \in 1..Len(wire) : i < j => wire[i] < wire[j]
      BY <1>1 DEF OrderInv
    <3>3. SUFFICES ASSUME NEW i \in 1..Len(wire'), NEW j \in 1..Len(wire'), i < j
                   PROVE  wire'[i] < wire'[j]
      OBVIOUS
    <3>4. i + 1 < j + 1
      BY <3>1, <3>3
    <3>5. wire'[i] = wire[i + 1] /\ wire'[j] = wire[j + 1]
      BY <1>5
    <3>6. QED
      BY <3>1, <3>2, <3>4, <3>5
  <2>3. \A j \in 1..Len(wire') : wire[1] < wire'[j] /\ wire[1] \in 1..Len(msgs)
    <3>1. \A j \in 1..Len(wire') : j + 1 \in 1..Len(wire) /\ 1 < j + 1 /\ 1 \in 1..Len(wire)
      BY <1>5
    <3>2. QED
      BY <1>1, <1>5, <3>1 DEF OrderInv
  <2>4. \A i, j \in 1..Len(events') : i < j => holds'[events'[i]] < holds'[events'[j]]
    BY <1>1, <1>7, <1>8, <1>11 DEF OrderInv
  <2>5. \A i \in 1..Len(events') : holds'[events'[i]] < wire[1]
    <3>1. 1 \in 1..Len(wire)
      BY <1>5
    <3>2. QED
      BY <1>1, <1>7, <1>8, <1>11, <3>1 DEF OrderInv
  <2>6. \A i \in 1..Len(events'), j \in 1..Len(wire') : holds'[events'[i]] < wire'[j]
    <3>1. \A j \in 1..Len(wire') : j + 1 \in 1..Len(wire)
      BY <1>5
    <3>2. QED
      BY <1>1, <1>5, <1>7, <1>8, <1>11, <3>1 DEF OrderInv
  <2>7. holds'[rd'.obj] = wire[1]
    BY <1>7, <1>8
  <2>8. w1'.obj \in Objs =>
          /\ \A i \in 1..Len(events') : holds'[w1'.obj] < holds'[events'[i]]
          /\ holds'[w1'.obj] < holds'[rd'.obj]
          /\ \A j \in 1..Len(wire') : holds'[w1'.obj] < wire'[j]
    <3>1. \A j \in 1..Len(wire') : j + 1 \in 1..Len(wire)
      BY <1>5
    <3>2. 1 \in 1..Len(wire)
      BY <1>5
    <3>3. QED
      BY <1>1, <1>5, <1>7, <1>8, <1>11, <2>7, <3>1, <3>2 DEF OrderInv
  <2>9. QED
    BY <2>1, <2>2, <2>3, <2>4, <2>5, <2>6, <2>7, <2>8 DEF OrderInv
<1>13. MatrixInv'
  BY <1>1, <1>2, <1>4, MoreLogs
<1>14. QED
  BY <1>6, <1>10, <1>12, <1>13 DEF FeedInv

LEMMA ForwardKeeps ==
    ASSUME FeedInv, Forward
    PROVE  FeedInv'
<1>1. NodeInv /\ HolderInv /\ OrderInv /\ MatrixInv
  BY DEF FeedInv
<1> DEFINE o == rd.obj  n == Len(events)
<1>2. /\ UNCHANGED <<node, free, holds, w1, latest, matrix, reading>>
      /\ rd.pc = "parsed" /\ n < EventCap
      /\ events' = Append(events, o)
      /\ rd' = [pc |-> "read", obj |-> NoObj]
  BY DEF Forward
<1>3. o \in Objs /\ free[o] = 0 /\ w1.obj # o /\ ~ InChannel(o) /\ NoObj \notin Objs
  BY <1>1, <1>2, ConstantsTyped DEF HolderInv, ObjectTypes
<1>4. /\ events' \in Seq(Objs) /\ n \in Nat /\ Len(events') = n + 1
      /\ \A i \in 1..n : events'[i] = events[i] /\ i \in 1..n + 1
      /\ events'[n + 1] = o
      /\ \A i \in 1..n + 1 : i \in 1..n \/ i = n + 1
  <2>1. events \in Seq(Objs)
    BY <1>1 DEF HolderInv, ObjectTypes
  <2>2. QED
    BY <1>2, <1>3, <2>1, AppendProperties
<1>5. free' = free /\ holds' = holds /\ w1' = w1 /\ msgs' = msgs /\ wire' = wire /\ rd'.obj = NoObj
  BY <1>2 DEF node
<1>6. NodeInv'
  BY <1>1, <1>2, NodeKept
<1>7. ObjectTypes'
  <2>1. Len(events') <= EventCap
    BY <1>2, <1>4, ConstantsTyped
  <2>2. QED
    BY <1>1, <1>2, <1>4, <1>5, <2>1 DEF HolderInv, ObjectTypes, HashTypes
<1>8. \A i \in 1..n : events[i] # o /\ events[i] \in Objs
  BY <1>1, <1>3, InUse DEF InChannel
<1> HIDE DEF n, o
<1>9. \A x \in Objs : InChannel(x)' <=> InChannel(x) \/ x = o
  <2>1. n + 1 \in 1..n + 1 /\ n = Len(events)
    BY <1>4 DEF n
  <2>2. QED
    BY <1>4, <2>1 DEF InChannel
<1>10. HolderInv'
  <2>1. \A i, j \in 1..Len(events') : events'[i] = events'[j] => i = j
    <3>1. \A i, j \in 1..n : events[i] = events[j] => i = j
      BY <1>1 DEF HolderInv, n
    <3>2. QED
      BY <1>4, <1>8, <3>1
  <2>2. \A x \in Objs :
          /\ free'[x] = 1 => rd'.obj # x /\ w1'.obj # x /\ ~ InChannel(x)'
          /\ rd'.obj = x => w1'.obj # x /\ ~ InChannel(x)'
          /\ w1'.obj = x => ~ InChannel(x)'
          /\ free'[x] = 0 => rd'.obj = x \/ w1'.obj = x \/ InChannel(x)'
    BY <1>1, <1>3, <1>5, <1>9 DEF HolderInv, o
  <2>3. QED
    BY <1>1, <1>5, <1>7, <2>1, <2>2 DEF HolderInv
<1>11. OrderInv'
  <2>1. \A i \in 1..n : holds[events[i]] < holds[o]
    BY <1>1, <1>3 DEF OrderInv, o, n
  <2>2. \A j \in 1..Len(wire) : holds[o] < wire[j]
    BY <1>1, <1>3 DEF OrderInv, o
  <2>3. \A i, j \in 1..Len(events') : i < j => holds'[events'[i]] < holds'[events'[j]]
    <3>1. \A i, j \in 1..n : i < j => holds[events[i]] < holds[events[j]]
      BY <1>1 DEF OrderInv, n
    <3>2. SUFFICES ASSUME NEW i \in 1..n + 1, NEW j \in 1..n + 1, i < j
                   PROVE  holds[events'[i]] < holds[events'[j]]
      BY <1>4, <1>5
    <3>3. i \in 1..n
      BY <1>4, <3>2
    <3>4. CASE j \in 1..n
      BY <1>4, <3>1, <3>2, <3>3, <3>4
    <3>5. CASE j = n + 1
      BY <1>4, <2>1, <3>3, <3>5
    <3>6. QED
      BY <1>4, <3>4, <3>5
  <2>4. \A i \in 1..Len(events'), j \in 1..Len(wire') : holds'[events'[i]] < wire'[j]
    <3>1. \A i \in 1..n, j \in 1..Len(wire) : holds[events[i]] < wire[j]
      BY <1>1 DEF OrderInv, n
    <3>2. QED
      BY <1>4, <1>5, <2>2, <3>1
  <2>5. w1.obj \in Objs => \A i \in 1..Len(events') : holds[w1.obj] < holds[events'[i]]
    <3>1. w1.obj \in Objs => /\ \A i \in 1..n : holds[w1.obj] < holds[events[i]]
                             /\ holds[w1.obj] < holds[o]
      BY <1>1, <1>3 DEF OrderInv, n, o
    <3>2. QED
      BY <1>4, <3>1
  <2>6. w1.obj \in Objs => \A j \in 1..Len(wire) : holds[w1.obj] < wire[j]
    BY <1>1 DEF OrderInv
  <2>7. \A x \in Objs : free[x] = 0 => holds[x] \in 1..Len(msgs)
    BY <1>1 DEF OrderInv
  <2>8. \A i, j \in 1..Len(wire) : i < j => wire[i] < wire[j]
    BY <1>1 DEF OrderInv
  <2>9. QED
    BY <1>3, <1>5, <2>3, <2>4, <2>5, <2>6, <2>7, <2>8 DEF OrderInv
<1>12. MatrixInv'
  <2>1. Len(msgs) \in Nat
    BY <1>1 DEF NodeInv
  <2>2. QED
    BY <1>1, <1>2, <1>5, <2>1, MoreLogs
<1>13. QED
  BY <1>6, <1>10, <1>11, <1>12 DEF FeedInv

\* An object that is put back by its only holder is free, and held by nobody.
LEMMA PutBack ==
    ASSUME HolderInv, NEW o \in Objs, free[o] = 0, Put(o)
    PROVE  /\ free' \in [Objs -> Nat] /\ holds' \in [Objs -> 0..MaxLogs]
           /\ \A x \in Objs : /\ free'[x] = IF x = o THEN 1 ELSE free[x]
                              /\ x # o => holds'[x] = holds[x]
<1>1. 0 \in 0..MaxLogs
  BY ConstantsTyped
<1>2. QED
  BY <1>1 DEF HolderInv, ObjectTypes, Put

LEMMA DiscardKeeps ==
    ASSUME FeedInv, Discard
    PROVE  FeedInv'
<1>1. NodeInv /\ HolderInv /\ OrderInv /\ MatrixInv
  BY DEF FeedInv
<1> DEFINE o == rd.obj
<1>2. /\ UNCHANGED <<node, events, w1, latest, matrix, reading>>
      /\ rd.pc = "parsed" /\ Put(o)
      /\ rd' = [pc |-> "read", obj |-> NoObj]
  BY DEF Discard
<1>3. o \in Objs /\ free[o] = 0 /\ w1.obj # o /\ ~ InChannel(o) /\ NoObj \notin Objs
  BY <1>1, <1>2, ConstantsTyped DEF HolderInv, ObjectTypes
<1>4. events' = events /\ w1' = w1 /\ msgs' = msgs /\ wire' = wire /\ rd'.obj = NoObj
  BY <1>2 DEF node
<1>5. NodeInv'
  BY <1>1, <1>2, NodeKept
<1>6. /\ free' \in [Objs -> Nat] /\ holds' \in [Objs -> 0..MaxLogs]
      /\ \A x \in Objs : /\ free'[x] = IF x = o THEN 1 ELSE free[x]
                         /\ x # o => holds'[x] = holds[x]
  BY <1>1, <1>2, <1>3, PutBack
<1>7. ObjectTypes'
  BY <1>1, <1>2, <1>4, <1>6 DEF HolderInv, ObjectTypes, HashTypes
<1>8. HolderInv'
  BY <1>1, <1>3, <1>4, <1>6, <1>7 DEF HolderInv, InChannel
<1>9. \A i \in 1..Len(events) : events[i] # o /\ events[i] \in Objs
  BY <1>1, <1>3, InUse DEF InChannel
<1>10. OrderInv'
  <2>1. \A x \in Objs : free'[x] = 0 => holds'[x] \in 1..Len(msgs)
    BY <1>1, <1>6 DEF OrderInv
  <2>2. \A i \in 1..Len(events) : holds'[events[i]] = holds[events[i]]
    BY <1>6, <1>9
  <2>3. w1.obj \in Objs => holds'[w1.obj] = holds[w1.obj]
    BY <1>3, <1>6
  <2>4. QED
    BY <1>1, <1>3, <1>4, <2>1, <2>2, <2>3 DEF OrderInv
<1>11. MatrixInv'
  <2>1. Len(msgs) \in Nat
    BY <1>1 DEF NodeInv
  <2>2. QED
    BY <1>1, <1>2, <1>4, <2>1, MoreLogs
<1>12. QED
  BY <1>5, <1>8, <1>10, <1>11 DEF FeedInv

-----------------------------------------------------------------------------
(* worker1.                                                                   *)

LEMMA TakeLogKeeps ==
    ASSUME FeedInv, TakeLog
    PROVE  FeedInv'
<1>1. NodeInv /\ HolderInv /\ OrderInv /\ MatrixInv
  BY DEF FeedInv
<1> DEFINE o == Head(events)
<1>2. /\ UNCHANGED <<node, rd, free, holds, latest, matrix, reading>>
      /\ w1.pc = "idle" /\ events # <<>> /\ events' = Tail(events)
      /\ w1' = [w1 EXCEPT !.pc = "hash", !.obj = o]
  BY DEF TakeLog
<1>3. /\ w1 \in [pc : {"idle"}, obj : {NoObj}, hash : {NoHash}]
      /\ events \in Seq(Objs)
  BY <1>1, <1>2 DEF HolderInv, ObjectTypes
<1>4. /\ o \in Objs /\ o = events[1] /\ events' \in Seq(Objs)
      /\ Len(events) \in Nat /\ Len(events) >= 1 /\ Len(events') = Len(events) - 1
      /\ \A j \in 1..Len(events') : events'[j] = events[j + 1]
      /\ \A j \in 1..Len(events') : j + 1 \in 1..Len(events) /\ 1 < j + 1 /\ j \in Nat
      /\ 1 \in 1..Len(events)
      /\ \A j \in 1..Len(events) : j = 1 \/ (j - 1 \in 1..Len(events') /\ (j - 1) + 1 = j)
  BY <1>2, <1>3
<1>5. w1' = [pc |-> "hash", obj |-> o, hash |-> NoHash]
  BY <1>2, <1>3
<1>6. free' = free /\ holds' = holds /\ rd' = rd /\ msgs' = msgs /\ wire' = wire /\ w1'.obj = o
  BY <1>2, <1>5 DEF node
<1>7. NodeInv'
  BY <1>1, <1>2, NodeKept
<1>8. ObjectTypes'
  <2>1. Len(events') <= EventCap
    BY <1>1, <1>4, ConstantsTyped DEF HolderInv, ObjectTypes
  <2>2. w1' \in [pc : {"hash", "check", "reseed"}, obj : Objs, hash : HashTypes]
    BY <1>4, <1>5, HashFacts
  <2>3. QED
    BY <1>1, <1>4, <1>6, <2>1, <2>2 DEF HolderInv, ObjectTypes, HashTypes
<1>9. InChannel(o) /\ free[o] = 0 /\ rd.obj # o /\ NoObj \notin Objs
  BY <1>1, <1>4, ConstantsTyped DEF HolderInv, ObjectTypes, InChannel
<1> HIDE DEF o
<1>10. \A i \in 1..Len(events') : events'[i] # o
  <2>1. \A i, j \in 1..Len(events) : events[i] = events[j] => i = j
    BY <1>1 DEF HolderInv
  <2>2. SUFFICES ASSUME NEW i \in 1..Len(events') PROVE events'[i] # o
    OBVIOUS
  <2>3. i + 1 \in 1..Len(events) /\ i + 1 # 1
    BY <1>4
  <2>4. QED
    BY <1>4, <2>1, <2>3
<1>11. \A x \in Objs : InChannel(x) <=> InChannel(x)' \/ x = o
  <2>1. SUFFICES ASSUME NEW x \in Objs PROVE InChannel(x) <=> InChannel(x)' \/ x = o
    OBVIOUS
  <2>2. ASSUME NEW i \in 1..Len(events), events[i] = x, x # o PROVE InChannel(x)'
    <3>1. i - 1 \in 1..Len(events') /\ events'[i - 1] = events[i]
      BY <1>4, <2>2
    <3>2. QED
      BY <2>2, <3>1 DEF InChannel
  <2>3. ASSUME NEW i \in 1..Len(events'), events'[i] = x PROVE InChannel(x)
    BY <1>4, <2>3 DEF InChannel
  <2>4. QED
    BY <1>9, <2>2, <2>3 DEF InChannel
<1>12. HolderInv'
  <2>1. \A i, j \in 1..Len(events') : events'[i] = events'[j] => i = j
    <3>1. \A i, j \in 1..Len(events) : events[i] = events[j] => i = j
      BY <1>1 DEF HolderInv
    <3>2. SUFFICES ASSUME NEW i \in 1..Len(events'), NEW j \in 1..Len(events'),
                          events'[i] = events'[j]
                   PROVE  i = j
      OBVIOUS
    <3>3. i + 1 = j + 1
      BY <1>4, <3>1, <3>2
    <3>4. QED
      BY <1>4, <3>3
  <2>2. \A x \in Objs :
          /\ free'[x] = 1 => rd'.obj # x /\ w1'.obj # x /\ ~ InChannel(x)'
          /\ rd'.obj = x => w1'.obj # x /\ ~ InChannel(x)'
          /\ w1'.obj = x => ~ InChannel(x)'
          /\ free'[x] = 0 => rd'.obj = x \/ w1'.obj = x \/ InChannel(x)'
    <3>1. \A x \in Objs : x = o => ~ InChannel(x)'
      BY <1>10 DEF InChannel
    <3>2. w1.obj \notin Objs
      BY <1>3, <1>9
    <3>3. QED
      BY <1>1, <1>6, <1>9, <1>11, <3>1, <3>2 DEF HolderInv
  <2>3. QED
    BY <1>1, <1>6, <1>8, <2>1, <2>2 DEF HolderInv
<1>13. OrderInv'
  <2>1. \A i, j \in 1..Len(events) : i < j => holds[events[i]] < holds[events[j]]
    BY <1>1 DEF OrderInv
  <2>2. \A i, j \in 1..Len(events') : i < j => holds[events'[i]] < holds[events'[j]]
    <3>1. SUFFICES ASSUME NEW i \in 1..Len(events'), NEW j \in 1..Len(events'), i < j
                   PROVE  holds[events'[i]] < holds[events'[j]]
      OBVIOUS
    <3>2. i + 1 < j + 1
      BY <1>4, <3>1
    <3>3. QED
      BY <1>4, <2>1, <3>2
  <2>3. \A i \in 1..Len(events') : holds[o] < holds[events'[i]]
    BY <1>4, <2>1
  <2>4. \A i \in 1..Len(events'), j \in 1..Len(wire) : holds[events'[i]] < wire[j]
    BY <1>1, <1>4 DEF OrderInv
  <2>5. rd.obj \in Objs => \A i \in 1..Len(events') : holds[events'[i]] < holds[rd.obj]
    BY <1>1, <1>4 DEF OrderInv
  <2>6. /\ rd.obj \in Objs => holds[o] < holds[rd.obj]
        /\ \A j \in 1..Len(wire) : holds[o] < wire[j]
    BY <1>1, <1>4 DEF OrderInv
  <2>7. QED
    BY <1>1, <1>6, <2>2, <2>3, <2>4, <2>5, <2>6 DEF OrderInv
<1>14. MatrixInv'
  <2>1. UNCHANGED <<msgs, latest, matrix, reading>> /\ w1'.pc # "reseed"
    BY <1>2, <1>5, <1>6
  <2>2. QED
    BY <1>1, <2>1, MatrixKept
<1>15. QED
  BY <1>7, <1>12, <1>13, <1>14 DEF FeedInv

\* The log in worker1's hand is one the chain emitted, of one of its blocks.
LEMMA LogTyped ==
    ASSUME FeedInv, w1.obj \in Objs
    PROVE  /\ holds[w1.obj] \in 1..Len(msgs)
           /\ Log.n \in 1..Len(chain) /\ Log.pool \in Pools
<1>1. NodeInv /\ HolderInv /\ OrderInv
  BY DEF FeedInv
<1>2. holds[w1.obj] \in 1..Len(msgs)
  BY <1>1, InUse DEF OrderInv
<1>3. PICK V : msgs \in Seq(LogRecords(1..Len(chain), V))
  BY <1>1 DEF NodeInv
<1>4. Log \in LogRecords(1..Len(chain), V)
  BY <1>2, <1>3 DEF Log
<1>5. QED
  BY <1>2, <1>4 DEF LogRecords

LEMMA LearnHashKeeps ==
    ASSUME FeedInv, LearnHash
    PROVE  FeedInv'
<1>1. NodeInv /\ HolderInv /\ OrderInv /\ MatrixInv
  BY DEF FeedInv
<1>2. /\ UNCHANGED <<node, rd, objects, latest, matrix, reading>>
      /\ w1.pc = "hash"
      /\ \E h \in {latest, Hash(Log.n)} : w1' = [w1 EXCEPT !.pc = "check", !.hash = h]
  BY DEF LearnHash
<1>3. w1 \in [pc : {"hash", "check", "reseed"}, obj : Objs, hash : HashTypes]
  BY <1>1, <1>2 DEF HolderInv, ObjectTypes
<1>4. {latest, Hash(Log.n)} \subseteq HashTypes
  <2>1. Log.n \in 1..Len(chain)
    BY <1>3, LogTyped
  <2>2. QED
    BY <1>1, <2>1, HashTyped DEF MatrixInv
<1>5. /\ w1' \in [pc : {"hash", "check", "reseed"}, obj : Objs, hash : HashTypes]
      /\ w1'.obj = w1.obj /\ w1'.pc = "check"
  BY <1>2, <1>3, <1>4
<1>6. /\ free' = free /\ holds' = holds /\ events' = events /\ rd' = rd
      /\ msgs' = msgs /\ wire' = wire
  BY <1>2 DEF node, objects
<1>7. NodeInv'
  BY <1>1, <1>2, NodeKept
<1>8. HolderInv'
  BY <1>1, <1>5, <1>6 DEF HolderInv, ObjectTypes, InChannel, HashTypes
<1>9. OrderInv'
  BY <1>1, <1>5, <1>6 DEF OrderInv
<1>10. MatrixInv'
  <2>1. UNCHANGED <<msgs, latest, matrix, reading>> /\ w1'.pc # "reseed"
    BY <1>2, <1>5, <1>6
  <2>2. QED
    BY <1>1, <2>1, MatrixKept
<1>11. QED
  BY <1>7, <1>8, <1>9, <1>10 DEF FeedInv

\* worker1 puts its object back, and the others keep theirs.
LEMMA ReleaseKeeps ==
    ASSUME FeedInv, Release, w1.pc # "idle"
    PROVE  NodeInv' /\ HolderInv' /\ OrderInv' /\ w1'.pc = "idle" /\ msgs' = msgs /\ latest' = latest
<1>1. NodeInv /\ HolderInv /\ OrderInv
  BY DEF FeedInv
<1> DEFINE o == w1.obj
<1>2. /\ UNCHANGED <<node, rd, events, latest>> /\ Put(o)
      /\ w1' = [pc |-> "idle", obj |-> NoObj, hash |-> NoHash]
  BY DEF Release
<1>3. o \in Objs /\ free[o] = 0 /\ rd.obj # o /\ ~ InChannel(o) /\ NoObj \notin Objs
  <2>1. o \in Objs
    BY <1>1 DEF HolderInv, ObjectTypes
  <2>2. QED
    BY <1>1, <2>1, ConstantsTyped DEF HolderInv
<1>4. /\ events' = events /\ rd' = rd /\ msgs' = msgs /\ wire' = wire
      /\ latest' = latest /\ w1'.obj = NoObj /\ w1'.pc = "idle"
  BY <1>2 DEF node
<1>5. NodeInv'
  BY <1>1, <1>2, NodeKept
<1>6. /\ free' \in [Objs -> Nat] /\ holds' \in [Objs -> 0..MaxLogs]
      /\ \A x \in Objs : /\ free'[x] = IF x = o THEN 1 ELSE free[x]
                         /\ x # o => holds'[x] = holds[x]
  BY <1>1, <1>2, <1>3, PutBack
<1>7. ObjectTypes'
  BY <1>1, <1>2, <1>4, <1>6 DEF HolderInv, ObjectTypes, HashTypes
<1>8. HolderInv'
  BY <1>1, <1>3, <1>4, <1>6, <1>7 DEF HolderInv, InChannel
<1>9. \A i \in 1..Len(events) : events[i] # o /\ events[i] \in Objs
  BY <1>1, <1>3, InUse DEF InChannel
<1>10. OrderInv'
  <2>1. \A x \in Objs : free'[x] = 0 => holds'[x] \in 1..Len(msgs)
    BY <1>1, <1>6 DEF OrderInv
  <2>2. \A i \in 1..Len(events) : holds'[events[i]] = holds[events[i]]
    BY <1>6, <1>9
  <2>3. rd.obj \in Objs => holds'[rd.obj] = holds[rd.obj]
    BY <1>3, <1>6
  <2>4. QED
    BY <1>1, <1>3, <1>4, <2>1, <2>2, <2>3 DEF OrderInv
<1>11. QED
  BY <1>4, <1>5, <1>8, <1>10

LEMMA HashFailsKeeps ==
    ASSUME FeedInv, HashFails \/ Skip
    PROVE  FeedInv'
<1>1. Release /\ UNCHANGED <<matrix, reading>> /\ w1.pc # "idle" /\ NodeInv /\ MatrixInv
  BY DEF HashFails, Skip, FeedInv
<1>2. NodeInv' /\ HolderInv' /\ OrderInv' /\ w1'.pc = "idle" /\ msgs' = msgs /\ latest' = latest
  BY <1>1, ReleaseKeeps
<1>3. MatrixInv'
  BY <1>1, <1>2, MatrixKept
<1>4. QED
  BY <1>2, <1>3 DEF FeedInv

LEMMA UnknownTyped ==
    /\ Unknown.by = NoHash /\ Unknown.by.n = 0 /\ Unknown.seen = {} /\ Unknown.snap = 0
    /\ \A S : 0 \in S => Unknown \in PoolRecords(S)
  BY HashFacts DEF Unknown, NoHash, PoolRecords

\* Clear leaves no pool that took anything from a log.
LEMMA ClearMatrixKeeps ==
    ASSUME FeedInv, ClearMatrix
    PROVE  FeedInv'
<1>1. NodeInv /\ HolderInv /\ OrderInv /\ MatrixInv
  BY DEF FeedInv
<1>2. /\ UNCHANGED <<node, rd, objects, latest, reading>>
      /\ w1.pc = "check"
      /\ mx' = [p \in Pools |-> Unknown]
      /\ last' = [last EXCEPT !.n = 0]
      /\ w1' = [w1 EXCEPT !.pc = "reseed"]
  BY DEF ClearMatrix
<1>3. w1 \in [pc : {"hash", "check", "reseed"}, obj : Objs, hash : HashTypes]
  BY <1>1, <1>2 DEF HolderInv, ObjectTypes
<1>4. /\ w1' \in [pc : {"hash", "check", "reseed"}, obj : Objs, hash : HashTypes]
      /\ w1'.obj = w1.obj
  BY <1>2, <1>3
<1>5. /\ free' = free /\ holds' = holds /\ events' = events /\ rd' = rd
      /\ msgs' = msgs /\ wire' = wire /\ latest' = latest /\ reading' = reading
  BY <1>2 DEF node, objects
<1>6. NodeInv'
  BY <1>1, <1>2, NodeKept
<1>7. HolderInv'
  BY <1>1, <1>4, <1>5 DEF HolderInv, ObjectTypes, InChannel, HashTypes
<1>8. OrderInv'
  BY <1>1, <1>4, <1>5 DEF OrderInv
<1>9. MatrixInv'
  <2>1. last' \in HashTypes /\ last'.n = 0
    <3>1. last \in HashTypes
      BY <1>1 DEF MatrixInv
    <3>2. last' = [n |-> 0, fork |-> last.fork] /\ last.fork \in 0..MaxForks
      BY <1>2, <3>1 DEF HashTypes
    <3>3. QED
      BY <3>2, ConstantsTyped DEF HashTypes
  <2>2. {last, latest}' \subseteq HashTypes'
    BY <1>1, <1>5, <2>1 DEF MatrixInv, HashTypes
  <2>3. \A p \in Pools : mx'[p] = Unknown
    BY <1>2
  <2>4. mx' \in [Pools -> PoolRecords({0})]
    BY <1>2, UnknownTyped
  <2>5. PICK T : reading \in [Pools -> PoolRecords(T)]
    BY <1>1 DEF MatrixInv
  <2>6. /\ \E S : mx' \in [Pools -> PoolRecords(S)]'
        /\ \E S : reading' \in [Pools -> PoolRecords(S)]'
    BY <1>5, <2>4, <2>5 DEF PoolRecords, HashTypes
  <2>7. Len(msgs) \in Nat
    BY <1>1 DEF NodeInv
  <2>8. \A p \in Pools : /\ mx'[p].seen = {} /\ mx'[p].snap = 0 /\ mx'[p].by.n = 0
                         /\ mx'[p] = Unknown
    BY <2>3, UnknownTyped
  <2>9. Unknown' = Unknown
    BY DEF Unknown, NoHash
  <2>10. SameFork'
    BY <2>8 DEF SameFork
  <2>11. \A p \in Pools :
          /\ mx'[p].seen \subseteq 1..Len(msgs') /\ mx'[p].snap <= Len(msgs')
          /\ mx'[p] # Unknown => mx'[p].known
          /\ reading'[p].seen = {} /\ reading'[p].by = NoHash /\ reading'[p].snap <= Len(msgs')
    BY <1>1, <1>5, <2>7, <2>8 DEF MatrixInv
  <2>12. QED
    BY <2>1, <2>2, <2>6, <2>9, <2>10, <2>11 DEF MatrixInv
<1>10. QED
  BY <1>6, <1>7, <1>8, <1>9 DEF FeedInv

LEMMA ReseedKeeps ==
    ASSUME FeedInv, Reseed
    PROVE  FeedInv'
<1>1. NodeInv /\ HolderInv /\ OrderInv /\ MatrixInv
  BY DEF FeedInv
<1>2. w1.pc = "reseed" /\ last' = w1.hash /\ Release /\ mx' = mx /\ reading' = reading
  BY DEF Reseed
<1>3. NodeInv' /\ HolderInv' /\ OrderInv' /\ w1'.pc = "idle" /\ msgs' = msgs /\ latest' = latest
  BY <1>2, ReleaseKeeps
<1>4. last' \in HashTypes /\ last.n = 0 /\ last \in HashTypes
  BY <1>1, <1>2 DEF HolderInv, ObjectTypes, MatrixInv
<1>5. PICK S : mx \in [Pools -> PoolRecords(S)]
  BY <1>1 DEF MatrixInv
<1>6. \A p \in Pools : mx[p].by.n = 0
  <2>1. SUFFICES ASSUME NEW p \in Pools PROVE mx[p].by.n = 0
    OBVIOUS
  <2>2. mx[p].by \in HashTypes
    BY <1>5 DEF PoolRecords
  <2>3. mx[p].by.n \in Nat
    BY <2>2, HashFacts
  <2>4. mx[p].by.n > 0 => mx[p].by.n < last.n \/ mx[p].by = last
    BY <1>1 DEF MatrixInv, SameFork
  <2>5. QED
    BY <1>4, <2>3, <2>4
<1>7. SameFork'
  BY <1>2, <1>6 DEF SameFork
<1>8. PICK T : reading \in [Pools -> PoolRecords(T)]
  BY <1>1 DEF MatrixInv
<1>9. mx' \in [Pools -> PoolRecords(S)]' /\ reading' \in [Pools -> PoolRecords(T)]'
  BY <1>2, <1>5, <1>8 DEF PoolRecords, HashTypes
<1>10. {last, latest}' \subseteq HashTypes'
  BY <1>1, <1>3, <1>4 DEF MatrixInv, HashTypes
<1>11. MatrixInv'
  BY <1>1, <1>2, <1>3, <1>7, <1>9, <1>10 DEF MatrixInv
<1>12. QED
  BY <1>3, <1>11 DEF FeedInv

\* The log's block is not behind the matrix: every pool is at it or below.
LEMMA ApplyKeeps ==
    ASSUME FeedInv, Apply
    PROVE  FeedInv'
<1>1. NodeInv /\ HolderInv /\ OrderInv /\ MatrixInv
  BY DEF FeedInv
<1> DEFINE q == Log.pool  h == w1.hash
<1>2. /\ w1.pc = "check" /\ ~ IsReorg(h) /\ mx[q].known /\ Release
      /\ mx' = [mx EXCEPT ![q] = Updated(q)]
      /\ last' = h /\ reading' = reading
  BY DEF Apply
<1>3. NodeInv' /\ HolderInv' /\ OrderInv' /\ w1'.pc = "idle" /\ msgs' = msgs /\ latest' = latest
  BY <1>2, ReleaseKeeps
<1>4. w1.obj \in Objs /\ h \in HashTypes /\ last \in HashTypes
  BY <1>1, <1>2 DEF HolderInv, ObjectTypes, MatrixInv
<1>5. holds[w1.obj] \in 1..Len(msgs) /\ q \in Pools /\ Len(msgs) \in Nat
  BY <1>1, <1>4, LogTyped DEF NodeInv
<1>6. PICK S : mx \in [Pools -> PoolRecords(S)]
  BY <1>1 DEF MatrixInv
<1> DEFINE st == IF q \in V3Pools THEN Log.val ELSE UpdateV2(mx[q].st, Log.val.in, Log.val.out)
           new == [mx[q] EXCEPT !.st = st, !.seen = mx[q].seen \cup {holds[w1.obj]}, !.by = h]
<1>7. Updated(q) = new
  BY DEF Updated
<1> HIDE DEF st, q, h
<1>8. mx[q] \in PoolRecords(S)
  BY <1>5, <1>6
<1>9. new \in PoolRecords(S \cup {st}) /\ new.by = h /\ new.snap = mx[q].snap /\ new.known = mx[q].known
      /\ new.seen = mx[q].seen \cup {holds[w1.obj]}
  <2>1. holds[w1.obj] \in Nat
    BY <1>5
  <2>2. QED
    BY <1>4, <1>8, <2>1 DEF PoolRecords
<1> HIDE DEF new
<1>10. \A p \in Pools : mx'[p] = IF p = q THEN new ELSE mx[p]
  BY <1>2, <1>6, <1>7
<1>11. mx' \in [Pools -> PoolRecords(S \cup {st})]
  <2>1. PoolRecords(S) \subseteq PoolRecords(S \cup {st})
    BY DEF PoolRecords
  <2>2. QED
    BY <1>2, <1>6, <1>7, <1>9, <2>1
<1>12. SameFork'
  <2>1. SUFFICES ASSUME NEW p \in Pools, mx'[p].by.n > 0
                 PROVE  mx'[p].by.n < h.n \/ mx'[p].by = h
    BY <1>2 DEF SameFork
  <2>2. CASE p = q
    BY <1>9, <1>10, <2>2
  <2>3. CASE p # q
    <3>1. mx'[p] = mx[p] /\ mx[p].by \in HashTypes
      BY <1>6, <1>10, <2>3 DEF PoolRecords
    <3>2. mx[p].by.n < last.n \/ mx[p].by = last
      BY <1>1, <2>1, <3>1 DEF MatrixInv, SameFork
    <3>3. last.n = 0 \/ h.n > last.n \/ h = last
      BY <1>2, <1>4, HashFacts DEF IsReorg
    <3>4. mx[p].by.n \in Nat /\ last.n \in Nat /\ h.n \in Nat
      BY <1>4, <3>1, HashFacts
    <3>5. QED
      BY <2>1, <3>1, <3>2, <3>3, <3>4
  <2>4. QED
    BY <2>2, <2>3
<1>13. PICK T : reading \in [Pools -> PoolRecords(T)]
  BY <1>1 DEF MatrixInv
<1>14. /\ \E U : mx' \in [Pools -> PoolRecords(U)]'
       /\ \E U : reading' \in [Pools -> PoolRecords(U)]'
  BY <1>2, <1>11, <1>13 DEF PoolRecords, HashTypes
<1>15. {last, latest}' \subseteq HashTypes'
  BY <1>1, <1>2, <1>3, <1>4 DEF MatrixInv, HashTypes
<1>16. \A p \in Pools :
          /\ mx'[p].seen \subseteq 1..Len(msgs') /\ mx'[p].snap <= Len(msgs')
          /\ mx'[p] # Unknown => mx'[p].known
  BY <1>1, <1>2, <1>3, <1>5, <1>9, <1>10 DEF MatrixInv
<1>17. Unknown' = Unknown /\ NoHash' = NoHash
  BY DEF Unknown, NoHash
<1>18. MatrixInv'
  BY <1>1, <1>2, <1>3, <1>12, <1>14, <1>15, <1>16, <1>17 DEF MatrixInv
<1>19. QED
  BY <1>3, <1>18 DEF FeedInv

-----------------------------------------------------------------------------
(* The gatekeeper.                                                            *)

LEMMA ObjectsKept ==
    ASSUME FeedInv, UNCHANGED <<node, rd, objects, w1>>
    PROVE  NodeInv' /\ HolderInv' /\ OrderInv' /\ msgs' = msgs
<1>1. NodeInv /\ HolderInv /\ OrderInv
  BY DEF FeedInv
<1>2. /\ free' = free /\ holds' = holds /\ events' = events /\ rd' = rd /\ w1' = w1
      /\ msgs' = msgs /\ wire' = wire
  BY DEF node, objects
<1>3. NodeInv'
  BY <1>1, NodeKept
<1>4. HolderInv'
  BY <1>1, <1>2 DEF HolderInv, ObjectTypes, InChannel, HashTypes
<1>5. OrderInv'
  BY <1>1, <1>2 DEF OrderInv
<1>6. QED
  BY <1>2, <1>3, <1>4, <1>5

LEMMA ReadPoolKeeps ==
    ASSUME FeedInv, NEW q \in Pools, ReadPool(q)
    PROVE  FeedInv'
<1>1. NodeInv /\ HolderInv /\ OrderInv /\ MatrixInv
  BY DEF FeedInv
<1> DEFINE st == Tip.st[q]
           new == [Unknown EXCEPT !.known = TRUE, !.st = st, !.snap = Len(msgs)]
<1>2. /\ UNCHANGED <<node, rd, objects, w1, latest, matrix>>
      /\ reading' = [reading EXCEPT ![q] = new]
  BY DEF ReadPool
<1>3. NodeInv' /\ HolderInv' /\ OrderInv' /\ msgs' = msgs
  BY <1>2, ObjectsKept
<1>4. last' = last /\ mx' = mx /\ latest' = latest /\ w1' = w1
  BY <1>2 DEF matrix
<1>5. Len(msgs) \in Nat
  BY <1>1 DEF NodeInv
<1> HIDE DEF st
<1>6. Unknown \in PoolRecords({0}) /\ Unknown.seen = {} /\ Unknown.by = NoHash
  BY UnknownTyped
<1>7. new \in PoolRecords({st}) /\ new.seen = {} /\ new.by = NoHash /\ new.snap = Len(msgs)
  BY <1>5, <1>6 DEF PoolRecords
<1> HIDE DEF new
<1>8. PICK T : reading \in [Pools -> PoolRecords(T)]
  BY <1>1 DEF MatrixInv
<1>9. \A p \in Pools : reading'[p] = IF p = q THEN new ELSE reading[p]
  BY <1>2, <1>8
<1>10. reading' \in [Pools -> PoolRecords(T \cup {st})]
  <2>1. PoolRecords(T) \subseteq PoolRecords(T \cup {st}) /\ PoolRecords({st}) \subseteq PoolRecords(T \cup {st})
    BY DEF PoolRecords
  <2>2. QED
    BY <1>2, <1>7, <1>8, <2>1
<1>11. PICK S : mx \in [Pools -> PoolRecords(S)]
  BY <1>1 DEF MatrixInv
<1>12. /\ \E U : mx' \in [Pools -> PoolRecords(U)]'
       /\ \E U : reading' \in [Pools -> PoolRecords(U)]'
  BY <1>4, <1>10, <1>11 DEF PoolRecords, HashTypes
<1>13. {last, latest}' \subseteq HashTypes'
  BY <1>1, <1>4 DEF MatrixInv, HashTypes
<1>14. SameFork'
  BY <1>1, <1>4 DEF MatrixInv, SameFork
<1>15. \A p \in Pools :
          reading'[p].seen = {} /\ reading'[p].by = NoHash /\ reading'[p].snap <= Len(msgs)
  BY <1>1, <1>5, <1>7, <1>9 DEF MatrixInv
<1>16. Unknown' = Unknown /\ NoHash' = NoHash
  BY DEF Unknown, NoHash
<1>17. MatrixInv'
  BY <1>1, <1>3, <1>4, <1>12, <1>13, <1>14, <1>15, <1>16 DEF MatrixInv
<1>18. QED
  BY <1>3, <1>17 DEF FeedInv

\* What is registered was read before, so no log has gone into it.
LEMMA RegisterPoolKeeps ==
    ASSUME FeedInv, NEW q \in Pools, RegisterPool(q)
    PROVE  FeedInv'
<1>1. NodeInv /\ HolderInv /\ OrderInv /\ MatrixInv
  BY DEF FeedInv
<1>2. /\ UNCHANGED <<node, rd, objects, w1, latest, last>>
      /\ reading[q].known
      /\ mx' = [mx EXCEPT ![q] = IF mx[q].known THEN mx[q] ELSE reading[q]]
      /\ reading' = [reading EXCEPT ![q] = Unknown]
  BY DEF RegisterPool
<1>3. NodeInv' /\ HolderInv' /\ OrderInv' /\ msgs' = msgs
  BY <1>2, ObjectsKept
<1>4. PICK S : mx \in [Pools -> PoolRecords(S)]
  BY <1>1 DEF MatrixInv
<1>5. PICK T : reading \in [Pools -> PoolRecords(T)]
  BY <1>1 DEF MatrixInv
<1>6. \A p \in Pools : mx'[p] = mx[p] \/ (p = q /\ mx'[p] = reading[p])
  BY <1>2, <1>4
<1>7. \A p \in Pools : reading'[p] = reading[p] \/ reading'[p] = Unknown
  BY <1>2, <1>5
<1>8. mx' \in [Pools -> PoolRecords(S \cup T)]
  <2>1. PoolRecords(S) \subseteq PoolRecords(S \cup T) /\ PoolRecords(T) \subseteq PoolRecords(S \cup T)
    BY DEF PoolRecords
  <2>2. QED
    BY <1>2, <1>4, <1>5, <2>1
<1>9. reading' \in [Pools -> PoolRecords(T \cup {0})]
  <2>1. PoolRecords(T) \subseteq PoolRecords(T \cup {0}) /\ Unknown \in PoolRecords(T \cup {0})
    <3>1. Unknown \in PoolRecords(T \cup {0})
      BY UnknownTyped
    <3>2. QED
      BY <3>1 DEF PoolRecords
  <2>2. QED
    BY <1>2, <1>5, <2>1
<1>10. /\ \E U : mx' \in [Pools -> PoolRecords(U)]'
       /\ \E U : reading' \in [Pools -> PoolRecords(U)]'
  BY <1>8, <1>9 DEF PoolRecords, HashTypes
<1>11. {last, latest}' \subseteq HashTypes'
  BY <1>1, <1>2 DEF MatrixInv, HashTypes
<1>12. SameFork'
  <2>1. SUFFICES ASSUME NEW p \in Pools, mx'[p].by.n > 0
                 PROVE  mx'[p].by.n < last.n \/ mx'[p].by = last
    BY <1>2 DEF SameFork
  <2>2. CASE mx'[p] = mx[p]
    BY <1>1, <2>1, <2>2 DEF MatrixInv, SameFork
  <2>3. CASE mx'[p] = reading[p]
    <3>1. mx'[p].by.n = 0
      BY <1>1, <2>3 DEF MatrixInv, NoHash
    <3>2. QED
      BY <2>1, <3>1
  <2>4. QED
    BY <1>6, <2>2, <2>3
<1>13. Len(msgs) \in Nat
  BY <1>1 DEF NodeInv
<1>14. \A p \in Pools :
          /\ mx'[p].seen \subseteq 1..Len(msgs) /\ mx'[p].snap <= Len(msgs)
          /\ mx'[p] # Unknown => mx'[p].known
          /\ reading'[p].seen = {} /\ reading'[p].by = NoHash /\ reading'[p].snap <= Len(msgs)
  <2>1. SUFFICES ASSUME NEW p \in Pools
                 PROVE  /\ mx'[p].seen \subseteq 1..Len(msgs) /\ mx'[p].snap <= Len(msgs)
                        /\ mx'[p] # Unknown => mx'[p].known
                        /\ reading'[p].seen = {} /\ reading'[p].by = NoHash
                        /\ reading'[p].snap <= Len(msgs)
    OBVIOUS
  <2>2. reading'[p].seen = {} /\ reading'[p].by = NoHash /\ reading'[p].snap <= Len(msgs)
    BY <1>1, <1>7, <1>13, UnknownTyped DEF MatrixInv
  <2>3. mx'[p].seen \subseteq 1..Len(msgs) /\ mx'[p].snap <= Len(msgs)
    BY <1>1, <1>6 DEF MatrixInv
  <2>4. mx'[p] # Unknown => mx'[p].known
    BY <1>1, <1>2, <1>6 DEF MatrixInv
  <2>5. QED
    BY <2>2, <2>3, <2>4
<1>15. Unknown' = Unknown /\ NoHash' = NoHash
  BY DEF Unknown, NoHash
<1>16. w1' = w1 /\ last' = last
  BY <1>2
<1>17. MatrixInv'
  BY <1>1, <1>3, <1>10, <1>11, <1>12, <1>14, <1>15, <1>16 DEF MatrixInv
<1>18. QED
  BY <1>3, <1>17 DEF FeedInv

-----------------------------------------------------------------------------
(* The invariant.                                                             *)

LEMMA InitInv == Init => FeedInv
<1> SUFFICES ASSUME Init PROVE FeedInv
  OBVIOUS
<1>1. NodeInv
  <2>1. Len(chain) = 1 /\ chain[1] = Genesis /\ chain \in Seq({Genesis})
    BY DEF Init
  <2>2. Genesis.fork = 0 /\ Genesis.logs = <<>>
    BY DEF Genesis
  <2>3. \A V : <<>> \in Seq(LogRecords({1}, V)) /\ <<>> \in Seq(LogRecords(1..1, V))
    BY EmptySeq
  <2>4. <<>> \in Seq(1..0) /\ Len(<<>>) = 0
    BY EmptySeq
  <2>5. msgs = <<>> /\ wire = <<>> /\ losses = 0
    BY DEF Init
  <2>6. \A i \in 1..Len(chain) : i = 1
    BY <2>1
  <2>7. \A i \in 1..Len(chain) : \E V : chain[i].logs \in Seq(LogRecords({i}, V))
    BY <2>1, <2>2, <2>3, <2>6
  <2>8. \A i \in 1..Len(chain) : chain[i].fork \in 0..MaxForks
    BY <2>1, <2>2, <2>6, ConstantsTyped
  <2>9. \E V : msgs \in Seq(LogRecords(1..Len(chain), V))
    BY <2>1, <2>3, <2>5
  <2>10. Len(chain) \in 1..MaxHeight /\ Len(msgs) <= MaxLogs /\ losses \in 0..MaxLosses
    BY <2>1, <2>4, <2>5, ConstantsTyped
  <2>11. wire \in Seq(1..Len(msgs))
    BY <2>4, <2>5
  <2>12. QED
    BY <2>1, <2>7, <2>8, <2>9, <2>10, <2>11 DEF NodeInv
<1>2. Len(events) = 0 /\ events \in Seq(Objs) /\ Len(wire) = 0 /\ rd.obj = NoObj /\ w1.obj = NoObj
  BY EmptySeq DEF Init
<1>3. HolderInv
  <2>1. ObjectTypes
    <3>1. rd = [pc |-> "dial", obj |-> NoObj] /\ w1 = [pc |-> "idle", obj |-> NoObj, hash |-> NoHash]
      BY DEF Init
    <3>2. free \in [Objs -> Nat] /\ holds \in [Objs -> 0..MaxLogs]
      BY ConstantsTyped DEF Init
    <3>3. QED
      BY <1>2, <3>1, <3>2, ConstantsTyped DEF ObjectTypes
  <2>2. \A o \in Objs : free[o] = 1 /\ ~ InChannel(o)
    BY <1>2 DEF Init, InChannel
  <2>3. QED
    BY <1>2, <2>1, <2>2, ConstantsTyped DEF HolderInv
<1>4. OrderInv
  BY <1>2, ConstantsTyped DEF OrderInv, Init
<1>5. MatrixInv
  <2>1. last = NoHash /\ latest = NoHash /\ w1.pc # "reseed" /\ msgs = <<>>
    BY DEF Init
  <2>2. mx = [p \in Pools |-> Unknown] /\ reading = [p \in Pools |-> Unknown]
    BY DEF Init
  <2>3. mx \in [Pools -> PoolRecords({0})] /\ reading \in [Pools -> PoolRecords({0})]
    BY <2>2, UnknownTyped
  <2>4. \A p \in Pools : mx[p] = Unknown /\ reading[p] = Unknown
    BY <2>2
  <2>5. SameFork
    BY <2>4, UnknownTyped DEF SameFork
  <2>6. Len(msgs) = 0
    BY <2>1
  <2>7. QED
    BY <2>1, <2>3, <2>4, <2>5, <2>6, UnknownTyped, HashFacts DEF MatrixInv
<1>6. QED
  BY <1>1, <1>3, <1>4, <1>5 DEF FeedInv

LEMMA NextKeeps == FeedInv /\ [Next]_vars => FeedInv'
<1> SUFFICES ASSUME FeedInv, [Next]_vars PROVE FeedInv'
  OBVIOUS
<1>1. CASE NewBlock
  BY <1>1, NewBlockKeeps
<1>2. CASE Reorg
  BY <1>2, ReorgKeeps
<1>3. CASE CacheHead
  BY <1>3, CacheHeadKeeps
<1>4. CASE Disconnect
  BY <1>4, DisconnectKeeps
<1>5. CASE Reader
  <2>1. CASE Connect \/ ConnectFails \/ BackOff
    BY <2>1, DialKeeps
  <2>2. ASSUME NEW o \in Objs, Read(o) PROVE FeedInv'
    BY <2>2, ReadKeeps
  <2>3. CASE Forward
    BY <2>3, ForwardKeeps
  <2>4. CASE Discard
    BY <2>4, DiscardKeeps
  <2>5. QED
    BY <1>5, <2>1, <2>2, <2>3, <2>4 DEF Reader
<1>6. CASE Worker1
  <2>1. CASE TakeLog
    BY <2>1, TakeLogKeeps
  <2>2. CASE LearnHash
    BY <2>2, LearnHashKeeps
  <2>3. CASE HashFails \/ Skip
    BY <2>3, HashFailsKeeps
  <2>4. CASE ClearMatrix
    BY <2>4, ClearMatrixKeeps
  <2>5. CASE Reseed
    BY <2>5, ReseedKeeps
  <2>6. CASE Apply
    BY <2>6, ApplyKeeps
  <2>7. QED
    BY <1>6, <2>1, <2>2, <2>3, <2>4, <2>5, <2>6 DEF Worker1
<1>7. CASE Gatekeeper
  BY <1>7, ReadPoolKeeps, RegisterPoolKeeps DEF Gatekeeper
<1>8. CASE UNCHANGED vars
  <2>1. /\ UNCHANGED <<node, rd, objects, w1, latest, matrix, reading>>
    BY <1>8 DEF vars
  <2>2. NodeInv' /\ HolderInv' /\ OrderInv' /\ msgs' = msgs
    BY <2>1, ObjectsKept
  <2>3. MatrixInv'
    <3>1. Len(msgs) \in Nat /\ MatrixInv
      BY DEF FeedInv, NodeInv
    <3>2. QED
      BY <2>1, <2>2, <3>1, MoreLogs
  <2>4. QED
    BY <2>2, <2>3 DEF FeedInv
<1>9. QED
  BY <1>1, <1>2, <1>3, <1>4, <1>5, <1>6, <1>7, <1>8 DEF Next

LEMMA SpecInv == Spec => []FeedInv
<1>1. Init => FeedInv
  BY InitInv
<1>2. FeedInv /\ [Next]_vars => FeedInv'
  BY NextKeeps
<1>3. QED
  BY <1>1, <1>2, PTL DEF Spec

\* Every variable has its type, whatever the node sends and however often the
\* connection breaks (websocket.go:223-342, main.go:915-1061, matrix.go:174-223).
THEOREM FeedIsTyped == Spec => []TypeOK
<1>1. FeedInv => TypeOK
  <2> SUFFICES ASSUME NodeInv, HolderInv, MatrixInv PROVE TypeOK
    BY DEF FeedInv
  <2>1. NodeTypes
    <3>1. PICK V : msgs \in Seq(LogRecords(1..Len(chain), V))
      BY DEF NodeInv
    <3>2. \A i \in DOMAIN msgs : msgs[i].pool \in Pools /\ msgs[i].n \in 1..Len(chain)
      <4> SUFFICES ASSUME NEW i \in DOMAIN msgs
                   PROVE  msgs[i].pool \in Pools /\ msgs[i].n \in 1..Len(chain)
        OBVIOUS
      <4>1. msgs[i] \in LogRecords(1..Len(chain), V)
        BY <3>1
      <4>2. QED
        BY <4>1 DEF LogRecords
    <3>3. DOMAIN msgs = 1..Len(msgs)
      BY <3>1
    <3>4. wire \in Seq(1..Len(msgs))
      BY DEF NodeInv
    <3>5. \A i \in DOMAIN wire : wire[i] \in DOMAIN msgs
      BY <3>3, <3>4
    <3>6. losses <= MaxLosses
      BY ConstantsTyped DEF NodeInv
    <3>7. QED
      BY <3>2, <3>5, <3>6 DEF NodeTypes, NodeInv
  <2>2. MatrixTypes
    <3>1. PICK S : mx \in [Pools -> PoolRecords(S)]
      BY DEF MatrixInv
    <3>2. \A p \in Pools : mx[p].by \in HashTypes
      BY <3>1 DEF PoolRecords
    <3>3. PICK V : msgs \in Seq(LogRecords(1..Len(chain), V))
      BY DEF NodeInv
    <3>4. DOMAIN msgs = 1..Len(msgs)
      BY <3>3
    <3>5. QED
      BY <3>2, <3>4 DEF MatrixTypes, MatrixInv
  <2>3. QED
    BY <2>1, <2>2 DEF TypeOK, HolderInv
<1>2. QED
  BY <1>1, SpecInv, PTL

\* Every SwapLog has one holder, or is in the pool once: no exit of readLoop or of
\* worker1 forgets an object or puts one back that somebody still uses
\* (websocket.go:316-327, main.go:931-1061).
THEOREM ObjectsHaveOneHolder == Spec => []OneHolder
<1>1. FeedInv => OneHolder
  <2> SUFFICES ASSUME HolderInv, NEW o \in Objs
               PROVE  free[o] + (IF rd.obj = o THEN 1 ELSE 0) + (IF w1.obj = o THEN 1 ELSE 0)
                        + Cardinality({i \in DOMAIN events : events[i] = o}) = 1
    BY DEF FeedInv, OneHolder
  <2> DEFINE places == {i \in DOMAIN events : events[i] = o}
  <2>1. DOMAIN events = 1..Len(events)
    BY DEF HolderInv, ObjectTypes
  <2>2. CASE InChannel(o)
    <3>1. PICK i \in 1..Len(events) : events[i] = o
      BY <2>2 DEF InChannel
    <3>2. places = {i}
      BY <2>1, <3>1 DEF HolderInv
    <3>3. Cardinality(places) = 1
      BY <3>2, FS_Singleton
    <3>4. free[o] = 0 /\ rd.obj # o /\ w1.obj # o
      BY <2>2 DEF HolderInv
    <3>5. QED
      BY <3>3, <3>4
  <2>3. CASE ~ InChannel(o)
    <3>1. places = {}
      BY <2>1, <2>3 DEF InChannel
    <3>2. Cardinality(places) = 0
      BY <3>1, FS_EmptySet
    <3>3. \/ free[o] = 1 /\ rd.obj # o /\ w1.obj # o
          \/ free[o] = 0 /\ rd.obj = o /\ w1.obj # o
          \/ free[o] = 0 /\ rd.obj # o /\ w1.obj = o
      BY <2>3 DEF HolderInv
    <3>4. QED
      BY <3>2, <3>3
  <2>4. QED
    BY <2>2, <2>3
<1>2. QED
  BY <1>1, SpecInv, PTL

\* Across reorgs and what the gatekeeper registers meanwhile, no pool has taken a log
\* of a block above lastBlock, nor one of its number under another hash
\* (matrix.go:174-198, main.go:939-952).
THEOREM MatrixIsOfOneFork == Spec => []SameFork
<1>1. FeedInv => SameFork
  BY DEF FeedInv, MatrixInv
<1>2. QED
  BY <1>1, SpecInv, PTL

\* Sequences of numbers that only grow.
Increasing(s) == \A i, j \in DOMAIN s : i < j => s[i] < s[j]

LEMMA ConcatIncreasing ==
    ASSUME NEW s \in Seq(Nat), NEW t \in Seq(Nat), Increasing(s), Increasing(t),
           \A i \in 1..Len(s), j \in 1..Len(t) : s[i] < t[j]
    PROVE  Increasing(s \o t)
<1>1. /\ Len(s) \in Nat /\ Len(t) \in Nat /\ Len(s \o t) = Len(s) + Len(t)
      /\ DOMAIN s = 1..Len(s) /\ DOMAIN t = 1..Len(t) /\ DOMAIN (s \o t) = 1..Len(s \o t)
  OBVIOUS
<1>2. \A i \in 1..Len(s \o t) : (s \o t)[i] = IF i <= Len(s) THEN s[i] ELSE t[i - Len(s)]
  BY ConcatFacts
<1> DEFINE u == s \o t
<1>3. \A i, j \in 1..Len(s) : i < j => s[i] < s[j]
  BY <1>1 DEF Increasing
<1>4. \A i, j \in 1..Len(t) : i < j => t[i] < t[j]
  BY <1>1 DEF Increasing
<1> HIDE DEF u
<1>5. SUFFICES ASSUME NEW i \in 1..Len(u), NEW j \in 1..Len(u), i < j
               PROVE  u[i] < u[j]
  BY <1>1 DEF Increasing, u
<1>6. CASE j <= Len(s)
  <2>1. i \in 1..Len(s) /\ j \in 1..Len(s) /\ i <= Len(s)
    BY <1>1, <1>5, <1>6 DEF u
  <2>2. u[i] = s[i] /\ u[j] = s[j]
    BY <1>2, <1>6, <2>1 DEF u
  <2>3. QED
    BY <1>3, <1>5, <2>1, <2>2
<1>7. CASE i <= Len(s) /\ ~ (j <= Len(s))
  <2>1. i \in 1..Len(s) /\ j - Len(s) \in 1..Len(t)
    BY <1>1, <1>7 DEF u
  <2>2. u[i] = s[i] /\ u[j] = t[j - Len(s)]
    BY <1>2, <1>7 DEF u
  <2>3. QED
    BY <2>1, <2>2
<1>8. CASE ~ (i <= Len(s)) /\ ~ (j <= Len(s))
  <2>1. i - Len(s) \in 1..Len(t) /\ j - Len(s) \in 1..Len(t) /\ i - Len(s) < j - Len(s)
    BY <1>1, <1>5, <1>8 DEF u
  <2>2. u[i] = t[i - Len(s)] /\ u[j] = t[j - Len(s)]
    BY <1>2, <1>8 DEF u
  <2>3. QED
    BY <1>4, <2>1, <2>2
<1>9. QED
  BY <1>1, <1>5, <1>6, <1>7, <1>8 DEF u

\* What comes after both of two sequences comes after their concatenation.
LEMMA ConcatBefore ==
    ASSUME NEW s \in Seq(Nat), NEW t \in Seq(Nat), NEW r \in Seq(Nat),
           \A i \in 1..Len(s), j \in 1..Len(r) : s[i] < r[j],
           \A i \in 1..Len(t), j \in 1..Len(r) : t[i] < r[j]
    PROVE  \A i \in 1..Len(s \o t), j \in 1..Len(r) : (s \o t)[i] < r[j]
<1> DEFINE u == s \o t
<1>1. Len(s) \in Nat /\ Len(t) \in Nat /\ Len(u) = Len(s) + Len(t)
  OBVIOUS
<1>2. \A i \in 1..Len(u) : u[i] = IF i <= Len(s) THEN s[i] ELSE t[i - Len(s)]
  BY ConcatFacts
<1> HIDE DEF u
<1>3. \A i \in 1..Len(u) : IF i <= Len(s) THEN i \in 1..Len(s) ELSE i - Len(s) \in 1..Len(t)
  BY <1>1
<1>4. \A i \in 1..Len(u), j \in 1..Len(r) : u[i] < r[j]
  BY <1>2, <1>3
<1>5. QED
  BY <1>4 DEF u

LEMMA HandFacts ==
    ASSUME NEW o, holds[o] \in Nat \/ o = NoObj
    PROVE  /\ Hand(o) \in Seq(Nat) /\ Increasing(Hand(o))
           /\ \A i \in 1..Len(Hand(o)) : o # NoObj /\ Hand(o)[i] = holds[o]
<1>1. CASE o = NoObj
  <2>1. Hand(o) = <<>>
    BY <1>1 DEF Hand
  <2>2. QED
    BY <2>1 DEF Increasing
<1>2. CASE o # NoObj
  <2>1. Hand(o) = <<holds[o]>>
    BY <1>2 DEF Hand
  <2>2. QED
    BY <1>2, <2>1 DEF Increasing
<1>3. QED
  BY <1>1, <1>2

\* Logs reach the matrix in the order the node sent them, though the objects that carry
\* them are reused and connections break in between (websocket.go:223-342).
THEOREM LogsStayInOrder == Spec => []InOrder
<1>1. FeedInv => InOrder
  <2> SUFFICES ASSUME NodeInv, HolderInv, OrderInv PROVE InOrder
    BY DEF FeedInv
  <2> DEFINE chan == [i \in 1..Len(events) |-> holds[events[i]]]
             a == Hand(w1.obj)  c == Hand(rd.obj)
  <2>1. \A o \in Objs : free[o] = 0 => holds[o] \in Nat
    BY DEF OrderInv
  <2>2. chan \in Seq(Nat) /\ Len(chan) = Len(events) /\ \A i \in 1..Len(events) : chan[i] = holds[events[i]]
    <3>1. chan \in [1..Len(events) -> Nat] /\ Len(events) \in Nat
      BY <2>1, InUse
    <3>2. QED
      BY <3>1, FunctionIsSeq
  <2>3. Increasing(chan)
    BY <2>2 DEF OrderInv, Increasing
  <2>4. /\ a \in Seq(Nat) /\ Increasing(a)
        /\ \A i \in 1..Len(a) : w1.obj \in Objs /\ a[i] = holds[w1.obj]
    BY <2>1, InUse, HandFacts
  <2>5. /\ c \in Seq(Nat) /\ Increasing(c)
        /\ \A i \in 1..Len(c) : rd.obj \in Objs /\ c[i] = holds[rd.obj]
    BY <2>1, InUse, HandFacts
  <2>6. wire \in Seq(Nat) /\ Increasing(wire)
    <3>1. wire \in Seq(1..Len(msgs)) /\ 1..Len(msgs) \subseteq Nat
      BY DEF NodeInv
    <3>2. wire \in Seq(Nat)
      BY <3>1, SeqWider
    <3>3. QED
      BY <3>2 DEF OrderInv, Increasing
  <2> HIDE DEF chan, a, c
  <2>7. \A i \in 1..Len(a), j \in 1..Len(chan) : a[i] < chan[j]
    BY <2>2, <2>4 DEF OrderInv
  <2>8. a \o chan \in Seq(Nat) /\ Increasing(a \o chan)
    BY <2>2, <2>3, <2>4, <2>7, ConcatIncreasing, ConcatProperties
  <2>9. \A i \in 1..Len(a \o chan), j \in 1..Len(c) : (a \o chan)[i] < c[j]
    <3>1. \A i \in 1..Len(a), j \in 1..Len(c) : a[i] < c[j]
      BY <2>4, <2>5 DEF OrderInv
    <3>2. \A i \in 1..Len(chan), j \in 1..Len(c) : chan[i] < c[j]
      BY <2>2, <2>5 DEF OrderInv
    <3>3. QED
      BY <2>2, <2>4, <2>5, <3>1, <3>2, ConcatBefore
  <2>10. (a \o chan) \o c \in Seq(Nat) /\ Increasing((a \o chan) \o c)
    BY <2>5, <2>8, <2>9, ConcatIncreasing, ConcatProperties
  <2>11. \A i \in 1..Len((a \o chan) \o c), j \in 1..Len(wire) : ((a \o chan) \o c)[i] < wire[j]
    <3>1. \A i \in 1..Len(a), j \in 1..Len(wire) : a[i] < wire[j]
      BY <2>4 DEF OrderInv
    <3>2. \A i \in 1..Len(chan), j \in 1..Len(wire) : chan[i] < wire[j]
      BY <2>2 DEF OrderInv
    <3>3. \A i \in 1..Len(c), j \in 1..Len(wire) : c[i] < wire[j]
      BY <2>5 DEF OrderInv
    <3>4. \A i \in 1..Len(a \o chan), j \in 1..Len(wire) : (a \o chan)[i] < wire[j]
      BY <2>2, <2>4, <2>6, <3>1, <3>2, ConcatBefore
    <3>5. QED
      BY <2>5, <2>6, <2>8, <3>3, <3>4, ConcatBefore
  <2>12. Increasing(((a \o chan) \o c) \o wire)
    BY <2>6, <2>10, <2>11, ConcatIncreasing
  <2>13. InTransit = ((a \o chan) \o c) \o wire
    BY DEF InTransit, a, chan, c
  <2>14. QED
    BY <2>12, <2>13 DEF InOrder, Increasing
<1>2. QED
  BY <1>1, SpecInv, PTL

-----------------------------------------------------------------------------
(* FollowsChain.  The states of a block's swaps, which After has by recursion:  *)
(* induction over the numbers of its swaps.                                     *)

\* Induction over a set of numbers, by counting: were n missing, the successors of the
\* members would be as many, without 0.
LEMMA Induction ==
    ASSUME NEW n \in Nat, NEW B, 0 \in B, \A k \in 0..n - 1 : k \in B => k + 1 \in B
    PROVE  n \in B
<1> DEFINE S == B \cap 0..n
           shift == [k \in S |-> k + 1]
<1>1. SUFFICES ASSUME n \notin B PROVE FALSE
  OBVIOUS
<1>2. IsFiniteSet(S)
  <2>1. IsFiniteSet(0..n)
    BY FS_Interval
  <2>2. QED
    BY <2>1, FS_Subset
<1>3. \A k \in S : k \in 0..n - 1 /\ k + 1 \in S \ {0}
  BY <1>1
<1>4. shift \in Injection(S, S \ {0})
  <2>1. shift \in [S -> S \ {0}]
    BY <1>3
  <2>2. \A j, k \in S : shift[j] = shift[k] => j = k
    BY <1>3
  <2> HIDE DEF shift, S
  <2>3. QED
    BY <2>1, <2>2 DEF Injection, IsInjective
<1> HIDE DEF shift, S
<1>5. IsFiniteSet(S \ {0}) /\ Cardinality(S \ {0}) = Cardinality(S) - 1 /\ Cardinality(S) \in Nat
  <2>1. 0 \in S
    BY DEF S
  <2>2. /\ IsFiniteSet(S \ {0})
        /\ Cardinality(S \ {0}) = IF 0 \in S THEN Cardinality(S) - 1 ELSE Cardinality(S)
    BY <1>2, FS_RemoveElement
  <2>3. Cardinality(S) \in Nat
    BY <1>2, FS_CardinalityType
  <2>4. QED
    BY <2>1, <2>2, <2>3
<1>6. Cardinality(S) <= Cardinality(S \ {0})
  BY <1>4, <1>5, FS_Injection
<1>7. QED
  BY <1>5, <1>6

\* The states of After, one by one: there is a function that has them.
LEMMA AfterSteps ==
    ASSUME NEW b \in Blocks, NEW st, NEW seq \in Nat
    PROVE  /\ Len(b) \in Nat
           /\ After(b, st, seq)[0] = st
           /\ \A i \in 1..Len(b) :
                After(b, st, seq)[i] = Swap(After(b, st, seq)[i - 1], b[i], seq + i)
<1> DEFINE N == Len(b)
           Is(f, n) == f = [i \in 0..n |-> IF i = 0 THEN st ELSE Swap(f[i - 1], b[i], seq + i)]
           B == {n \in 0..N : \E f : Is(f, n)}
<1>1. N \in Nat
  <2>1. PICK k \in 0..BlockLogs : b \in [1..k -> Swaps]
    BY DEF Blocks
  <2>2. QED
    BY <2>1, FeedAssumption
<1>2. 0 \in B
  <2>1. Is([i \in 0..0 |-> st], 0)
    OBVIOUS
  <2>2. 0 \in 0..N
    BY <1>1
  <2> HIDE DEF Is
  <2>3. QED
    BY <2>1, <2>2
<1>3. ASSUME NEW k \in 0..N - 1, k \in B PROVE k + 1 \in B
  <2>1. PICK f : Is(f, k)
    BY <1>3
  <2> DEFINE g == [i \in 0..k + 1 |-> IF i = k + 1 THEN Swap(f[k], b[k + 1], seq + (k + 1)) ELSE f[i]]
  <2>a. k \in Nat /\ k + 1 \in 0..N
    BY <1>1
  <2>b. \A i \in 0..k : f[i] = IF i = 0 THEN st ELSE Swap(f[i - 1], b[i], seq + i)
    BY <2>1
  <2>2. \A i \in 0..k + 1 : g[i] = IF i = 0 THEN st ELSE Swap(g[i - 1], b[i], seq + i)
    <3> SUFFICES ASSUME NEW i \in 0..k + 1
                 PROVE  g[i] = IF i = 0 THEN st ELSE Swap(g[i - 1], b[i], seq + i)
      OBVIOUS
    <3>1. CASE i = k + 1
      <4>1. i # 0 /\ i - 1 = k /\ k \in 0..k + 1 /\ k # k + 1
        BY <2>a, <3>1
      <4>2. g[i] = Swap(f[k], b[i], seq + i) /\ g[k] = f[k]
        BY <3>1, <4>1
      <4>3. QED
        BY <4>1, <4>2
    <3>2. CASE i # k + 1
      <4>1. i \in 0..k
        BY <2>a, <3>2
      <4>2. g[i] = f[i]
        BY <3>2
      <4>3. i # 0 => g[i - 1] = f[i - 1]
        BY <2>a, <4>1
      <4>4. QED
        BY <2>b, <4>1, <4>2, <4>3
    <3>3. QED
      BY <3>1, <3>2
  <2>3. Is(g, k + 1)
    <3>1. g = [i \in 0..k + 1 |-> g[i]]
      OBVIOUS
    <3> HIDE DEF g
    <3>2. [i \in 0..k + 1 |-> g[i]] = [i \in 0..k + 1 |-> IF i = 0 THEN st ELSE Swap(g[i - 1], b[i], seq + i)]
      BY <2>2
    <3>3. QED
      BY <3>1, <3>2
  <2> HIDE DEF Is, g
  <2>4. QED
    BY <2>a, <2>3
<1>4. N \in B
  <2> HIDE DEF B
  <2>1. QED
    BY <1>1, <1>2, <1>3, Induction
<1>5. Is(After(b, st, seq), N)
  <2>1. \E f : Is(f, N)
    BY <1>4
  <2>2. After(b, st, seq) = CHOOSE f : Is(f, N)
    BY DEF After
  <2> HIDE DEF Is
  <2>3. QED
    BY <2>1, <2>2
<1> DEFINE a == After(b, st, seq)
<1>6. \A i \in 0..N : a[i] = IF i = 0 THEN st ELSE Swap(a[i - 1], b[i], seq + i)
  <2> HIDE DEF a
  <2>1. Is(a, N)
    BY <1>5 DEF a
  <2>2. QED
    BY <2>1
<1> HIDE DEF a
<1>7. a[0] = st /\ \A i \in 1..N : a[i] = Swap(a[i - 1], b[i], seq + i)
  BY <1>1, <1>6
<1>8. QED
  BY <1>1, <1>7 DEF a

-----------------------------------------------------------------------------
(* Pools, logs and the states they lead through.                               *)

\* What a log makes of the state of its pool (Updated).
Taken(p, st, val) == IF p \in V3Pools THEN val ELSE UpdateV2(st, val.in, val.out)

\* g has the states of pool p before the logs and after each one: it stays between logs
\* of p, and does what such a log says unless that was removed.
Leads(p, logs, g) ==
    /\ \A j, k \in 0..Len(logs) :
          j <= k /\ (\A l \in j + 1..k : logs[l].pool # p) => g[j] = g[k]
    /\ \A k \in 1..Len(logs) :
          logs[k].pool = p /\ ~ logs[k].removed => g[k] = Taken(p, g[k - 1], logs[k].val)

LEMMA SwapFacts ==
    ASSUME NEW st, DOMAIN st = Pools, NEW s \in Swaps, NEW id
    PROVE  /\ DOMAIN Swap(st, s, id) = Pools
           /\ \A p \in Pools :
                Swap(st, s, id)[p] = IF p # s.pool THEN st[p]
                                     ELSE IF p \in V3Pools THEN id ELSE SwapV2(st[p], s.dir)
  BY DEF Swap

\* The swaps of a block, and the states they pass through.
LEMMA BlockFacts ==
    ASSUME NEW b \in Blocks, NEW st, DOMAIN st = Pools, NEW seq \in Nat
    PROVE  LET a == After(b, st, seq)
           IN  /\ Len(b) \in Nat
               /\ \A i \in 1..Len(b) : b[i] \in Swaps
               /\ a[0] = st
               /\ \A i \in 0..Len(b) : DOMAIN a[i] = Pools
               /\ \A i \in 1..Len(b), p \in Pools :
                    a[i][p] = IF p # b[i].pool THEN a[i - 1][p]
                              ELSE IF p \in V3Pools THEN seq + i ELSE SwapV2(a[i - 1][p], b[i].dir)
<1> DEFINE a == After(b, st, seq)
           N == Len(b)
           B == {i \in 0..N : DOMAIN a[i] = Pools}
<1>1. N \in Nat /\ a[0] = st /\ \A i \in 1..N : a[i] = Swap(a[i - 1], b[i], seq + i)
  BY AfterSteps
<1>2. \A i \in 1..N : b[i] \in Swaps
  <2>1. PICK k \in 0..BlockLogs : b \in [1..k -> Swaps]
    BY DEF Blocks
  <2>2. k \in Nat
    BY FeedAssumption
  <2>3. QED
    BY <2>1, <2>2
<1> HIDE DEF a, N
<1>3. ASSUME NEW i \in 0..N PROVE DOMAIN a[i] = Pools
  <2>1. 0 \in B
    BY <1>1
  <2>2. ASSUME NEW k \in 0..i - 1, k \in B PROVE k + 1 \in B
    <3>1. k + 1 \in 1..N /\ (k + 1) - 1 = k /\ k + 1 \in 0..N
      BY <1>1
    <3>2. a[k + 1] = Swap(a[k], b[k + 1], seq + (k + 1)) /\ b[k + 1] \in Swaps
      BY <1>1, <1>2, <3>1
    <3>3. DOMAIN a[k] = Pools
      BY <2>2
    <3>4. QED
      BY <3>1, <3>2, <3>3, SwapFacts
  <2>3. i \in B
    <3>1. i \in Nat
      BY <1>1
    <3> HIDE DEF B
    <3>2. QED
      BY <2>1, <2>2, <3>1, Induction
  <2>4. QED
    BY <2>3
<1>4. ASSUME NEW i \in 1..N, NEW p \in Pools
      PROVE  a[i][p] = IF p # b[i].pool THEN a[i - 1][p]
                       ELSE IF p \in V3Pools THEN seq + i ELSE SwapV2(a[i - 1][p], b[i].dir)
  <2>1. i - 1 \in 0..N
    BY <1>1
  <2>2. QED
    BY <1>1, <1>2, <1>3, <2>1, SwapFacts
<1>5. QED
  BY <1>1, <1>2, <1>3, <1>4 DEF a, N

\* From the state before the logs to the one after them.
Trace(p, logs, g, from, to) == Leads(p, logs, g) /\ g[0] = from /\ g[Len(logs)] = to


\* The logs of a new block lead from the states before it to those after it.
LEMMA BlockLeads ==
    ASSUME NEW b \in Blocks, NEW st, DOMAIN st = Pools, NEW seq \in Nat, NEW n, NEW fork,
           NEW p \in Pools, p \in V3Pools
    PROVE  LET new == Mine(b, st, seq, n, fork)
           IN  \E g : Trace(p, new.logs, g, st[p], new.st[p])
<1> DEFINE a == After(b, st, seq)
           N == Len(b)
           new == Mine(b, st, seq, n, fork)
           g == [i \in 0..N |-> a[i][p]]
           L == new.logs
<1>1. /\ N \in Nat /\ \A i \in 1..N : b[i] \in Swaps
      /\ a[0] = st
      /\ \A i \in 1..N :
           a[i][p] = IF p # b[i].pool THEN a[i - 1][p]
                     ELSE IF p \in V3Pools THEN seq + i ELSE SwapV2(a[i - 1][p], b[i].dir)
  BY BlockFacts
<1>2. /\ new.st = a[N] /\ Len(L) = N
      /\ \A i \in 1..N : /\ L[i].pool = b[i].pool /\ ~ L[i].removed
                         /\ L[i].val = IF b[i].pool \in V3Pools THEN seq + i
                                       ELSE [in |-> Paid, out |-> PaidOut(a[i - 1][b[i].pool], b[i].dir)]
  <2> DEFINE log == [i \in 1..N |->
                 [pool |-> b[i].pool, n |-> n, fork |-> fork, removed |-> FALSE,
                  val |-> Carried(b, st, seq, i)]]
  <2>1. L = log /\ new.st = a[N]
    BY DEF Mine
  <2>2. Len(log) = N
    BY <1>1
  <2>3. \A i \in 1..N : /\ log[i].pool = b[i].pool /\ ~ log[i].removed
                        /\ log[i].val = Carried(b, st, seq, i)
    OBVIOUS
  <2>4. \A i \in 1..N : Carried(b, st, seq, i) =
          IF b[i].pool \in V3Pools THEN seq + i
          ELSE [in |-> Paid, out |-> PaidOut(a[i - 1][b[i].pool], b[i].dir)]
    BY DEF Carried
  <2> HIDE DEF log, L, a, new, N
  <2>5. QED
    BY <2>1, <2>2, <2>3, <2>4
<1> HIDE DEF a, new, N, L
<1>3. ASSUME NEW i \in 1..N
      PROVE  g[i] = a[i][p] /\ g[i - 1] = a[i - 1][p] /\ i - 1 \in 0..N
  BY <1>1
<1>4. g[0] = st[p] /\ g[N] = new.st[p]
  BY <1>1, <1>2
<1> HIDE DEF g
<1>6. ASSUME NEW j \in 0..N, NEW k \in 0..N, j <= k, \A l \in j + 1..k : L[l].pool # p
      PROVE  g[j] = g[k]
  <2> DEFINE B == {i \in 0..k - j : g[j + i] = g[j]}
  <2>1. 0 \in B
    <3>1. j + 0 = j /\ 0 \in 0..k - j
      BY <1>1, <1>6
    <3>2. QED
      BY <3>1
  <2>2. ASSUME NEW i \in 0..(k - j) - 1, i \in B PROVE i + 1 \in B
    <3>1. /\ j + (i + 1) \in 1..N /\ j + (i + 1) \in j + 1..k
          /\ (j + (i + 1)) - 1 = j + i /\ i + 1 \in 0..k - j
      BY <1>1, <1>6
    <3>2. p # b[j + (i + 1)].pool
      BY <1>2, <1>6, <3>1
    <3>3. g[j + (i + 1)] = g[j + i]
      BY <1>1, <1>3, <3>1, <3>2
    <3>4. QED
      BY <2>2, <3>1, <3>3
  <2>3. k - j \in B
    <3>1. k - j \in Nat
      BY <1>1, <1>6
    <3> HIDE DEF B
    <3>2. QED
      BY <2>1, <2>2, <3>1, Induction
  <2>4. j + (k - j) = k
    BY <1>1
  <2>5. QED
    BY <2>3, <2>4
<1>7. ASSUME NEW k \in 1..N, L[k].pool = p PROVE g[k] = Taken(p, g[k - 1], L[k].val)
  BY <1>1, <1>2, <1>3, <1>7 DEF Taken
<1>8. Trace(p, L, g, st[p], new.st[p])
  BY <1>2, <1>4, <1>6, <1>7 DEF Trace, Leads
<1>9. QED
  BY <1>8 DEF L, new

\* f is g as far as k.
Prolongs(f, g, k) == \A i \in 0..k : f[i] = g[i]

\* One trace after another.
LEMMA TracesJoin ==
    ASSUME NEW p, NEW S, NEW s \in Seq(S), NEW t \in Seq(S), NEW g, NEW h, NEW x, NEW y, NEW z,
           Trace(p, s, g, x, y), Trace(p, t, h, y, z)
    PROVE  \E f : Trace(p, s \o t, f, x, z) /\ Prolongs(f, g, Len(s))
<1> DEFINE m == Len(s)  k == Len(t)  u == s \o t
           f == [i \in 0..m + k |-> IF i <= m THEN g[i] ELSE h[i - m]]
<1>1. m \in Nat /\ k \in Nat /\ Len(u) = m + k
  OBVIOUS
<1>2. /\ \A i \in 1..m : u[i] = s[i]
      /\ \A i \in 1..k : u[m + i] = t[i]
  <2>1. \A i \in 1..Len(u) : u[i] = IF i <= m THEN s[i] ELSE t[i - m]
    BY ConcatFacts
  <2> HIDE DEF m, k, u
  <2>2. QED
    BY <1>1, <2>1
<1>3. /\ g[0] = x /\ g[m] = y /\ h[0] = y /\ h[k] = z
      /\ Leads(p, s, g) /\ Leads(p, t, h)
  BY DEF Trace
<1>4. /\ \A i, j \in 0..m : i <= j /\ (\A l \in i + 1..j : s[l].pool # p) => g[i] = g[j]
      /\ \A i, j \in 0..k : i <= j /\ (\A l \in i + 1..j : t[l].pool # p) => h[i] = h[j]
      /\ \A i \in 1..m : s[i].pool = p /\ ~ s[i].removed => g[i] = Taken(p, g[i - 1], s[i].val)
      /\ \A i \in 1..k : t[i].pool = p /\ ~ t[i].removed => h[i] = Taken(p, h[i - 1], t[i].val)
  BY <1>3 DEF Leads
<1> HIDE DEF m, k, u
<1>5. /\ \A i \in 0..m : f[i] = g[i]
      /\ \A i \in 0..k : f[m + i] = h[i]
  <2>1. \A i \in 0..m : f[i] = g[i]
    BY <1>1
  <2>2. ASSUME NEW i \in 0..k PROVE f[m + i] = h[i]
    <3>1. CASE i = 0
      BY <1>1, <1>3, <3>1
    <3>2. CASE i # 0
      <4>1. m + i \in 0..m + k /\ ~ (m + i <= m) /\ (m + i) - m = i
        BY <1>1, <3>2
      <4>2. QED
        BY <4>1
    <3>3. QED
      BY <3>1, <3>2
  <2>3. QED
    BY <2>1, <2>2
<1> HIDE DEF f
<1>6. \A i \in 0..m + k : i \in 0..m \/ (i - m \in 0..k /\ m + (i - m) = i)
  BY <1>1
<1>7. ASSUME NEW i \in 0..m + k, NEW j \in 0..m + k, i <= j, \A l \in i + 1..j : u[l].pool # p
      PROVE  f[i] = f[j]
  <2>1. CASE j \in 0..m
    <3>1. i \in 0..m
      BY <1>1, <1>7, <2>1
    <3>2. \A l \in i + 1..j : l \in 1..m
      BY <1>1, <2>1, <3>1
    <3>3. \A l \in i + 1..j : s[l].pool # p
      BY <1>2, <1>7, <3>2
    <3>4. QED
      BY <1>4, <1>5, <1>7, <2>1, <3>1, <3>3
  <2>2. CASE j \notin 0..m
    <3>1. j - m \in 0..k /\ m + (j - m) = j
      BY <1>6, <2>2
    <3>2. ASSUME NEW c \in 0..k, c <= j - m, \A l \in c + 1..j - m : u[m + l].pool # p
          PROVE  f[m + c] = f[j]
      <4>1. \A l \in c + 1..j - m : l \in 1..k
        BY <1>1, <3>1
      <4>2. \A l \in c + 1..j - m : t[l].pool # p
        BY <1>2, <3>2, <4>1
      <4>3. h[c] = h[j - m]
        BY <1>4, <3>1, <3>2, <4>2
      <4>4. QED
        BY <1>5, <3>1, <4>3
    <3>3. CASE i \in 0..m
      <4>1. \A l \in i + 1..m : l \in 1..m /\ l \in i + 1..j
        BY <1>1, <2>2, <3>3
      <4>2. \A l \in i + 1..m : s[l].pool # p
        BY <1>2, <1>7, <4>1
      <4>3. m \in 0..m /\ i <= m
        BY <1>1, <3>3
      <4>4. g[i] = g[m]
        BY <1>4, <3>3, <4>2, <4>3
      <4>5. \A l \in 0 + 1..j - m : m + l \in i + 1..j
        BY <1>1, <3>3
      <4>6. 0 \in 0..k /\ 0 <= j - m /\ m + 0 = m
        BY <1>1, <3>1
      <4>7. f[m + 0] = f[j]
        BY <1>7, <3>2, <4>5, <4>6
      <4>8. QED
        BY <1>5, <3>3, <4>3, <4>4, <4>6, <4>7
    <3>4. CASE i \notin 0..m
      <4>1. i - m \in 0..k /\ m + (i - m) = i
        BY <1>6, <3>4
      <4>2. \A l \in (i - m) + 1..j - m : m + l \in i + 1..j
        BY <1>1
      <4>3. i - m <= j - m
        BY <1>1, <1>7
      <4>4. QED
        BY <1>7, <3>2, <4>1, <4>2, <4>3
    <3>5. QED
      BY <3>3, <3>4
  <2>3. QED
    BY <2>1, <2>2
<1>8. ASSUME NEW i \in 1..m + k, u[i].pool = p, ~ u[i].removed
      PROVE  f[i] = Taken(p, f[i - 1], u[i].val)
  <2>1. CASE i \in 1..m
    <3>1. i \in 0..m /\ i - 1 \in 0..m
      BY <1>1, <2>1
    <3>2. QED
      BY <1>2, <1>4, <1>5, <1>8, <2>1, <3>1
  <2>2. CASE i \notin 1..m
    <3>1. /\ i - m \in 1..k /\ i - m \in 0..k /\ (i - m) - 1 \in 0..k
          /\ m + (i - m) = i /\ m + ((i - m) - 1) = i - 1
      BY <1>1, <2>2
    <3>2. u[i] = t[i - m] /\ f[i] = h[i - m] /\ f[i - 1] = h[(i - m) - 1]
      BY <1>2, <1>5, <3>1
    <3>3. QED
      BY <1>4, <1>8, <3>1, <3>2
  <2>3. QED
    BY <2>1, <2>2
<1>9. Leads(p, u, f)
  BY <1>1, <1>7, <1>8 DEF Leads
<1>10. f[0] = x /\ f[m + k] = z
  <2>1. 0 \in 0..m /\ k \in 0..k
    BY <1>1
  <2>2. QED
    BY <1>3, <1>5, <2>1
<1>11. QED
  BY <1>1, <1>5, <1>9, <1>10 DEF Trace, Prolongs, u, m

\* Removed logs lead back, to any state: at the first of the pool, if there is one.
LEMMA RemovedLead ==
    ASSUME NEW p, NEW S, NEW t \in Seq(S), \A i \in 1..Len(t) : t[i].removed, NEW x, NEW y,
           (\A i \in 1..Len(t) : t[i].pool # p) => x = y
    PROVE  \E g : Trace(p, t, g, x, y)
<1>1. Len(t) \in Nat
  OBVIOUS
<1>2. CASE \A i \in 1..Len(t) : t[i].pool # p
  <2> DEFINE g == [i \in 0..Len(t) |-> x]
  <2>1. Trace(p, t, g, x, y)
    BY <1>1, <1>2 DEF Trace, Leads
  <2>2. QED
    BY <2>1
<1>3. ASSUME NEW m \in 1..Len(t), t[m].pool = p PROVE \E g : Trace(p, t, g, x, y)
  <2> DEFINE g == [i \in 0..Len(t) |-> IF i < m THEN x ELSE y]
  <2>1. g[0] = x /\ g[Len(t)] = y
    BY <1>1
  <2>2. ASSUME NEW j \in 0..Len(t), NEW k \in 0..Len(t), j <= k, \A l \in j + 1..k : t[l].pool # p
        PROVE  g[j] = g[k]
    <3>1. m \notin j + 1..k
      BY <1>3, <2>2
    <3>2. (j < m) <=> (k < m)
      BY <1>1, <2>2, <3>1
    <3>3. QED
      BY <3>2
  <2>3. Leads(p, t, g)
    BY <2>2 DEF Leads
  <2> HIDE DEF g
  <2>4. QED
    BY <2>1, <2>3 DEF Trace
<1>4. QED
  BY <1>2, <1>3

-----------------------------------------------------------------------------
(* The invariant: each pool has a trace, and the matrix reflects it.            *)

\* The logs of pool p among those numbered a + 1..k.
Since(logs, p, a, k) == {i \in a + 1..k : logs[i].pool = p}

\* What the matrix says of a pool, or what was read of it, is the state after some log,
\* provided it took every log from its reading to that one and the chain none back; a V3
\* pool is as its last log says.
Reflects(logs, r, p, g) ==
    r.known =>
      /\ p \notin V3Pools \/ r.seen = {} =>
           \A k \in r.snap..Len(logs) :
              r.seen = Since(logs, p, r.snap, k) /\ (\A i \in r.seen : ~ logs[i].removed)
                => r.st = g[k]
      /\ p \in V3Pools /\ r.seen # {} =>
           \E m \in r.seen : /\ \A i \in r.seen : i <= m
                             /\ logs[m].pool = p /\ r.st = logs[m].val

StatesInv ==
    /\ \A i \in 1..Len(chain) : DOMAIN chain[i].st = Pools
    /\ \A i \in 2..Len(chain), p \in Pools :
          p \in V3Pools /\ (\A l \in 1..Len(chain[i].logs) : chain[i].logs[l].pool # p)
             => chain[i - 1].st[p] = chain[i].st[p]

\* Whatever a pool took comes before what is still on its way.
Behind ==
    \A p \in Pools : \A i \in mx[p].seen :
       /\ \A o \in Objs : free[o] = 0 => i < holds[o]
       /\ \A j \in 1..Len(wire) : i < wire[j]

TraceInv ==
    \A p \in Pools : p \in V3Pools =>
       \E g : /\ Trace(p, msgs, g, Genesis.st[p], Tip.st[p])
              /\ Reflects(msgs, mx[p], p, g) /\ Reflects(msgs, reading[p], p, g)

FollowInv == StatesInv /\ Behind /\ TraceInv

\* More logs leave a pool as it was read or updated.
LEMMA ReflectsGrows ==
    ASSUME NEW p, NEW S, NEW s \in Seq(S), NEW t \in Seq(S), NEW f, NEW g, NEW x, NEW y,
           Trace(p, s \o t, f, x, y), Prolongs(f, g, Len(s)),
           NEW r, r.seen \subseteq 1..Len(s), r.snap \in 0..Len(s), Reflects(s, r, p, g)
    PROVE  Reflects(s \o t, r, p, f)
<1> DEFINE m == Len(s)  u == s \o t
<1>1. m \in Nat /\ Len(u) \in Nat /\ m <= Len(u)
  OBVIOUS
<1>2. \A i \in 1..m : u[i] = s[i]
  BY ConcatFacts
<1>3. Leads(p, u, f)
  BY DEF Trace
<1> HIDE DEF m, u
<1>4. r.seen \subseteq 1..m /\ r.snap \in 0..m /\ \A i \in 0..m : f[i] = g[i]
  BY DEF m, Prolongs
<1> SUFFICES ASSUME r.known PROVE Reflects(u, r, p, f)
  BY DEF Reflects, u
<1>5. ASSUME p \notin V3Pools \/ r.seen = {}, NEW k \in r.snap..Len(u),
             r.seen = Since(u, p, r.snap, k), \A i \in r.seen : ~ u[i].removed
      PROVE  r.st = f[k]
  <2>1. \A i \in r.seen : ~ s[i].removed
    BY <1>2, <1>4, <1>5
  <2>2. \A c \in r.snap..m : r.seen = Since(s, p, r.snap, c) => r.st = g[c]
    BY <1>5, <2>1 DEF Reflects, m
  <2>3. CASE k <= m
    <3>1. Since(u, p, r.snap, k) = Since(s, p, r.snap, k)
      <4>1. \A i \in r.snap + 1..k : i \in 1..m
        BY <1>1, <1>4, <1>5, <2>3
      <4>2. QED
        BY <1>2, <4>1 DEF Since
    <3>2. k \in r.snap..m /\ k \in 0..m
      BY <1>1, <1>4, <1>5, <2>3
    <3>3. QED
      BY <1>4, <1>5, <2>2, <3>1, <3>2
  <2>4. CASE ~ (k <= m)
    <3>1. \A i \in m + 1..k : u[i].pool # p
      <4>1. SUFFICES ASSUME NEW i \in m + 1..k, u[i].pool = p PROVE FALSE
        OBVIOUS
      <4>2. i \in r.snap + 1..k /\ i \notin 1..m
        BY <1>1, <1>4, <1>5
      <4>3. QED
        BY <1>4, <1>5, <4>1, <4>2 DEF Since
    <3>2. r.seen = Since(s, p, r.snap, m)
      <4>1. \A i \in r.snap + 1..m : i \in 1..m /\ i \in r.snap + 1..k
        BY <1>1, <1>4, <1>5, <2>4
      <4>2. \A i \in r.seen : i \in r.snap + 1..m
        <5>1. \A i \in r.seen : i \in r.snap + 1..k /\ i \in 1..m
          BY <1>4, <1>5 DEF Since
        <5>2. QED
          BY <1>1, <1>4, <1>5, <5>1
      <4>3. QED
        BY <1>2, <1>5, <4>1, <4>2 DEF Since
    <3>3. m \in r.snap..m /\ m \in 0..m
      BY <1>1, <1>4
    <3>4. r.st = f[m]
      BY <1>4, <2>2, <3>2, <3>3
    <3>5. m \in 0..Len(u) /\ k \in 0..Len(u) /\ m <= k
      BY <1>1, <1>4, <1>5, <2>4
    <3>6. f[m] = f[k]
      BY <1>3, <3>1, <3>5 DEF Leads
    <3>7. QED
      BY <3>4, <3>6
  <2>5. QED
    BY <2>3, <2>4
<1>6. ASSUME p \in V3Pools, r.seen # {}
      PROVE  \E l \in r.seen : /\ \A i \in r.seen : i <= l
                               /\ u[l].pool = p /\ r.st = u[l].val
  BY <1>2, <1>4, <1>6 DEF Reflects
<1>7. QED
  BY <1>5, <1>6 DEF Reflects

\* A log that comes after those a pool has taken leaves it as the chain had it then.
LEMMA ReflectsTaken ==
    ASSUME NEW p, NEW S, NEW s \in Seq(S), NEW g, NEW x, NEW y, Trace(p, s, g, x, y),
           NEW r, r.known, r.seen \subseteq 1..Len(s), r.snap \in 0..Len(s), Reflects(s, r, p, g),
           NEW h \in 1..Len(s), s[h].pool = p, \A i \in r.seen : i < h,
           NEW q, q.snap = r.snap, q.seen = r.seen \cup {h}, q.st = Taken(p, r.st, s[h].val)
    PROVE  Reflects(s, q, p, g)
<1> DEFINE m == Len(s)
<1>1. m \in Nat /\ h \in 1..m
  OBVIOUS
<1> HIDE DEF m
<1>2. Leads(p, s, g) /\ r.seen \subseteq 1..m /\ r.snap \in 0..m
  BY DEF Trace, m
<1>3. ASSUME p \notin V3Pools, NEW k \in q.snap..m,
             q.seen = Since(s, p, q.snap, k), \A i \in q.seen : ~ s[i].removed
      PROVE  q.st = g[k]
  <2>1. h \in r.snap + 1..k
    BY <1>3 DEF Since
  <2>2. r.seen = Since(s, p, r.snap, h - 1)
    <3>1. ASSUME NEW i \in r.seen PROVE i \in r.snap + 1..h - 1 /\ s[i].pool = p
      <4>1. i \in r.snap + 1..k /\ s[i].pool = p /\ i < h
        BY <1>3 DEF Since
      <4>2. QED
        BY <1>1, <1>2, <4>1
    <3>2. ASSUME NEW i \in r.snap + 1..h - 1, s[i].pool = p PROVE i \in r.seen
      <4>1. i \in r.snap + 1..k /\ i # h
        BY <1>1, <1>2, <1>3, <2>1
      <4>2. QED
        BY <1>3, <3>2, <4>1 DEF Since
    <3>3. QED
      BY <3>1, <3>2 DEF Since
  <2>3. h - 1 \in r.snap..m
    BY <1>1, <1>2, <1>3, <2>1
  <2>4. r.st = g[h - 1]
    BY <1>3, <2>2, <2>3 DEF Reflects, m
  <2>5. g[h] = Taken(p, g[h - 1], s[h].val)
    BY <1>2, <1>3 DEF Leads
  <2>6. \A l \in h + 1..k : s[l].pool # p
    <3>1. SUFFICES ASSUME NEW l \in h + 1..k, s[l].pool = p PROVE FALSE
      OBVIOUS
    <3>2. l \in r.snap + 1..k /\ l # h /\ ~ (l < h)
      BY <1>1, <1>2, <1>3, <2>1
    <3>3. QED
      BY <1>3, <3>1, <3>2 DEF Since
  <2>7. h \in 0..m /\ k \in 0..m /\ h <= k
    BY <1>1, <1>2, <1>3, <2>1
  <2>8. g[h] = g[k]
    BY <1>2, <2>6, <2>7 DEF Leads, m
  <2>9. QED
    BY <2>4, <2>5, <2>8
<1>4. ASSUME p \in V3Pools
      PROVE  \E l \in q.seen : /\ \A i \in q.seen : i <= l
                               /\ s[l].pool = p /\ q.st = s[l].val
  <2>1. h \in q.seen /\ q.st = s[h].val
    BY <1>4 DEF Taken
  <2>2. \A i \in q.seen : i <= h
    BY <1>1, <1>2
  <2>3. QED
    BY <2>1, <2>2
<1>5. q.seen # {}
  OBVIOUS
<1>6. QED
  BY <1>3, <1>4, <1>5 DEF Reflects, m

\* A pool that was just read, of which no log was taken.
LEMMA ReflectsRead ==
    ASSUME NEW p, NEW s, Len(s) \in Nat, NEW g, NEW x, NEW y, Trace(p, s, g, x, y),
           NEW r, r.seen = {}, r.snap = Len(s), r.st = y
    PROVE  Reflects(s, r, p, g)
<1>1. \A k \in r.snap..Len(s) : k = Len(s)
  OBVIOUS
<1>2. QED
  BY <1>1 DEF Reflects, Trace

LEMMA PoolsTyped ==
    ASSUME MatrixInv, NEW p \in Pools
    PROVE  /\ mx[p].seen \subseteq 1..Len(msgs) /\ mx[p].snap \in Nat /\ mx[p].snap <= Len(msgs)
           /\ reading[p].seen = {} /\ reading[p].snap \in Nat /\ reading[p].snap <= Len(msgs)
           /\ mx[p].known \in BOOLEAN
<1>1. PICK S : mx \in [Pools -> PoolRecords(S)]
  BY DEF MatrixInv
<1>2. PICK T : reading \in [Pools -> PoolRecords(T)]
  BY DEF MatrixInv
<1>3. mx[p].snap \in Nat /\ reading[p].snap \in Nat /\ mx[p].known \in BOOLEAN
  BY <1>1, <1>2 DEF PoolRecords
<1>4. QED
  BY <1>3 DEF MatrixInv

\* Nothing comes to be on its way that is not newer than what the pools took.
LEMMA BehindKept ==
    ASSUME NodeInv, NodeInv', MatrixInv, Behind,
           \A p \in Pools : mx'[p].seen \subseteq mx[p].seen,
           \A o \in Objs : free'[o] = 0 =>
              \/ free[o] = 0 /\ holds'[o] = holds[o]
              \/ \E j \in 1..Len(wire) : holds'[o] = wire[j],
           \A j \in 1..Len(wire') :
              (\E l \in 1..Len(wire) : wire'[j] = wire[l]) \/ wire'[j] > Len(msgs)
    PROVE  Behind'
<1> SUFFICES ASSUME NEW p \in Pools, NEW i \in mx'[p].seen
             PROVE  /\ \A o \in Objs : free'[o] = 0 => i < holds'[o]
                    /\ \A j \in 1..Len(wire') : i < wire'[j]
  BY DEF Behind
<1>1. i \in mx[p].seen /\ i \in 1..Len(msgs)
  BY PoolsTyped
<1>2a. Len(msgs) \in Nat /\ \A j \in 1..Len(wire') : wire'[j] \in Nat
  BY DEF NodeInv
<1>2. /\ \A o \in Objs : free[o] = 0 => i < holds[o]
      /\ \A j \in 1..Len(wire) : i < wire[j]
  BY <1>1 DEF Behind
<1>3. \A o \in Objs : free'[o] = 0 => i < holds'[o]
  BY <1>2
<1>4. ASSUME NEW j \in 1..Len(wire') PROVE i < wire'[j]
  <2>1. CASE \E l \in 1..Len(wire) : wire'[j] = wire[l]
    BY <1>2, <2>1
  <2>2. CASE wire'[j] > Len(msgs)
    BY <1>1, <1>2a, <2>2
  <2>3. QED
    BY <2>1, <2>2
<1>5. QED
  BY <1>3, <1>4

\* While the chain stays, only the pools that change need a look.
LEMMA ChainStays ==
    ASSUME StatesInv, TraceInv, UNCHANGED <<chain, msgs>>,
           \A p \in Pools :
              \/ mx'[p] = mx[p] \/ ~ mx'[p].known \/ mx'[p] = reading[p]
              \/ \A g : Trace(p, msgs, g, Genesis.st[p], Tip.st[p]) /\ Reflects(msgs, mx[p], p, g)
                           => Reflects(msgs, mx'[p], p, g),
           \A p \in Pools :
              \/ reading'[p] = reading[p] \/ ~ reading'[p].known
              \/ \A g : Trace(p, msgs, g, Genesis.st[p], Tip.st[p]) => Reflects(msgs, reading'[p], p, g)
    PROVE  StatesInv' /\ TraceInv'
<1>1. chain' = chain /\ msgs' = msgs /\ Tip' = Tip
  BY DEF Tip
<1>2. StatesInv'
  BY <1>1 DEF StatesInv
<1>3. ASSUME NEW p \in Pools, p \in V3Pools
      PROVE  \E g : /\ Trace(p, msgs, g, Genesis.st[p], Tip.st[p])
                    /\ Reflects(msgs, mx'[p], p, g) /\ Reflects(msgs, reading'[p], p, g)
  <2>1. PICK g : /\ Trace(p, msgs, g, Genesis.st[p], Tip.st[p])
                 /\ Reflects(msgs, mx[p], p, g) /\ Reflects(msgs, reading[p], p, g)
    BY <1>3 DEF TraceInv
  <2>2. \A r : ~ r.known => Reflects(msgs, r, p, g)
    BY DEF Reflects
  <2>3. Reflects(msgs, mx'[p], p, g)
    BY <2>1, <2>2
  <2>4. Reflects(msgs, reading'[p], p, g)
    BY <2>1, <2>2
  <2>5. QED
    BY <2>1, <2>3, <2>4
<1>4. TraceInv'
  BY <1>1, <1>3 DEF TraceInv
<1>5. QED
  BY <1>2, <1>4

\* The chain has gone on by some logs, and the pools of the matrix have not.
LEMMA TraceGrows ==
    ASSUME FeedInv, TraceInv, UNCHANGED <<matrix, reading>>,
           NEW S, msgs \in Seq(S), NEW logs \in Seq(S), msgs' = msgs \o logs,
           \A p \in Pools : p \in V3Pools => \E h : Trace(p, logs, h, Tip.st[p], Tip'.st[p])
    PROVE  TraceInv'
<1>1. mx' = mx /\ reading' = reading
  BY DEF matrix
<1>2. ASSUME NEW p \in Pools, p \in V3Pools
      PROVE  \E f : /\ Trace(p, msgs', f, Genesis.st[p], Tip'.st[p])
                    /\ Reflects(msgs', mx[p], p, f) /\ Reflects(msgs', reading[p], p, f)
  <2>1. PICK g : /\ Trace(p, msgs, g, Genesis.st[p], Tip.st[p])
                 /\ Reflects(msgs, mx[p], p, g) /\ Reflects(msgs, reading[p], p, g)
    BY <1>2 DEF TraceInv
  <2>2. PICK h : Trace(p, logs, h, Tip.st[p], Tip'.st[p])
    BY <1>2
  <2>3. PICK f : /\ Trace(p, msgs \o logs, f, Genesis.st[p], Tip'.st[p])
                 /\ Prolongs(f, g, Len(msgs))
    BY <2>1, <2>2, TracesJoin
  <2>4. /\ mx[p].seen \subseteq 1..Len(msgs) /\ mx[p].snap \in 0..Len(msgs)
        /\ reading[p].seen \subseteq 1..Len(msgs) /\ reading[p].snap \in 0..Len(msgs)
    BY PoolsTyped DEF FeedInv
  <2>5. Reflects(msgs \o logs, mx[p], p, f) /\ Reflects(msgs \o logs, reading[p], p, f)
    BY <2>1, <2>3, <2>4, ReflectsGrows
  <2>6. QED
    BY <2>3, <2>5
<1>3. QED
  BY <1>1, <1>2 DEF TraceInv

LEMMA NewBlockFollows ==
    ASSUME FeedInv, FollowInv, NewBlock
    PROVE  FollowInv'
<1>0. NodeInv'
  BY NewBlockKeeps DEF FeedInv
<1>1. NodeInv /\ HolderInv /\ OrderInv /\ MatrixInv /\ StatesInv /\ Behind /\ TraceInv
  BY DEF FeedInv, FollowInv
<1>2. PICK b \in Blocks :
        LET new == Mine(b, Tip.st, Len(msgs), Len(chain) + 1, Tip.fork)
        IN  chain' = Append(chain, new) /\ Push(new.logs)
  BY DEF NewBlock
<1> DEFINE n == Len(chain)
           new == Mine(b, Tip.st, Len(msgs), n + 1, Tip.fork)
           logs == new.logs
<1>3. chain' = Append(chain, new) /\ Push(logs) /\ UNCHANGED <<losses, rd, objects, w1, latest, matrix, reading>>
  BY <1>2 DEF NewBlock
<1>4. n \in Nat /\ n > 0 /\ n \in 1..n /\ Tip = chain[n] /\ Tip.fork \in Nat /\ Len(msgs) \in Nat
  BY <1>1, ConstantsTyped DEF NodeInv, Tip
<1>5. DOMAIN Tip.st = Pools
  BY <1>1, <1>4 DEF StatesInv
<1>6. PICK V1 : logs \in Seq(LogRecords({n + 1}, V1))
  <2>1. n + 1 \in Nat
    BY <1>4
  <2>2. QED
    BY <1>4, <2>1, MineTyped
<1>7. PICK V2 : msgs \in Seq(LogRecords(1..n, V2))
  BY <1>1 DEF NodeInv
<1> DEFINE S == LogRecords({n + 1}, V1) \cup LogRecords(1..n, V2)
<1>8. logs \in Seq(S) /\ msgs \in Seq(S)
  <2>1. LogRecords({n + 1}, V1) \subseteq S /\ LogRecords(1..n, V2) \subseteq S
    OBVIOUS
  <2> HIDE DEF S, logs
  <2>2. QED
    BY <1>6, <1>7, <2>1, SeqWider
<1>9. DOMAIN new.st = Pools
  <2>1. new.st = After(b, Tip.st, Len(msgs))[Len(b)]
    BY DEF Mine
  <2>2. Len(b) \in Nat /\ \A i \in 0..Len(b) : DOMAIN After(b, Tip.st, Len(msgs))[i] = Pools
    BY <1>4, <1>5, BlockFacts
  <2>3. QED
    BY <2>1, <2>2
<1>10. ASSUME NEW p \in Pools, p \in V3Pools
       PROVE  \E h : Trace(p, logs, h, Tip.st[p], new.st[p])
  BY <1>4, <1>5, <1>10, BlockLeads
<1> HIDE DEF new, logs, S
<1>11. PICK C : chain \in Seq(C)
  BY <1>1 DEF NodeInv
<1>12. /\ Len(chain') = n + 1 /\ chain'[n + 1] = new
       /\ \A i \in 1..n : chain'[i] = chain[i]
  <2>1. chain \in Seq(C \cup {new})
    BY <1>11, SeqWider
  <2>2. QED
    BY <1>3, <2>1, AppendProperties
<1>13. Tip' = new /\ \A i \in 1..n + 1 : i \in 1..n \/ i = n + 1
  BY <1>4, <1>12 DEF Tip
<1>14. msgs' = msgs \o logs /\ Len(msgs') = Len(msgs) + Len(logs) /\ Len(logs) \in Nat
  BY <1>3, <1>8, ConcatFacts DEF Push
<1>15. StatesInv'
  <2>1. \A i \in 1..n + 1 : DOMAIN chain'[i].st = Pools
    BY <1>1, <1>9, <1>12, <1>13 DEF StatesInv
  <2>2. ASSUME NEW i \in 2..n + 1, NEW p \in Pools, p \in V3Pools,
               \A l \in 1..Len(chain'[i].logs) : chain'[i].logs[l].pool # p
        PROVE  chain'[i - 1].st[p] = chain'[i].st[p]
    <3>1. CASE i \in 1..n
      <4>1. i - 1 \in 1..n /\ i \in 2..n
        BY <1>4, <3>1
      <4>2. chain'[i] = chain[i] /\ chain'[i - 1] = chain[i - 1]
        BY <1>12, <3>1, <4>1
      <4>3. \A l \in 1..Len(chain[i].logs) : chain[i].logs[l].pool # p
        BY <2>2, <4>2
      <4>4. chain[i - 1].st[p] = chain[i].st[p]
        BY <1>1, <2>2, <4>1, <4>3 DEF StatesInv
      <4>5. QED
        BY <4>2, <4>4
    <3>2. CASE i = n + 1
      <4>1. i - 1 = n /\ chain'[i] = new /\ chain'[i - 1] = Tip
        BY <1>4, <1>12, <3>2
      <4>2. PICK h : Trace(p, logs, h, Tip.st[p], new.st[p])
        BY <1>10, <2>2
      <4>3. \A l \in 0 + 1..Len(logs) : logs[l].pool # p
        BY <2>2, <4>1 DEF logs
      <4>4. 0 \in 0..Len(logs) /\ Len(logs) \in 0..Len(logs) /\ 0 <= Len(logs)
        BY <1>14
      <4>5. h[0] = h[Len(logs)]
        BY <4>2, <4>3, <4>4 DEF Trace, Leads
      <4>6. QED
        BY <4>1, <4>2, <4>5 DEF Trace
    <3>3. i \in 1..n + 1
      BY <1>4
    <3>4. QED
      BY <1>13, <3>1, <3>2, <3>3
  <2>3. QED
    BY <1>12, <2>1, <2>2 DEF StatesInv
<1>16. TraceInv'
  BY <1>1, <1>3, <1>8, <1>10, <1>13, <1>14, TraceGrows
<1>17. Behind'
  <2>1. \A j \in 1..Len(wire') : (j \in 1..Len(wire) /\ wire'[j] = wire[j]) \/ wire'[j] > Len(msgs)
    BY <1>1, <1>3, <1>14, PushKeepsOrder
  <2>2. free' = free /\ holds' = holds /\ mx' = mx
    BY <1>3 DEF objects, matrix
  <2>3. QED
    BY <1>0, <1>1, <2>1, <2>2, BehindKept
<1>18. QED
  BY <1>15, <1>16, <1>17 DEF FollowInv

\* The removed logs lead back to the state before the block, if it had logs of the pool;
\* if not, the pool never left that state.
LEMMA ReorgFollows ==
    ASSUME FeedInv, FollowInv, Reorg
    PROVE  FollowInv'
<1>0. NodeInv'
  BY ReorgKeeps DEF FeedInv
<1>1. NodeInv /\ HolderInv /\ OrderInv /\ MatrixInv /\ StatesInv /\ Behind /\ TraceInv
  BY DEF FeedInv, FollowInv
<1> DEFINE n == Len(chain)
           old == Tip.logs
           gone == [i \in 1..Len(Tip.logs) |-> [Tip.logs[i] EXCEPT !.removed = TRUE]]
<1>2. PICK b \in Blocks :
        LET new == Mine(b, chain[n - 1].st, Len(msgs) + Len(gone), n, Tip.fork + 1)
        IN  chain' = [chain EXCEPT ![n] = new] /\ Push(gone \o new.logs)
  BY DEF Reorg
<1> DEFINE base == chain[n - 1].st
           new == Mine(b, base, Len(msgs) + Len(gone), n, Tip.fork + 1)
           logs == gone \o new.logs
<1>3. /\ chain' = [chain EXCEPT ![n] = new] /\ Push(logs)
      /\ UNCHANGED <<losses, rd, objects, w1, latest, matrix, reading>>
  BY <1>2 DEF Reorg
<1>4. /\ n \in Nat /\ n > 1 /\ n \in 1..n /\ n - 1 \in 1..n /\ n \in 2..n
      /\ Tip = chain[n] /\ Tip.fork + 1 \in Nat /\ Len(msgs) \in Nat
  <2>1. n \in Nat /\ n > 1 /\ Len(msgs) \in Nat
    BY <1>1 DEF Reorg, NodeInv
  <2>2. Tip = chain[n] /\ n \in 1..n
    BY <2>1 DEF Tip
  <2>3. Tip.fork \in 0..MaxForks
    BY <1>1, <2>2 DEF NodeInv
  <2> HIDE DEF n
  <2>4. Tip.fork + 1 \in Nat
    BY <2>3, ConstantsTyped
  <2>5. QED
    BY <2>1, <2>2, <2>4
<1>5. DOMAIN base = Pools
  BY <1>1, <1>4 DEF StatesInv
<1>6. PICK V1 : old \in Seq(LogRecords({n}, V1))
  BY <1>1, <1>4 DEF NodeInv
<1>7. /\ gone \in Seq(LogRecords({n}, V1)) /\ Len(gone) = Len(old)
      /\ \A i \in 1..Len(gone) : gone[i].removed /\ gone[i].pool = old[i].pool
  <2> HIDE DEF old, n
  <2>1. \A i \in 1..Len(old) : old[i] \in LogRecords({n}, V1)
    BY <1>6
  <2>2. \A i \in 1..Len(old) : [old[i] EXCEPT !.removed = TRUE] \in LogRecords({n}, V1)
    BY <2>1 DEF LogRecords
  <2>3. \A i \in 1..Len(old) : /\ [old[i] EXCEPT !.removed = TRUE].removed
                               /\ [old[i] EXCEPT !.removed = TRUE].pool = old[i].pool
    BY <2>1 DEF LogRecords
  <2>4. Len(old) \in Nat
    BY <1>6
  <2>5. gone = [i \in 1..Len(old) |-> [old[i] EXCEPT !.removed = TRUE]]
    BY DEF old
  <2>6. gone \in [1..Len(old) -> LogRecords({n}, V1)]
    BY <2>2, <2>5
  <2>7. \A i \in 1..Len(old) : gone[i].removed /\ gone[i].pool = old[i].pool
    BY <2>3, <2>5
  <2> HIDE DEF gone
  <2>8. gone \in Seq(LogRecords({n}, V1)) /\ Len(gone) = Len(old)
    BY <2>4, <2>6, FunctionIsSeq
  <2>9. QED
    BY <2>7, <2>8
<1> HIDE DEF gone
<1>8. Len(gone) \in Nat /\ Len(msgs) + Len(gone) \in Nat
  BY <1>4, <1>7
<1>9. PICK V2 : new.logs \in Seq(LogRecords({n}, V2))
  BY <1>4, MineTyped
<1>10. PICK V3 : msgs \in Seq(LogRecords(1..n, V3))
  BY <1>1 DEF NodeInv
<1> DEFINE S == LogRecords({n}, V1) \cup LogRecords({n}, V2) \cup LogRecords(1..n, V3)
<1>11. gone \in Seq(S) /\ new.logs \in Seq(S) /\ msgs \in Seq(S)
  <2>1. /\ LogRecords({n}, V1) \subseteq S /\ LogRecords({n}, V2) \subseteq S
        /\ LogRecords(1..n, V3) \subseteq S
    OBVIOUS
  <2> HIDE DEF S, new
  <2>2. QED
    BY <1>7, <1>9, <1>10, <2>1, SeqWider
<1>12. DOMAIN new.st = Pools
  <2>1. new.st = After(b, base, Len(msgs) + Len(gone))[Len(b)]
    BY DEF Mine
  <2> HIDE DEF base
  <2>2. /\ Len(b) \in Nat
        /\ \A i \in 0..Len(b) : DOMAIN After(b, base, Len(msgs) + Len(gone))[i] = Pools
    BY <1>5, <1>8, BlockFacts
  <2>3. QED
    BY <2>1, <2>2
<1>13. ASSUME NEW p \in Pools, p \in V3Pools
       PROVE  \E h : Trace(p, new.logs, h, base[p], new.st[p])
  <2> HIDE DEF base
  <2>1. QED
    BY <1>5, <1>8, <1>13, BlockLeads
<1> HIDE DEF new, S, base
<1>14. ASSUME NEW p \in Pools, p \in V3Pools
       PROVE  \E h : Trace(p, logs, h, Tip.st[p], new.st[p])
  <2>1. (\A i \in 1..Len(gone) : gone[i].pool # p) => Tip.st[p] = base[p]
    <3>1. ASSUME \A i \in 1..Len(gone) : gone[i].pool # p PROVE Tip.st[p] = base[p]
      <4>1. \A i \in 1..Len(chain[n].logs) : chain[n].logs[i].pool # p
        BY <1>4, <1>7, <3>1
      <4>2. QED
        BY <1>1, <1>4, <1>14, <4>1 DEF StatesInv, base
    <3>2. QED
      BY <3>1
  <2>2. PICK g : Trace(p, gone, g, Tip.st[p], base[p])
    BY <1>7, <2>1, RemovedLead
  <2>3. PICK h : Trace(p, new.logs, h, base[p], new.st[p])
    BY <1>13, <1>14
  <2>4. QED
    BY <1>11, <2>2, <2>3, TracesJoin
<1>15. logs \in Seq(S)
  BY <1>11, ConcatProperties
<1> HIDE DEF logs
<1>16. PICK C : chain \in Seq(C)
  BY <1>1 DEF NodeInv
<1>17. /\ Len(chain') = n
       /\ \A i \in 1..n : chain'[i] = IF i = n THEN new ELSE chain[i]
  <2>1. chain \in [1..n -> C]
    BY <1>16
  <2>2. chain' \in [1..n -> C \cup {new}]
    BY <1>3, <2>1
  <2>3. Len(chain') = n
    BY <1>4, <2>2, FunctionIsSeq
  <2>4. QED
    BY <1>3, <2>1, <2>3
<1>18. Tip' = new
  BY <1>4, <1>17 DEF Tip
<1>19. msgs' = msgs \o logs /\ Len(msgs') = Len(msgs) + Len(logs) /\ Len(logs) \in Nat
  BY <1>3, <1>11, <1>15, ConcatFacts DEF Push
<1>20. StatesInv'
  <2>1. \A i \in 1..n : DOMAIN chain'[i].st = Pools
    BY <1>1, <1>12, <1>17 DEF StatesInv
  <2>2. ASSUME NEW i \in 2..n, NEW p \in Pools, p \in V3Pools,
               \A l \in 1..Len(chain'[i].logs) : chain'[i].logs[l].pool # p
        PROVE  chain'[i - 1].st[p] = chain'[i].st[p]
    <3>1. i \in 1..n /\ i - 1 \in 1..n /\ i - 1 # n
      BY <1>4
    <3>2. chain'[i - 1] = chain[i - 1]
      BY <1>17, <3>1
    <3>3. CASE i = n
      <4>1. chain'[i] = new /\ chain[i - 1].st = base
        BY <1>17, <3>1, <3>3 DEF base
      <4>2. PICK h : Trace(p, new.logs, h, base[p], new.st[p])
        BY <1>13, <2>2
      <4>3. \A l \in 0 + 1..Len(new.logs) : new.logs[l].pool # p
        BY <2>2, <4>1
      <4>4. 0 \in 0..Len(new.logs) /\ Len(new.logs) \in 0..Len(new.logs) /\ 0 <= Len(new.logs)
        BY <1>11
      <4>5. h[0] = h[Len(new.logs)]
        BY <4>2, <4>3, <4>4 DEF Trace, Leads
      <4>6. QED
        BY <3>2, <4>1, <4>2, <4>5 DEF Trace
    <3>4. CASE i # n
      <4>1. chain'[i] = chain[i]
        BY <1>17, <3>1, <3>4
      <4>2. \A l \in 1..Len(chain[i].logs) : chain[i].logs[l].pool # p
        BY <2>2, <4>1
      <4>3. chain[i - 1].st[p] = chain[i].st[p]
        BY <1>1, <2>2, <4>2 DEF StatesInv
      <4>4. QED
        BY <3>2, <4>1, <4>3
    <3>5. QED
      BY <3>3, <3>4
  <2>3. QED
    BY <1>17, <2>1, <2>2 DEF StatesInv
<1>21. TraceInv'
  BY <1>1, <1>3, <1>11, <1>14, <1>15, <1>18, <1>19, TraceGrows
<1>22. Behind'
  <2>1. \A j \in 1..Len(wire') : (j \in 1..Len(wire) /\ wire'[j] = wire[j]) \/ wire'[j] > Len(msgs)
    BY <1>1, <1>3, <1>19, PushKeepsOrder
  <2>2. free' = free /\ holds' = holds /\ mx' = mx
    BY <1>3 DEF objects, matrix
  <2>3. QED
    BY <1>0, <1>1, <2>1, <2>2, BehindKept
<1>23. QED
  BY <1>20, <1>21, <1>22 DEF FollowInv

\* The objects in use, and the wire, have no log that was not on its way before.
NothingNewInTransit ==
    /\ \A o \in Objs : free'[o] = 0 =>
          \/ free[o] = 0 /\ holds'[o] = holds[o]
          \/ \E j \in 1..Len(wire) : holds'[o] = wire[j]
    /\ \A j \in 1..Len(wire') : \E l \in 1..Len(wire) : wire'[j] = wire[l]

LEMMA PoolsStay ==
    ASSUME FeedInv, FeedInv', FollowInv, NothingNewInTransit,
           UNCHANGED <<chain, msgs, mx, reading>>
    PROVE  FollowInv'
<1>1. NodeInv /\ NodeInv' /\ MatrixInv /\ StatesInv /\ Behind /\ TraceInv
  BY DEF FeedInv, FollowInv
<1>2. Behind'
  BY <1>1, BehindKept DEF NothingNewInTransit
<1>3. StatesInv' /\ TraceInv'
  BY <1>1, ChainStays
<1>4. QED
  BY <1>2, <1>3 DEF FollowInv

\* Putting an object back puts nothing on its way.
LEMMA ReleaseTransit ==
    ASSUME FeedInv, NEW o \in Objs, free[o] = 0, Put(o), wire' = wire
    PROVE  NothingNewInTransit
<1>1. \A x \in Objs : /\ free'[x] = IF x = o THEN 1 ELSE free[x]
                      /\ x # o => holds'[x] = holds[x]
  BY PutBack DEF FeedInv
<1>2. QED
  BY <1>1 DEF NothingNewInTransit

LEMMA ReaderFollows ==
    ASSUME FeedInv, FeedInv', FollowInv, Reader \/ Disconnect
    PROVE  FollowInv'
<1>1. NodeInv /\ HolderInv
  BY DEF FeedInv
<1>2. CASE Connect \/ ConnectFails \/ BackOff \/ Forward
  <2>1. UNCHANGED <<node, free, holds, matrix, reading>>
    BY <1>2 DEF Connect, ConnectFails, BackOff, Forward, objects
  <2>2. UNCHANGED <<chain, msgs, mx, reading>> /\ NothingNewInTransit
    BY <2>1 DEF node, matrix, NothingNewInTransit
  <2>3. QED
    BY <2>2, PoolsStay
<1>3. CASE Disconnect
  <2>1. UNCHANGED <<chain, msgs, objects, matrix, reading>> /\ wire' = <<>>
    BY <1>3 DEF Disconnect
  <2>2. \A j : j \notin 1..Len(wire')
    <3>1. Len(wire') = 0
      BY <2>1
    <3>2. QED
      BY <3>1
  <2>3. UNCHANGED <<chain, msgs, mx, reading>> /\ NothingNewInTransit
    BY <2>1, <2>2 DEF objects, matrix, NothingNewInTransit
  <2>4. QED
    BY <2>3, PoolsStay
<1>4. ASSUME NEW o \in Objs, Read(o) PROVE FollowInv'
  <2>1. /\ UNCHANGED <<chain, msgs, matrix, reading>>
        /\ wire # <<>> /\ wire' = Tail(wire)
        /\ free' = [free EXCEPT ![o] = @ - 1]
        /\ holds' = [holds EXCEPT ![o] = Head(wire)]
    BY <1>4 DEF Read
  <2>2. wire \in Seq(1..Len(msgs))
    BY <1>1 DEF NodeInv
  <2>3. /\ Head(wire) = wire[1] /\ 1 \in 1..Len(wire)
        /\ \A j \in 1..Len(wire') : j + 1 \in 1..Len(wire) /\ wire'[j] = wire[j + 1]
    BY <2>1, <2>2
  <2>4. \A x \in Objs : x # o => free'[x] = free[x] /\ holds'[x] = holds[x]
    BY <1>1, <2>1 DEF HolderInv, ObjectTypes
  <2>5. holds'[o] = wire[1]
    BY <1>1, <2>1, <2>3 DEF HolderInv, ObjectTypes
  <2>6. NothingNewInTransit
    BY <2>3, <2>4, <2>5 DEF NothingNewInTransit
  <2>7. UNCHANGED <<chain, msgs, mx, reading>>
    BY <2>1 DEF matrix
  <2>8. QED
    BY <2>6, <2>7, PoolsStay
<1>5. CASE Discard
  <2>1. UNCHANGED <<node, matrix, reading>> /\ rd.pc = "parsed" /\ Put(rd.obj)
    BY <1>5 DEF Discard
  <2>2. rd.obj \in Objs /\ free[rd.obj] = 0
    BY <1>1, <2>1, ConstantsTyped DEF HolderInv, ObjectTypes
  <2>3. UNCHANGED <<chain, msgs, mx, reading>> /\ wire' = wire
    BY <2>1 DEF node, matrix
  <2>4. QED
    BY <2>1, <2>2, <2>3, ReleaseTransit, PoolsStay
<1>6. QED
  BY <1>2, <1>3, <1>4, <1>5 DEF Reader

\* worker1 but for Apply: the pools stay, or are forgotten.
LEMMA WorkerFollows ==
    ASSUME FeedInv, FeedInv', FollowInv,
           TakeLog \/ LearnHash \/ HashFails \/ ClearMatrix \/ Reseed \/ Skip
    PROVE  FollowInv'
<1>1. NodeInv /\ NodeInv' /\ HolderInv /\ MatrixInv /\ StatesInv /\ Behind /\ TraceInv
  BY DEF FeedInv, FollowInv
<1>2. CASE TakeLog \/ LearnHash
  <2>1. UNCHANGED <<node, free, holds, matrix, reading>>
    BY <1>2 DEF TakeLog, LearnHash, objects
  <2>2. UNCHANGED <<chain, msgs, mx, reading>> /\ NothingNewInTransit
    BY <2>1 DEF node, matrix, NothingNewInTransit
  <2>3. QED
    BY <2>2, PoolsStay
<1>3. CASE HashFails \/ Reseed \/ Skip
  <2>1. UNCHANGED <<mx, reading>> /\ UNCHANGED node /\ w1.pc # "idle" /\ Put(w1.obj)
    BY <1>3 DEF HashFails, Reseed, Skip, Release, matrix
  <2>2. w1.obj \in Objs /\ free[w1.obj] = 0
    BY <1>1, <2>1, ConstantsTyped DEF HolderInv, ObjectTypes
  <2>3. UNCHANGED <<chain, msgs, mx, reading>> /\ wire' = wire
    BY <2>1 DEF node
  <2>4. QED
    BY <2>1, <2>2, <2>3, ReleaseTransit, PoolsStay
<1>4. CASE ClearMatrix
  <2>1. UNCHANGED <<node, objects, reading>> /\ mx' = [p \in Pools |-> Unknown]
    BY <1>4 DEF ClearMatrix
  <2>2. UNCHANGED <<chain, msgs, reading, free, holds, wire>>
    BY <2>1 DEF node, objects
  <2>3. \A p \in Pools : ~ mx'[p].known /\ mx'[p].seen = {}
    BY <2>1 DEF Unknown
  <2>4. StatesInv' /\ TraceInv'
    BY <1>1, <2>2, <2>3, ChainStays
  <2>5. Behind'
    BY <2>3 DEF Behind
  <2>6. QED
    BY <2>4, <2>5 DEF FollowInv
<1>5. QED
  BY <1>2, <1>3, <1>4

\* The log worker1 applies is newer than those its pool has taken, and older than those
\* on their way.
LEMMA ApplyFollows ==
    ASSUME FeedInv, FeedInv', FollowInv, Apply
    PROVE  FollowInv'
<1>1. /\ NodeInv /\ NodeInv' /\ HolderInv /\ OrderInv /\ MatrixInv
      /\ StatesInv /\ Behind /\ TraceInv
  BY DEF FeedInv, FollowInv
<1> DEFINE q == Log.pool  o == w1.obj  h == holds[o]  new == Updated(q)
<1>2. /\ w1.pc = "check" /\ mx[q].known /\ Put(o) /\ UNCHANGED node
      /\ mx' = [mx EXCEPT ![q] = new] /\ reading' = reading
  BY DEF Apply, Release
<1>3. o \in Objs /\ free[o] = 0
  BY <1>1, <1>2, ConstantsTyped DEF HolderInv, ObjectTypes
<1>4. h \in 1..Len(msgs) /\ q \in Pools /\ msgs[h].pool = q
  BY <1>3, LogTyped DEF Log
<1>5. PICK S : mx \in [Pools -> PoolRecords(S)]
  BY <1>1 DEF MatrixInv
<1>6. /\ new.known /\ new.snap = mx[q].snap /\ new.seen = mx[q].seen \cup {h}
      /\ new.st = Taken(q, mx[q].st, msgs[h].val)
  <2> DEFINE old == mx[q]
             st == IF q \in V3Pools THEN Log.val ELSE UpdateV2(old.st, Log.val.in, Log.val.out)
  <2>1. new = [old EXCEPT !.st = st, !.seen = old.seen \cup {h}, !.by = w1.hash]
    BY DEF Updated
  <2>2. st = Taken(q, old.st, msgs[h].val)
    BY DEF Taken, Log
  <2>3. old \in PoolRecords(S) /\ old.known
    BY <1>2, <1>4, <1>5
  <2> HIDE DEF st, old, new, h, q
  <2>4. new.known /\ new.snap = old.snap /\ new.seen = old.seen \cup {h} /\ new.st = st
    BY <2>1, <2>3 DEF PoolRecords
  <2>5. QED
    BY <2>2, <2>4 DEF old
<1>7. /\ UNCHANGED <<chain, msgs, wire>>
      /\ \A x \in Objs : /\ free'[x] = IF x = o THEN 1 ELSE free[x]
                         /\ x # o => holds'[x] = holds[x]
  BY <1>1, <1>2, <1>3, PutBack DEF node
<1>8. \A i \in mx[q].seen : i < h
  BY <1>1, <1>3, <1>4 DEF Behind
<1>9. /\ \A x \in Objs : x # o /\ free[x] = 0 => h < holds[x]
      /\ \A j \in 1..Len(wire) : h < wire[j]
  <2>1. ASSUME NEW x \in Objs, x # o, free[x] = 0 PROVE h < holds[x]
    <3>1. rd.obj = x \/ InChannel(x)
      BY <1>1, <2>1 DEF HolderInv
    <3>2. CASE rd.obj = x
      BY <1>1, <1>3, <3>2 DEF OrderInv
    <3>3. CASE InChannel(x)
      BY <1>1, <1>3, <3>3 DEF OrderInv, InChannel
    <3>4. QED
      BY <3>1, <3>2, <3>3
  <2>2. QED
    BY <1>1, <1>3, <2>1 DEF OrderInv
<1> HIDE DEF new, h, q, o
<1>10. \A p \in Pools : mx'[p] = IF p = q THEN new ELSE mx[p]
  BY <1>2, <1>5
<1>11. Behind'
  <2> SUFFICES ASSUME NEW p \in Pools, NEW i \in mx'[p].seen
               PROVE  /\ \A x \in Objs : free'[x] = 0 => i < holds'[x]
                      /\ \A j \in 1..Len(wire') : i < wire'[j]
    BY DEF Behind
  <2>1. CASE i \in mx[p].seen
    <3>1. /\ \A x \in Objs : free[x] = 0 => i < holds[x]
          /\ \A j \in 1..Len(wire) : i < wire[j]
      BY <1>1, <2>1 DEF Behind
    <3>2. QED
      BY <1>7, <3>1
  <2>2. CASE i = h
    BY <1>7, <1>9, <2>2
  <2>3. QED
    BY <1>6, <1>10, <2>1, <2>2
<1>12. ASSUME NEW g, Trace(q, msgs, g, Genesis.st[q], Tip.st[q]), Reflects(msgs, mx[q], q, g)
       PROVE  Reflects(msgs, new, q, g)
  <2>1. PICK V : msgs \in Seq(LogRecords(1..Len(chain), V))
    BY <1>1 DEF NodeInv
  <2>2. mx[q].seen \subseteq 1..Len(msgs) /\ mx[q].snap \in 0..Len(msgs)
    BY <1>1, <1>4, PoolsTyped
  <2> DEFINE r == mx[q]  x == Genesis.st[q]  y == Tip.st[q]
  <2>3. /\ Trace(q, msgs, g, x, y) /\ Reflects(msgs, r, q, g) /\ r.known
        /\ r.seen \subseteq 1..Len(msgs) /\ r.snap \in 0..Len(msgs) /\ \A i \in r.seen : i < h
        /\ new.snap = r.snap /\ new.seen = r.seen \cup {h} /\ new.st = Taken(q, r.st, msgs[h].val)
    BY <1>2, <1>6, <1>8, <1>12, <2>2
  <2> HIDE DEF r, x, y
  <2>4. QED
    BY <1>4, <2>1, <2>3, ReflectsTaken
<1>13. StatesInv' /\ TraceInv'
  <2>1. \A p \in Pools :
          \/ mx'[p] = mx[p]
          \/ \A g : Trace(p, msgs, g, Genesis.st[p], Tip.st[p]) /\ Reflects(msgs, mx[p], p, g)
                       => Reflects(msgs, mx'[p], p, g)
    BY <1>10, <1>12
  <2>2. QED
    BY <1>1, <1>2, <1>7, <2>1, ChainStays
<1>14. QED
  BY <1>11, <1>13 DEF FollowInv

LEMMA GatekeeperFollows ==
    ASSUME FeedInv, FeedInv', FollowInv, Gatekeeper
    PROVE  FollowInv'
<1>1. NodeInv /\ NodeInv' /\ MatrixInv /\ StatesInv /\ Behind /\ TraceInv
  BY DEF FeedInv, FollowInv
<1>2. PICK q \in Pools : ReadPool(q) \/ RegisterPool(q)
  BY DEF Gatekeeper
<1>3. PICK T : reading \in [Pools -> PoolRecords(T)]
  BY <1>1 DEF MatrixInv
<1>4. PICK S : mx \in [Pools -> PoolRecords(S)]
  BY <1>1 DEF MatrixInv
<1>5. Len(msgs) \in Nat
  BY <1>1 DEF NodeInv
<1>6. UNCHANGED <<chain, msgs, wire, free, holds>>
  BY <1>2 DEF ReadPool, RegisterPool, node, objects
<1>7. CASE ReadPool(q)
  <2> DEFINE new == [Unknown EXCEPT !.known = TRUE, !.st = Tip.st[q], !.snap = Len(msgs)]
  <2>1. mx' = mx /\ reading' = [reading EXCEPT ![q] = new]
    BY <1>7 DEF ReadPool, matrix
  <2>2. new.seen = {} /\ new.snap = Len(msgs) /\ new.st = Tip.st[q]
    BY DEF Unknown
  <2> HIDE DEF new
  <2>3. \A p \in Pools : reading'[p] = IF p = q THEN new ELSE reading[p]
    BY <1>3, <2>1
  <2>4. \A g : Trace(q, msgs, g, Genesis.st[q], Tip.st[q]) => Reflects(msgs, new, q, g)
    BY <1>5, <2>2, ReflectsRead
  <2>5. StatesInv' /\ TraceInv'
    BY <1>1, <1>6, <2>1, <2>3, <2>4, ChainStays
  <2>6. Behind'
    BY <1>1, <1>6, <2>1 DEF Behind
  <2>7. QED
    BY <2>5, <2>6 DEF FollowInv
<1>8. CASE RegisterPool(q)
  <2>1. /\ mx' = [mx EXCEPT ![q] = IF mx[q].known THEN mx[q] ELSE reading[q]]
        /\ reading' = [reading EXCEPT ![q] = Unknown]
    BY <1>8 DEF RegisterPool
  <2>2. \A p \in Pools : mx'[p] = mx[p] \/ mx'[p] = reading[p]
    BY <1>4, <2>1
  <2>3. \A p \in Pools : reading'[p] = reading[p] \/ ~ reading'[p].known
    BY <1>3, <2>1 DEF Unknown
  <2>4. StatesInv' /\ TraceInv'
    BY <1>1, <1>6, <2>2, <2>3, ChainStays
  <2>5. \A p \in Pools : mx'[p].seen \subseteq mx[p].seen
    BY <1>1, <2>2 DEF MatrixInv
  <2>6. Behind'
    BY <1>1, <1>6, <2>5 DEF Behind
  <2>7. QED
    BY <2>4, <2>6 DEF FollowInv
<1>9. QED
  BY <1>2, <1>7, <1>8

LEMMA FollowInit == Init => FollowInv
<1> SUFFICES ASSUME Init PROVE FollowInv
  OBVIOUS
<1>1. Len(chain) = 1 /\ chain[1] = Genesis /\ Tip = Genesis
  BY DEF Init, Tip
<1>2. StatesInv
  <2>1. DOMAIN Genesis.st = Pools
    BY DEF Genesis
  <2>2. \A i \in 1..Len(chain) : chain[i] = Genesis
    BY <1>1
  <2>3. \A i : i \notin 2..Len(chain)
    BY <1>1
  <2>4. QED
    BY <2>1, <2>2, <2>3 DEF StatesInv
<1>3. \A p \in Pools : mx[p] = Unknown /\ reading[p] = Unknown
  BY DEF Init
<1>4. Behind
  BY <1>3 DEF Behind, Unknown
<1>5. TraceInv
  <2> SUFFICES ASSUME NEW p \in Pools, p \in V3Pools
               PROVE  \E g : /\ Trace(p, msgs, g, Genesis.st[p], Tip.st[p])
                             /\ Reflects(msgs, mx[p], p, g) /\ Reflects(msgs, reading[p], p, g)
    BY DEF TraceInv
  <2> DEFINE x == Genesis.st[p]  g == [i \in 0..0 |-> x]
  <2>1. Len(msgs) = 0
    BY DEF Init
  <2>2. Trace(p, msgs, g, x, x)
    <3> HIDE DEF x
    <3>1. QED
      BY <2>1 DEF Trace, Leads
  <2> HIDE DEF g
  <2>3. Reflects(msgs, mx[p], p, g) /\ Reflects(msgs, reading[p], p, g)
    BY <1>3 DEF Reflects, Unknown
  <2>4. QED
    BY <1>1, <2>2, <2>3
<1>6. QED
  BY <1>2, <1>4, <1>5 DEF FollowInv

LEMMA FollowNext == FeedInv /\ FollowInv /\ [Next]_vars => FollowInv'
<1> SUFFICES ASSUME FeedInv, FollowInv, [Next]_vars PROVE FollowInv'
  OBVIOUS
<1>1. FeedInv'
  BY NextKeeps
<1>2. CASE NewBlock
  BY <1>2, NewBlockFollows
<1>3. CASE Reorg
  BY <1>3, ReorgFollows
<1>4. CASE CacheHead \/ UNCHANGED vars
  <2>1. UNCHANGED <<chain, msgs, mx, reading>> /\ UNCHANGED <<wire, free, holds>>
    BY <1>4 DEF CacheHead, vars, node, objects, matrix
  <2>2. NothingNewInTransit
    BY <2>1 DEF NothingNewInTransit
  <2>3. QED
    BY <1>1, <2>1, <2>2, PoolsStay
<1>5. CASE Reader \/ Disconnect
  BY <1>1, <1>5, ReaderFollows
<1>6. CASE Worker1
  BY <1>1, <1>6, WorkerFollows, ApplyFollows DEF Worker1
<1>7. CASE Gatekeeper
  BY <1>1, <1>7, GatekeeperFollows
<1>8. QED
  BY <1>2, <1>3, <1>4, <1>5, <1>6, <1>7 DEF Next

LEMMA SpecFollows == Spec => [](FeedInv /\ FollowInv)
<1>1. Init => FeedInv /\ FollowInv
  BY InitInv, FollowInit
<1>2. FeedInv /\ FollowInv /\ [Next]_vars => (FeedInv /\ FollowInv)'
  BY NextKeeps, FollowNext
<1>3. QED
  BY <1>1, <1>2, PTL DEF Spec

\* The newest of the logs of a pool, if it has one.
LEMMA NewestLog ==
    ASSUME NEW n \in Nat, NEW L, L \subseteq 1..n, L # {}
    PROVE  \E m \in L : \A i \in L : i <= m
<1> DEFINE Newest(k, m) == m \in L /\ m <= k /\ \A i \in L : i <= k => i <= m
           B == {k \in 0..n : (\A i \in L : ~ (i <= k)) \/ \E m : Newest(k, m)}
<1>1. 0 \in B
  OBVIOUS
<1>2. ASSUME NEW k \in 0..n - 1, k \in B PROVE k + 1 \in B
  <2>1. k \in Nat /\ k + 1 \in 0..n
    OBVIOUS
  <2>2. \A i \in L : i \in Nat /\ (i <= k + 1 => i <= k \/ i = k + 1)
    BY <2>1
  <2>3. CASE k + 1 \in L
    <3>1. Newest(k + 1, k + 1)
      BY <2>1, <2>3
    <3> HIDE DEF Newest
    <3>2. QED
      BY <2>1, <3>1
  <2>4. CASE k + 1 \notin L
    <3>1. \A i \in L : i <= k + 1 <=> i <= k
      BY <2>1, <2>2, <2>4
    <3>2. \A m : Newest(k, m) => Newest(k + 1, m)
      BY <3>1
    <3> HIDE DEF Newest
    <3>3. QED
      BY <1>2, <2>1, <3>1, <3>2
  <2>5. QED
    BY <2>3, <2>4
<1>3. n \in B
  <2> HIDE DEF B
  <2>1. QED
    BY <1>1, <1>2, Induction
<1>4. \A i \in L : i <= n
  OBVIOUS
<1>5. PICK m : Newest(n, m)
  <2> HIDE DEF Newest
  <2>1. QED
    BY <1>3, <1>4
<1>6. QED
  BY <1>4, <1>5

LEMMA Follows ==
    ASSUME FeedInv, FollowInv, NEW p \in Pools, p \in V3Pools, UpToDate(p)
    PROVE  mx[p].st = Tip.st[p]
<1>1. PICK g : Trace(p, msgs, g, Genesis.st[p], Tip.st[p]) /\ Reflects(msgs, mx[p], p, g)
  BY DEF FollowInv, TraceInv
<1> DEFINE n == Len(msgs)  new == {i \in LogsOf(p) : i > mx[p].snap}
           newest == {i \in LogsOf(p) : \A j \in LogsOf(p) : j <= i}
<1>2. n \in Nat /\ DOMAIN msgs = 1..n
  BY DEF FeedInv, NodeInv
<1>3. /\ mx[p].seen \subseteq 1..n /\ mx[p].snap \in Nat /\ mx[p].snap <= n /\ mx[p].known
  BY PoolsTyped DEF FeedInv, UpToDate
<1>4. g[n] = Tip.st[p] /\ Leads(p, msgs, g)
  BY <1>1 DEF Trace
<1> HIDE DEF n
<1>5. CASE p \in V3Pools /\ mx[p].seen # {}
  <2>1. newest \subseteq mx[p].seen /\ \A i \in newest : ~ msgs[i].removed
    BY <1>5 DEF UpToDate
  <2>2. PICK m \in mx[p].seen : /\ \A i \in mx[p].seen : i <= m
                                /\ msgs[m].pool = p /\ mx[p].st = msgs[m].val
    BY <1>1, <1>3, <1>5 DEF Reflects
  <2>3. m \in LogsOf(p) /\ LogsOf(p) \subseteq 1..n
    BY <1>2, <1>3, <2>2 DEF LogsOf
  <2>4. PICK l \in LogsOf(p) : \A i \in LogsOf(p) : i <= l
    <3>1. LogsOf(p) # {}
      BY <2>3
    <3>2. QED
      BY <1>2, <2>3, <3>1, NewestLog
  <2>5. l \in mx[p].seen /\ ~ msgs[l].removed /\ l \in 1..n
    BY <2>1, <2>3, <2>4
  <2>6. m = l
    <3>1. m <= l /\ l <= m /\ m \in 1..n
      BY <2>2, <2>3, <2>4, <2>5
    <3>2. QED
      BY <1>2, <2>5, <3>1
  <2>7. g[l] = msgs[l].val
    BY <1>4, <1>5, <2>2, <2>5, <2>6 DEF Leads, Taken, n
  <2>8. \A i \in l + 1..n : msgs[i].pool # p
    <3>1. SUFFICES ASSUME NEW i \in l + 1..n, msgs[i].pool = p PROVE FALSE
      OBVIOUS
    <3>2. i \in 1..n /\ ~ (i <= l)
      BY <1>2, <2>5
    <3>3. QED
      BY <1>2, <2>4, <3>1, <3>2 DEF LogsOf
  <2>9. l \in 0..n /\ n \in 0..n /\ l <= n
    BY <1>2, <2>5
  <2>10. g[l] = g[n]
    BY <1>4, <2>8, <2>9 DEF Leads, n
  <2>11. QED
    BY <1>4, <2>2, <2>6, <2>7, <2>10
<1>6. CASE ~ (p \in V3Pools /\ mx[p].seen # {})
  <2>1. mx[p].seen = new /\ \A i \in new : ~ msgs[i].removed
    BY <1>6 DEF UpToDate
  <2>2. new = Since(msgs, p, mx[p].snap, n)
    <3>1. \A i \in 1..n : i > mx[p].snap <=> i \in mx[p].snap + 1..n
      BY <1>2, <1>3
    <3>2. \A i \in mx[p].snap + 1..n : i \in 1..n
      BY <1>2, <1>3
    <3>3. QED
      BY <1>2, <3>1, <3>2 DEF Since, LogsOf
  <2>3. n \in mx[p].snap..n
    BY <1>2, <1>3
  <2>4. mx[p].st = g[n]
    BY <1>1, <1>3, <1>6, <2>1, <2>2, <2>3 DEF Reflects, n
  <2>5. QED
    BY <1>4, <2>4
<1>7. QED
  BY <1>5, <1>6

\* The part of FollowsChain that is about V3 pools.
V3FollowsChain == \A p \in V3Pools : UpToDate(p) => mx[p].st = Tip.st[p]

\* A V3 pool whose newest log has arrived, or that was read since, is in the state the
\* chain has it in, whatever was lost before and whichever way is traded, because a log
\* carries the state it leaves (matrix.go:464-500).
THEOREM V3PoolsFollowTheChain == Spec => []V3FollowsChain
<1>1. FeedInv /\ FollowInv => V3FollowsChain
  BY Follows DEF V3FollowsChain, Pools
<1>2. QED
  BY <1>1, SpecFollows, PTL
=============================================================================
