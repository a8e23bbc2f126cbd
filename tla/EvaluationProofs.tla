----------------------------- MODULE EvaluationProofs -----------------------------
(* Theorems about Evaluation, for any callers and workers, pools, reserves and   *)
(* routes, any capacity of taskCh, and room in a resultCh for the tasks of a call: *)
(* that calls end and channels close in order, and that candidates hold up.       *)
EXTENDS Evaluation, FunctionTheorems, FiniteSetTheorems, SequenceTheorems, TLAPS

-----------------------------------------------------------------------------
(* The invariant.                                                             *)

\* A call, a worker and a task, whatever the candidates and routes they carry.
CallRecords(S, T, G) ==
    [pc : {"idle", "enqueue", "sending", "drain"}, todo : Seq(S), wg : Nat, open : BOOLEAN,
     chan : Seq(T), got : G, answer : G]

IsCall(r) == \E S, T, G : r \in CallRecords(S, T, G)

WorkerRecords(S) ==
    [pc : {"idle"}, task : {NoTask}, routes : S, amounts : S, best : S]
        \cup [pc : {"size", "try", "send"}, task : [by : Callers, path : S],
              routes : S, amounts : S, best : S]

IsWorker(x) == \E S : x \in WorkerRecords(S)

TaskRecords(S) == [by : Callers, path : S]

Queued(c) == {i \in 1..Len(taskCh) : taskCh[i].by = c}
Busy(c) == {w \in Workers : wk[w].pc # "idle" /\ wk[w].task.by = c}
Sending(r) == IF r.pc = "sending" THEN 1 ELSE 0

\* The wait group of a call counts its tasks that are queued, in a worker's hands, or
\* about to be queued.
WaitGroupInv ==
    \A c \in Callers :
        caller[c].wg = Cardinality(Queued(c)) + Cardinality(Busy(c)) + Sending(caller[c])

MaxTasks == 2 * Len(AnchorAssets)

\* What may still come has room in resultCh, which is closed once nothing may.
IsSound(r) ==
    /\ r.pc = "idle" => r.wg = 0 /\ r.open
    /\ ~ r.open => r.pc = "drain" /\ r.wg = 0
    /\ r.pc = "sending" => r.todo # <<>>
    /\ Len(r.chan) + r.wg + Len(r.todo) - Sending(r) <= MaxTasks

StateInv ==
    /\ \E R : caller \in [Callers -> R]
    /\ \A c \in Callers : IsCall(caller[c])
    /\ \E R : wk \in [Workers -> R]
    /\ \A w \in Workers : IsWorker(wk[w])
    /\ \E S : taskCh \in Seq(TaskRecords(S))
    /\ Len(taskCh) <= TaskCap
    /\ \A c \in Callers : IsSound(caller[c])

EvaluationInv == StateInv /\ WaitGroupInv

-----------------------------------------------------------------------------
(* Counting.                                                                  *)

LEMMA Constants ==
    /\ TaskCap \in Nat /\ TaskCap > 0 /\ ResultCap \in Nat
    /\ Len(AnchorAssets) \in Nat /\ MaxTasks \in Nat /\ ResultCap >= MaxTasks
    /\ IsFiniteSet(Workers) /\ Workers # {}
<1>1. Len(AnchorAssets) \in Nat
  BY EvaluationAssumption
<1>2. QED
  BY <1>1, EvaluationAssumption DEF MaxTasks

LEMMA SeqWider ==
    ASSUME NEW S, NEW T, S \subseteq T, NEW s \in Seq(S)
    PROVE  s \in Seq(T)
<1>1. PICK k \in Nat : s \in [1..k -> S]
  BY SeqDef
<1>2. s \in [1..k -> T]
  BY <1>1
<1>3. QED
  BY <1>2, SeqDef

LEMMA CountsFinite ==
    ASSUME StateInv, NEW c
    PROVE  /\ IsFiniteSet(Queued(c)) /\ Cardinality(Queued(c)) \in Nat
           /\ IsFiniteSet(Busy(c)) /\ Cardinality(Busy(c)) \in Nat
<1>1. Len(taskCh) \in Nat
  BY DEF StateInv
<1>2. IsFiniteSet(1..Len(taskCh)) /\ IsFiniteSet(Workers)
  BY <1>1, Constants, FS_Interval
<1>3. Queued(c) \subseteq 1..Len(taskCh) /\ Busy(c) \subseteq Workers
  BY DEF Queued, Busy
<1>4. QED
  BY <1>2, <1>3, FS_Subset, FS_CardinalityType

\* A task that is sent is one more of its call.
LEMMA QueuedMore ==
    ASSUME StateInv, NEW task, taskCh' = Append(taskCh, task), NEW c
    PROVE  Cardinality(Queued(c)') = Cardinality(Queued(c)) + (IF task.by = c THEN 1 ELSE 0)
<1> DEFINE n == Len(taskCh)
<1>1. PICK S : taskCh \in Seq(TaskRecords(S))
  BY DEF StateInv
<1>2. /\ n \in Nat /\ Len(taskCh') = n + 1 /\ taskCh'[n + 1] = task
      /\ \A i \in 1..n : taskCh'[i] = taskCh[i]
  <2> DEFINE T == TaskRecords(S) \cup {task}
  <2>1. taskCh \in Seq(T) /\ task \in T
    BY <1>1
  <2> HIDE DEF T
  <2>2. QED
    BY <2>1, AppendProperties
<1>3. \A i : i \in 1..n + 1 <=> i \in 1..n \/ i = n + 1
  BY <1>2
<1>4. n + 1 \notin 1..n
  BY <1>2
<1> HIDE DEF n
<1>5. Queued(c) = {i \in 1..n : taskCh[i].by = c} /\ Queued(c)' = {i \in 1..n + 1 : taskCh'[i].by = c}
  BY <1>2 DEF Queued, n
<1>6. CASE task.by = c
  <2>1. Queued(c)' = Queued(c) \cup {n + 1} /\ n + 1 \notin Queued(c)
    BY <1>2, <1>3, <1>4, <1>5, <1>6
  <2>2. QED
    BY <1>6, <2>1, CountsFinite, FS_AddElement
<1>7. CASE task.by # c
  <2>1. Queued(c)' = Queued(c)
    BY <1>2, <1>3, <1>5, <1>7
  <2>2. QED
    BY <1>7, <2>1, CountsFinite
<1>8. QED
  BY <1>6, <1>7

\* A task that is taken is one less of its call.
LEMMA QueuedLess ==
    ASSUME StateInv, taskCh # <<>>, taskCh' = Tail(taskCh), NEW c
    PROVE  /\ Cardinality(Queued(c)) = Cardinality(Queued(c)') + (IF Head(taskCh).by = c THEN 1 ELSE 0)
           /\ Cardinality(Queued(c)') \in Nat
<1> DEFINE n == Len(taskCh)  rest == Queued(c)'
           shift == [i \in rest |-> i + 1]
<1>1. PICK S : taskCh \in Seq(TaskRecords(S))
  BY DEF StateInv
<1>2. /\ n \in Nat /\ n >= 1 /\ Len(taskCh') = n - 1 /\ Head(taskCh) = taskCh[1]
      /\ \A i \in 1..n - 1 : taskCh'[i] = taskCh[i + 1]
  BY <1>1
<1> HIDE DEF n
<1>3. Queued(c) = {i \in 1..n : taskCh[i].by = c} /\ rest = {i \in 1..n - 1 : taskCh'[i].by = c}
  BY <1>2 DEF Queued, n
<1>4. \A i \in rest : i \in Nat /\ i + 1 \in Queued(c) \ {1}
  BY <1>2, <1>3
<1>5. \A i \in Queued(c) \ {1} : i - 1 \in rest /\ (i - 1) + 1 = i
  <2>1. SUFFICES ASSUME NEW i \in Queued(c) \ {1} PROVE i - 1 \in rest /\ (i - 1) + 1 = i
    OBVIOUS
  <2>2. i \in 1..n /\ i # 1 /\ taskCh[i].by = c
    BY <1>3
  <2>3. i - 1 \in 1..n - 1 /\ (i - 1) + 1 = i
    BY <1>2, <2>2
  <2>4. taskCh'[i - 1] = taskCh[i]
    BY <1>2, <2>3
  <2>5. QED
    BY <1>3, <2>2, <2>3, <2>4
<1> HIDE DEF rest
<1>6. shift \in Bijection(rest, Queued(c) \ {1})
  <2>1. shift \in [rest -> Queued(c) \ {1}]
    BY <1>4
  <2>2. \A i, j \in rest : shift[i] = shift[j] => i = j
    BY <1>4
  <2>3. \A j \in Queued(c) \ {1} : \E i \in rest : shift[i] = j
    BY <1>5
  <2> HIDE DEF shift
  <2>4. QED
    BY <2>1, <2>2, <2>3, Fun_IsBij
<1>7. IsFiniteSet(Queued(c)) /\ Cardinality(Queued(c)) \in Nat
  BY CountsFinite
<1>8. rest \subseteq 1..n - 1 /\ IsFiniteSet(rest)
  <2>1. rest \subseteq 1..n - 1
    BY <1>3
  <2>2. IsFiniteSet(1..n - 1)
    BY <1>2, FS_Interval
  <2>3. QED
    BY <2>1, <2>2, FS_Subset
<1>9. Cardinality(Queued(c) \ {1}) = Cardinality(rest)
  <2>1. ExistsBijection(rest, Queued(c) \ {1})
    BY <1>6 DEF ExistsBijection
  <2>2. QED
    BY <1>8, <2>1, FS_Bijection
<1>10. 1 \in Queued(c) <=> Head(taskCh).by = c
  BY <1>2, <1>3
<1>11. Cardinality(rest) \in Nat
  BY <1>8, FS_CardinalityType
<1>12. Cardinality(Queued(c) \ {1})
          = IF 1 \in Queued(c) THEN Cardinality(Queued(c)) - 1 ELSE Cardinality(Queued(c))
  BY <1>7, FS_RemoveElement
<1>13. Cardinality(Queued(c)) = Cardinality(rest) + (IF Head(taskCh).by = c THEN 1 ELSE 0)
  BY <1>7, <1>9, <1>10, <1>11, <1>12
<1>14. QED
  BY <1>11, <1>13 DEF rest

\* A worker that takes a task of c is one more; one that is done with it one less.
LEMMA BusyMore ==
    ASSUME StateInv, NEW w \in Workers, wk[w].pc = "idle", wk'[w].pc # "idle",
           \A x \in Workers \ {w} : wk'[x] = wk[x], NEW c
    PROVE  Cardinality(Busy(c)') = Cardinality(Busy(c)) + (IF wk'[w].task.by = c THEN 1 ELSE 0)
<1>1. CASE wk'[w].task.by = c
  <2>1. Busy(c)' = Busy(c) \cup {w} /\ w \notin Busy(c)
    BY <1>1 DEF Busy
  <2>2. QED
    BY <1>1, <2>1, CountsFinite, FS_AddElement
<1>2. CASE wk'[w].task.by # c
  <2>1. Busy(c)' = Busy(c)
    BY <1>2 DEF Busy
  <2>2. QED
    BY <1>2, <2>1, CountsFinite
<1>3. QED
  BY <1>1, <1>2

LEMMA BusyLess ==
    ASSUME StateInv, NEW w \in Workers, wk[w].pc # "idle", wk'[w].pc = "idle",
           \A x \in Workers \ {w} : wk'[x] = wk[x], NEW c
    PROVE  /\ Cardinality(Busy(c)) = Cardinality(Busy(c)') + (IF wk[w].task.by = c THEN 1 ELSE 0)
           /\ Cardinality(Busy(c)') \in Nat
<1>1. CASE wk[w].task.by = c
  <2>1. Busy(c)' = Busy(c) \ {w} /\ w \in Busy(c)
    BY <1>1 DEF Busy
  <2>2. Cardinality(Busy(c)') = Cardinality(Busy(c)) - 1 /\ IsFiniteSet(Busy(c)')
    BY <2>1, CountsFinite, FS_RemoveElement
  <2>3. Cardinality(Busy(c)') \in Nat
    BY <2>2, FS_CardinalityType
  <2>4. QED
    BY <1>1, <2>2, <2>3, CountsFinite
<1>2. CASE wk[w].task.by # c
  <2>1. Busy(c)' = Busy(c)
    BY <1>2 DEF Busy
  <2>2. QED
    BY <1>2, <2>1, CountsFinite
<1>3. QED
  BY <1>1, <1>2

LEMMA BusyKept ==
    ASSUME StateInv, NEW w \in Workers, wk[w].pc # "idle", wk'[w].pc # "idle",
           wk'[w].task = wk[w].task, \A x \in Workers \ {w} : wk'[x] = wk[x], NEW c
    PROVE  Busy(c)' = Busy(c)
  BY DEF Busy

-----------------------------------------------------------------------------
(* The steps of a call.                                                       *)

LEMMA IdleCall ==
    /\ \A G : {} \in G => NotCalled \in CallRecords({}, {}, G)
    /\ IsSound(NotCalled)
    /\ NotCalled.wg = 0 /\ NotCalled.pc = "idle" /\ NotCalled.todo = <<>> /\ NotCalled.chan = <<>>
    /\ NotCalled.open
<1>1. <<>> \in Seq({}) /\ Len(<<>>) = 0
  BY EmptySeq
<1>2. NotCalled = [pc |-> "idle", todo |-> <<>>, wg |-> 0, open |-> TRUE, chan |-> <<>>,
                   got |-> {}, answer |-> {}]
  BY DEF NotCalled
<1>3. QED
  BY <1>1, <1>2, Constants DEF CallRecords, IsSound, Sending

\* A step of the call of c alone, which keeps what its wait group counts.
LEMMA CallStep ==
    ASSUME EvaluationInv, NEW c \in Callers, NEW r, UNCHANGED <<taskCh, wk>>,
           caller' = [caller EXCEPT ![c] = r], IsCall(r), IsSound(r),
           r.wg - Sending(r) = caller[c].wg - Sending(caller[c])
    PROVE  EvaluationInv'
<1>1. PICK R : caller \in [Callers -> R]
  BY DEF EvaluationInv, StateInv
<1>2. caller' \in [Callers -> R \cup {r}] /\ \A d \in Callers : caller'[d] = IF d = c THEN r ELSE caller[d]
  BY <1>1
<1>3. taskCh' = taskCh /\ wk' = wk
  OBVIOUS
<1>4. StateInv'
  <2>1. \A d \in Callers : IsCall(caller'[d]) /\ IsSound(caller'[d])
    BY <1>2 DEF EvaluationInv, StateInv
  <2>2. QED
    BY <1>2, <1>3, <2>1 DEF EvaluationInv, StateInv
<1>5. WaitGroupInv'
  <2>1. SUFFICES ASSUME NEW d \in Callers
                 PROVE  caller'[d].wg = Cardinality(Queued(d)') + Cardinality(Busy(d)') + Sending(caller'[d])
    BY DEF WaitGroupInv
  <2>2. Queued(d)' = Queued(d) /\ Busy(d)' = Busy(d)
    BY <1>3 DEF Queued, Busy
  <2>3. caller[d].wg = Cardinality(Queued(d)) + Cardinality(Busy(d)) + Sending(caller[d])
    BY DEF EvaluationInv, WaitGroupInv
  <2>4. CASE d # c
    BY <1>2, <2>2, <2>3, <2>4
  <2>5. CASE d = c
    <3>1. Cardinality(Queued(d)) \in Nat /\ Cardinality(Busy(d)) \in Nat
      BY CountsFinite DEF EvaluationInv
    <3>2. caller'[d] = r /\ r.wg \in Nat /\ Sending(r) \in {0, 1} /\ Sending(caller[d]) \in {0, 1}
          /\ caller[d].wg \in Nat
      BY <1>2, <2>5 DEF IsCall, CallRecords, Sending, EvaluationInv, StateInv
    <3>3. QED
      BY <2>2, <2>3, <2>5, <3>1, <3>2
  <2>6. QED
    BY <2>4, <2>5
<1>6. QED
  BY <1>4, <1>5 DEF EvaluationInv

\* A call has no more tasks than its resultCh has room for.
LEMMA PathsFit ==
    ASSUME NEW a, NEW b
    PROVE  \E S : Paths(a, b) \in Seq(S) /\ Len(Paths(a, b)) <= MaxTasks
<1> DEFINE n == Len(AnchorAssets)
           path(i) == LET anchor == AnchorAssets[(i + 1) \div 2]
                      IN IF i % 2 = 1 THEN <<anchor, a, b>> ELSE <<anchor, b, a>>
           both == [i \in 1..2 * n |-> path(i)]
<1>1. n \in Nat /\ MaxTasks = 2 * n
  BY Constants DEF MaxTasks
<1>2. CASE {a, b} \subseteq Anchors
  <2>1. Paths(a, b) = <<>>
    BY <1>2 DEF Paths
  <2>2. <<>> \in Seq({}) /\ Len(<<>>) = 0
    BY EmptySeq
  <2>3. QED
    BY <1>1, <2>1, <2>2
<1>3. CASE ~ ({a, b} \subseteq Anchors) /\ (a \in Anchors \/ b \in Anchors)
  <2>1. Paths(a, b) \in {<< <<a, b>> >>, << <<b, a>> >>}
    BY <1>3 DEF Paths
  <2>2. n # 0
    BY <1>3 DEF Anchors, ToSet
  <2>3. Paths(a, b) \in Seq({<<a, b>>, <<b, a>>}) /\ Len(Paths(a, b)) = 1
    BY <2>1
  <2>4. QED
    BY <1>1, <2>2, <2>3
<1>4. CASE a \notin Anchors /\ b \notin Anchors
  <2>1. Paths(a, b) = both
    BY <1>4 DEF Paths
  <2> DEFINE k == 2 * n
             S == {path(i) : i \in 1..k}
  <2>2. k \in Nat /\ both \in [1..k -> S]
    <3>1. k \in Nat
      BY <1>1
    <3> HIDE DEF path
    <3>2. QED
      BY <3>1
  <2> HIDE DEF both, S, k
  <2>3. Paths(a, b) \in Seq(S) /\ Len(Paths(a, b)) = k
    BY <2>1, <2>2, SeqDef
  <2>4. QED
    BY <1>1, <2>2, <2>3 DEF k
<1>5. QED
  BY <1>2, <1>3, <1>4

LEMMA EvaluateEventKeeps ==
    ASSUME EvaluationInv, NEW c \in Callers, EvaluateEvent(c)
    PROVE  EvaluationInv'
<1>1. PICK log \in Logs :
        caller' = [caller EXCEPT ![c] = [NotCalled EXCEPT !.pc = "enqueue", !.todo = Paths(log[1], log[2])]]
  BY DEF EvaluateEvent
<1> DEFINE todo == Paths(log[1], log[2])
           r == [NotCalled EXCEPT !.pc = "enqueue", !.todo = todo]
<1>2. PICK S : todo \in Seq(S) /\ Len(todo) <= MaxTasks
  BY PathsFit
<1> HIDE DEF todo
<1>3. NotCalled \in CallRecords({}, {}, {{}})
  BY IdleCall
<1>4. /\ r \in CallRecords(S, {}, {{}})
      /\ r.pc = "enqueue" /\ r.todo = todo /\ r.wg = 0 /\ r.open /\ r.chan = <<>>
  BY <1>2, <1>3, IdleCall DEF CallRecords
<1> HIDE DEF r
<1>5. IsCall(r)
  BY <1>4 DEF IsCall
<1>6. IsSound(r) /\ r.wg = 0 /\ Sending(r) = 0
  <2>1. Len(<<>>) = 0 /\ Len(todo) \in Nat
    BY <1>2, EmptySeq
  <2>2. QED
    BY <1>2, <1>4, <2>1 DEF IsSound, Sending
<1>7. caller[c].wg = 0 /\ Sending(caller[c]) = 0
  BY DEF EvaluateEvent, EvaluationInv, StateInv, IsSound, Sending
<1>8. caller' = [caller EXCEPT ![c] = r]
  BY <1>1 DEF r, todo
<1>9. UNCHANGED <<taskCh, wk>>
  BY DEF EvaluateEvent
<1>10. QED
  BY <1>5, <1>6, <1>7, <1>8, <1>9, CallStep

\* The task in sight is counted before it is sent.
LEMMA AddKeeps ==
    ASSUME EvaluationInv, NEW c \in Callers, Add(c)
    PROVE  EvaluationInv'
<1> DEFINE old == caller[c]
           wg == old.wg + 1
           r == [old EXCEPT !.pc = "sending", !.wg = wg]
<1>1. /\ old.pc = "enqueue" /\ old.todo # <<>>
      /\ caller' = [caller EXCEPT ![c] = r] /\ UNCHANGED <<taskCh, wk>>
  BY DEF Add
<1>2. IsSound(old) /\ \E S, T, G : old \in CallRecords(S, T, G)
  BY DEF EvaluationInv, StateInv, IsCall
<1> HIDE DEF old
<1>0. PICK S, T, G : old \in CallRecords(S, T, G)
  BY <1>2
<1>3. /\ old.open /\ old.wg \in Nat /\ Len(old.todo) \in Nat /\ Len(old.chan) \in Nat
      /\ wg \in Nat /\ wg = old.wg + 1
  BY <1>0, <1>1, <1>2 DEF CallRecords, IsSound
<1> HIDE DEF wg
<1>4. /\ r \in CallRecords(S, T, G)
      /\ r.pc = "sending" /\ r.todo = old.todo /\ r.wg = wg /\ r.open
      /\ r.chan = old.chan
  BY <1>0, <1>3 DEF CallRecords
<1> HIDE DEF r
<1>5. IsCall(r)
  BY <1>4 DEF IsCall
<1>6. IsSound(r) /\ r.wg - Sending(r) = old.wg - Sending(old)
  <2>1. Sending(r) = 1 /\ Sending(old) = 0
    BY <1>1, <1>4 DEF Sending
  <2>2. Len(old.chan) + old.wg + Len(old.todo) <= MaxTasks
    BY <1>2, <1>3, <2>1, Constants DEF IsSound
  <2>3. Len(r.chan) + r.wg + Len(r.todo) - Sending(r) <= MaxTasks
    <3>1. Len(r.chan) = Len(old.chan) /\ Len(r.todo) = Len(old.todo) /\ r.wg = old.wg + 1
      BY <1>3, <1>4
    <3>2. Len(old.chan) \in Nat /\ Len(old.todo) \in Nat /\ old.wg \in Nat /\ MaxTasks \in Nat
      BY <1>3, Constants
    <3> DEFINE i == Len(old.chan)  j == old.wg  k == Len(old.todo)
    <3>3. i \in Nat /\ j \in Nat /\ k \in Nat /\ MaxTasks \in Nat /\ i + j + k <= MaxTasks
      BY <2>2, <3>2
    <3> HIDE DEF i, j, k
    <3>4. i + (j + 1) + k - 1 <= MaxTasks
      BY <3>3
    <3>5. QED
      BY <2>1, <3>1, <3>4 DEF i, j, k
  <2>4. r.todo # <<>>
    BY <1>1, <1>4
  <2>5. IsSound(r)
    BY <1>4, <2>3, <2>4 DEF IsSound
  <2>6. QED
    BY <1>3, <1>4, <2>1, <2>5
<1>7. QED
  BY <1>1, <1>5, <1>6, CallStep DEF old, r, wg

LEMMA CollectKeeps ==
    ASSUME EvaluationInv, NEW c \in Callers, Collect(c)
    PROVE  EvaluationInv'
<1> DEFINE old == caller[c]
           r == [old EXCEPT !.pc = "drain"]
<1>1. /\ old.pc = "enqueue" /\ caller' = [caller EXCEPT ![c] = r] /\ UNCHANGED <<taskCh, wk>>
  BY DEF Collect
<1>2. IsSound(old) /\ \E S, T, G : old \in CallRecords(S, T, G)
  BY DEF EvaluationInv, StateInv, IsCall
<1> HIDE DEF old
<1>0. PICK S, T, G : old \in CallRecords(S, T, G)
  BY <1>2
<1>3. /\ r \in CallRecords(S, T, G)
      /\ r.pc = "drain" /\ r.todo = old.todo /\ r.wg = old.wg /\ r.open = old.open
      /\ r.chan = old.chan
  BY <1>0 DEF CallRecords
<1> HIDE DEF r
<1>4. IsCall(r)
  BY <1>3 DEF IsCall
<1>5. IsSound(r) /\ r.wg = old.wg /\ Sending(r) = 0 /\ Sending(old) = 0
  BY <1>1, <1>2, <1>3 DEF IsSound, Sending
<1>6. QED
  BY <1>1, <1>4, <1>5, CallStep DEF old

LEMMA CloseResultsKeeps ==
    ASSUME EvaluationInv, NEW c \in Callers, CloseResults(c)
    PROVE  EvaluationInv'
<1> DEFINE old == caller[c]
           r == [old EXCEPT !.open = FALSE]
<1>1. /\ old.pc = "drain" /\ old.wg = 0
      /\ caller' = [caller EXCEPT ![c] = r] /\ UNCHANGED <<taskCh, wk>>
  BY DEF CloseResults, MayClose
<1>2. IsSound(old) /\ \E S, T, G : old \in CallRecords(S, T, G)
  BY DEF EvaluationInv, StateInv, IsCall
<1> HIDE DEF old
<1>0. PICK S, T, G : old \in CallRecords(S, T, G)
  BY <1>2
<1>3. /\ r \in CallRecords(S, T, G)
      /\ r.pc = "drain" /\ r.todo = old.todo /\ r.wg = 0 /\ ~ r.open /\ r.chan = old.chan
  BY <1>0, <1>1 DEF CallRecords
<1> HIDE DEF r
<1>4. IsCall(r)
  BY <1>3 DEF IsCall
<1>5. IsSound(r) /\ r.wg = old.wg /\ Sending(r) = 0 /\ Sending(old) = 0
  BY <1>1, <1>2, <1>3 DEF IsSound, Sending
<1>6. QED
  BY <1>1, <1>4, <1>5, CallStep DEF old

LEMMA ReceiveKeeps ==
    ASSUME EvaluationInv, NEW c \in Callers, Receive(c)
    PROVE  EvaluationInv'
<1> DEFINE old == caller[c]
           got == old.got \cup {Head(old.chan)}
           r == [old EXCEPT !.chan = Tail(old.chan), !.got = got]
<1>1. /\ old.pc = "drain" /\ old.chan # <<>>
      /\ caller' = [caller EXCEPT ![c] = r] /\ UNCHANGED <<taskCh, wk>>
  BY DEF Receive
<1>2. IsSound(old) /\ \E S, T, G : old \in CallRecords(S, T, G)
  BY DEF EvaluationInv, StateInv, IsCall
<1> HIDE DEF old, got
<1>0. PICK S, T, G : old \in CallRecords(S, T, G)
  BY <1>2
<1>3. old.chan \in Seq(T) /\ Len(old.todo) \in Nat /\ old.wg \in Nat
  BY <1>0 DEF CallRecords
<1>4. Tail(old.chan) \in Seq(T) /\ Len(Tail(old.chan)) = Len(old.chan) - 1 /\ Len(old.chan) \in Nat
  BY <1>1, <1>3
<1>5. /\ r \in CallRecords(S, T, G \cup {got})
      /\ r.pc = "drain" /\ r.todo = old.todo /\ r.wg = old.wg /\ r.open = old.open
      /\ r.chan = Tail(old.chan)
  BY <1>0, <1>1, <1>4 DEF CallRecords
<1> HIDE DEF r
<1>6. IsCall(r)
  BY <1>5 DEF IsCall
<1>8. IsSound(r) /\ r.wg = old.wg /\ Sending(r) = 0 /\ Sending(old) = 0
  BY <1>1, <1>2, <1>3, <1>4, <1>5, Constants DEF IsSound, Sending
<1>9. QED
  BY <1>1, <1>6, <1>8, CallStep DEF old

LEMMA AnswerKeeps ==
    ASSUME EvaluationInv, NEW c \in Callers, Answer(c)
    PROVE  EvaluationInv'
<1>1. /\ caller[c].pc = "drain" /\ ~ caller[c].open /\ UNCHANGED <<taskCh, wk>>
      /\ \E answer : caller' = [caller EXCEPT ![c] = [NotCalled EXCEPT !.answer = answer]]
  BY DEF Answer
<1>2. PICK answer : caller' = [caller EXCEPT ![c] = [NotCalled EXCEPT !.answer = answer]]
  BY <1>1
<1> DEFINE r == [NotCalled EXCEPT !.answer = answer]
<1>3. NotCalled \in CallRecords({}, {}, {{}, answer})
  BY IdleCall
<1>4. /\ r \in CallRecords({}, {}, {{}, answer})
      /\ r.pc = "idle" /\ r.todo = <<>> /\ r.wg = 0 /\ r.open /\ r.chan = <<>>
  BY <1>3, IdleCall DEF CallRecords
<1> HIDE DEF r
<1>5. IsCall(r)
  BY <1>4 DEF IsCall
<1>6. IsSound(r) /\ r.wg = 0 /\ Sending(r) = 0
  <2>1. Len(<<>>) = 0
    BY EmptySeq
  <2>2. QED
    BY <1>4, <2>1, Constants DEF IsSound, Sending
<1>7. caller[c].wg = 0 /\ Sending(caller[c]) = 0
  BY <1>1 DEF EvaluationInv, StateInv, IsSound, Sending
<1>8. QED
  BY <1>1, <1>2, <1>5, <1>6, <1>7, CallStep DEF r

LEMMA EnqueueKeeps ==
    ASSUME EvaluationInv, NEW c \in Callers, Enqueue(c)
    PROVE  EvaluationInv'
<1> DEFINE old == caller[c]
           task == [by |-> c, path |-> Head(old.todo)]
           r == [old EXCEPT !.pc = "enqueue", !.todo = Tail(old.todo)]
<1>1. /\ old.pc = "sending" /\ Len(taskCh) < TaskCap
      /\ taskCh' = Append(taskCh, task) /\ wk' = wk
      /\ caller' = [caller EXCEPT ![c] = r]
  BY DEF Enqueue
<1>2. IsSound(old) /\ \E S, T, G : old \in CallRecords(S, T, G)
  BY DEF EvaluationInv, StateInv, IsCall
<1>3. PICK R : caller \in [Callers -> R]
  BY DEF EvaluationInv, StateInv
<1>4. PICK U : taskCh \in Seq(TaskRecords(U))
  BY DEF EvaluationInv, StateInv
<1> HIDE DEF old
<1>5. PICK S, T, G : old \in CallRecords(S, T, G)
  BY <1>2
<1>6. old.todo \in Seq(S) /\ old.todo # <<>> /\ Len(old.chan) \in Nat /\ old.wg \in Nat /\ old.open
  BY <1>1, <1>2, <1>5 DEF CallRecords, IsSound
<1>7. Tail(old.todo) \in Seq(S) /\ Len(Tail(old.todo)) = Len(old.todo) - 1 /\ Len(old.todo) \in Nat
  BY <1>6
<1>8. /\ r \in CallRecords(S, T, G)
      /\ r.pc = "enqueue" /\ r.todo = Tail(old.todo) /\ r.wg = old.wg /\ r.open /\ r.chan = old.chan
  BY <1>5, <1>6, <1>7 DEF CallRecords
<1> HIDE DEF r
<1>9. Sending(r) = 0 /\ Sending(old) = 1
  BY <1>1, <1>8 DEF Sending
<1>10. IsSound(r)
  <2> DEFINE i == Len(old.chan)  j == old.wg  k == Len(old.todo)
  <2>1. i \in Nat /\ j \in Nat /\ k \in Nat /\ MaxTasks \in Nat /\ i + j + k - 1 <= MaxTasks
    BY <1>2, <1>6, <1>7, <1>9, Constants DEF IsSound
  <2> HIDE DEF i, j, k
  <2>2. i + j + (k - 1) - 0 <= MaxTasks
    BY <2>1
  <2>3. Len(r.chan) + r.wg + Len(r.todo) - Sending(r) <= MaxTasks
    BY <1>7, <1>8, <1>9, <2>2 DEF i, j, k
  <2>4. QED
    BY <1>8, <2>3 DEF IsSound
<1>11. caller' \in [Callers -> R \cup {r}] /\ \A d \in Callers : caller'[d] = IF d = c THEN r ELSE caller[d]
  BY <1>1, <1>3
<1>12. StateInv'
  <2>1. \A d \in Callers : IsCall(caller'[d]) /\ IsSound(caller'[d])
    BY <1>8, <1>10, <1>11 DEF EvaluationInv, StateInv, IsCall
  <2>2. /\ taskCh' \in Seq(TaskRecords(U \cup {task.path})) /\ Len(taskCh') = Len(taskCh) + 1
        /\ Len(taskCh) \in Nat
    <3> DEFINE V == U \cup {task.path}
    <3>1. task \in TaskRecords(V)
      BY DEF TaskRecords
    <3>2. TaskRecords(U) \subseteq TaskRecords(V)
      BY DEF TaskRecords
    <3>3. taskCh \in Seq(TaskRecords(V))
      BY <1>4, <3>2, SeqWider
    <3> HIDE DEF V, task
    <3>4. taskCh' \in Seq(TaskRecords(V)) /\ Len(taskCh') = Len(taskCh) + 1 /\ Len(taskCh) \in Nat
      BY <1>1, <3>1, <3>3, AppendProperties
    <3>5. QED
      BY <3>4 DEF V
  <2>3. Len(taskCh') <= TaskCap
    BY <1>1, <2>2, Constants
  <2>4. QED
    BY <1>1, <1>11, <2>1, <2>2, <2>3 DEF EvaluationInv, StateInv, TaskRecords
<1>13. WaitGroupInv'
  <2>1. SUFFICES ASSUME NEW d \in Callers
                 PROVE  caller'[d].wg = Cardinality(Queued(d)') + Cardinality(Busy(d)') + Sending(caller'[d])
    BY DEF WaitGroupInv
  <2>2. Busy(d)' = Busy(d)
    BY <1>1 DEF Busy
  <2>3. caller[d].wg = Cardinality(Queued(d)) + Cardinality(Busy(d)) + Sending(caller[d])
    BY DEF EvaluationInv, WaitGroupInv
  <2>4. Cardinality(Queued(d)') = Cardinality(Queued(d)) + (IF d = c THEN 1 ELSE 0)
    BY <1>1, QueuedMore DEF EvaluationInv
  <2>5. Cardinality(Queued(d)) \in Nat /\ Cardinality(Busy(d)) \in Nat
    BY CountsFinite DEF EvaluationInv
  <2>6. CASE d = c
    <3>1. caller[d].wg = old.wg /\ Sending(caller[d]) = 1
      BY <1>9, <2>6 DEF old
    <3>2. caller'[d].wg = old.wg /\ Sending(caller'[d]) = 0
      BY <1>8, <1>9, <1>11, <2>6
    <3>3. QED
      BY <2>2, <2>3, <2>4, <2>5, <2>6, <3>1, <3>2
  <2>7. CASE d # c
    <3>1. caller'[d] = caller[d]
      BY <1>11, <2>7
    <3>2. Cardinality(Queued(d)') = Cardinality(Queued(d))
      BY <2>4, <2>5, <2>7
    <3>3. QED
      BY <2>2, <2>3, <3>1, <3>2
  <2>8. QED
    BY <2>6, <2>7
<1>14. QED
  BY <1>12, <1>13 DEF EvaluationInv

\* wg.Done, without a candidate or after one was sent.
Done(old, r) ==
    \/ r = [old EXCEPT !.wg = old.wg - 1]
    \/ \E x : r = [old EXCEPT !.chan = Append(old.chan, x), !.wg = old.wg - 1]

LEMMA TaskOver ==
    ASSUME EvaluationInv, NEW c \in Callers, caller[c].wg > 0, NEW r, Done(caller[c], r)
    PROVE  IsCall(r) /\ IsSound(r) /\ r.wg = caller[c].wg - 1 /\ Sending(r) = Sending(caller[c])
<1> DEFINE old == caller[c]
           wg == old.wg - 1
<1>1. IsSound(old) /\ \E S, T, G : old \in CallRecords(S, T, G)
  BY DEF EvaluationInv, StateInv, IsCall
<1>2. \/ r = [old EXCEPT !.wg = wg]
      \/ \E x : r = [old EXCEPT !.chan = Append(old.chan, x), !.wg = wg]
  BY DEF Done
<1>0. old.wg > 0
  OBVIOUS
<1>3. PICK S, T, G : old \in CallRecords(S, T, G)
  BY <1>1
<1> HIDE DEF old
<1>4. /\ old.open /\ old.pc # "idle" /\ old.wg \in Nat /\ wg \in Nat /\ old.chan \in Seq(T)
      /\ Len(old.todo) \in Nat /\ Len(old.chan) \in Nat
  <2>1. old.wg \in Nat /\ old.chan \in Seq(T) /\ Len(old.todo) \in Nat
    BY <1>3 DEF CallRecords
  <2>2. old.wg # 0 /\ wg \in Nat
    BY <1>0, <2>1
  <2>3. QED
    BY <1>1, <2>1, <2>2 DEF IsSound
<1> HIDE DEF wg
<1> DEFINE Same ==
             /\ \E V : r \in CallRecords(S, V, G)
             /\ r.pc = old.pc /\ r.todo = old.todo /\ r.wg = wg /\ r.open = old.open
             /\ Len(r.chan) \in Nat /\ Len(r.chan) <= Len(old.chan) + 1
<1>5. Same
  <2>1. CASE r = [old EXCEPT !.wg = wg]
    <3>1. /\ r \in CallRecords(S, T, G)
          /\ r.pc = old.pc /\ r.todo = old.todo /\ r.wg = wg /\ r.open = old.open /\ r.chan = old.chan
      BY <1>3, <1>4, <2>1 DEF CallRecords
    <3>2. Len(r.chan) \in Nat /\ Len(r.chan) <= Len(old.chan) + 1
      BY <1>4, <3>1
    <3> HIDE DEF wg
    <3>3. QED
      BY <3>1, <3>2
  <2>2. ASSUME NEW x, r = [old EXCEPT !.chan = Append(old.chan, x), !.wg = wg]
        PROVE  Same
    <3> DEFINE V == T \cup {x}  chan == Append(old.chan, x)
    <3>1. chan \in Seq(V) /\ Len(chan) = Len(old.chan) + 1
      <4>1. old.chan \in Seq(V) /\ x \in V
        BY <1>4, SeqWider
      <4> HIDE DEF V
      <4>2. QED
        BY <4>1, AppendProperties
    <3>2. r = [old EXCEPT !.chan = chan, !.wg = wg]
      BY <2>2
    <3> HIDE DEF chan, V
    <3>3. /\ r \in CallRecords(S, V, G)
          /\ r.pc = old.pc /\ r.todo = old.todo /\ r.wg = wg /\ r.open = old.open /\ r.chan = chan
      BY <1>3, <1>4, <3>1, <3>2 DEF CallRecords
    <3>4. Len(r.chan) \in Nat /\ Len(r.chan) <= Len(old.chan) + 1
      BY <1>4, <3>1, <3>3
    <3>5. QED
      BY <3>3, <3>4
  <2>3. QED
    BY <1>2, <2>1, <2>2
<1>6. Sending(r) = Sending(old) /\ Sending(old) \in {0, 1}
  BY <1>5 DEF Sending
<1>7. IsSound(r)
  <2> DEFINE i == Len(old.chan)  j == old.wg  k == Len(old.todo)  l == Len(r.chan)  m == Sending(old)
  <2>1. /\ i \in Nat /\ j \in Nat /\ k \in Nat /\ l \in Nat /\ l <= i + 1 /\ m \in {0, 1}
        /\ MaxTasks \in Nat /\ i + j + k - m <= MaxTasks
    BY <1>1, <1>4, <1>5, <1>6, Constants DEF IsSound
  <2> HIDE DEF i, j, k, l, m
  <2>2. l + (j - 1) + k - m <= MaxTasks
    <3>1. ASSUME m = 0 PROVE l + (j - 1) + k - 0 <= MaxTasks
      BY <2>1, <3>1
    <3>2. ASSUME m = 1 PROVE l + (j - 1) + k - 1 <= MaxTasks
      BY <2>1, <3>2
    <3>3. QED
      BY <2>1, <3>1, <3>2
  <2>3. Len(r.chan) + r.wg + Len(r.todo) - Sending(r) <= MaxTasks
    BY <1>5, <1>6, <2>2 DEF i, j, k, l, m, wg
  <2>4. r.open /\ r.pc # "idle" /\ (r.pc = "sending" => r.todo # <<>>)
    BY <1>1, <1>4, <1>5 DEF IsSound
  <2>5. QED
    BY <2>3, <2>4 DEF IsSound
<1>8. QED
  BY <1>5, <1>6, <1>7 DEF IsCall, old, wg

-----------------------------------------------------------------------------
(* The steps of a worker.                                                     *)

\* A worker at its task.
LEMMA AtWork ==
    ASSUME StateInv, NEW w \in Workers, wk[w].pc # "idle"
    PROVE  /\ wk[w].task.by \in Callers
           /\ \E S : wk[w] \in [pc : {"size", "try", "send"}, task : [by : Callers, path : S],
                                routes : S, amounts : S, best : S]
<1>1. PICK S : wk[w] \in WorkerRecords(S)
  BY DEF StateInv, IsWorker
<1>2. wk[w] \in [pc : {"size", "try", "send"}, task : [by : Callers, path : S],
                 routes : S, amounts : S, best : S]
  BY <1>1 DEF WorkerRecords
<1>3. QED
  BY <1>2

LEMMA IdleWorker == IsWorker(Idle) /\ Idle.pc = "idle"
<1>1. Idle = [pc |-> "idle", task |-> NoTask, routes |-> <<>>, amounts |-> <<>>, best |-> <<>>]
  BY DEF Idle
<1>2. Idle \in [pc : {"idle"}, task : {NoTask}, routes : {<<>>}, amounts : {<<>>}, best : {<<>>}]
  BY <1>1
<1>3. Idle \in WorkerRecords({<<>>})
  BY <1>2 DEF WorkerRecords
<1>4. QED
  BY <1>1, <1>3 DEF IsWorker

\* Wherever worker w ends up, and whatever has become of the queue and of one call.
LEMMA WorkerStep ==
    ASSUME EvaluationInv, NEW w \in Workers, NEW x, wk' = [wk EXCEPT ![w] = x], IsWorker(x),
           taskCh' \in {taskCh, Tail(taskCh)}, taskCh # <<>> \/ taskCh' = taskCh,
           \A c \in Callers : IsCall(caller'[c]) /\ IsSound(caller'[c]),
           \E R : caller' \in [Callers -> R]
    PROVE  /\ StateInv' /\ wk'[w] = x /\ \A y \in Workers \ {w} : wk'[y] = wk[y]
<1>1. PICK R : wk \in [Workers -> R]
  BY DEF EvaluationInv, StateInv
<1>2. /\ wk' \in [Workers -> R \cup {x}] /\ wk'[w] = x
      /\ \A y \in Workers \ {w} : wk'[y] = wk[y]
  BY <1>1
<1>3. PICK U : taskCh \in Seq(TaskRecords(U))
  BY DEF EvaluationInv, StateInv
<1>4. taskCh' \in Seq(TaskRecords(U)) /\ Len(taskCh') <= TaskCap
  <2>1. Len(taskCh) \in Nat /\ Len(taskCh) <= TaskCap /\ TaskCap \in Nat
    BY <1>3, Constants DEF EvaluationInv, StateInv
  <2>2. CASE taskCh' = taskCh
    BY <1>3, <2>1, <2>2
  <2>3. CASE taskCh # <<>> /\ taskCh' = Tail(taskCh)
    <3>1. taskCh' \in Seq(TaskRecords(U)) /\ Len(taskCh') = Len(taskCh) - 1
      BY <1>3, <2>3
    <3>2. QED
      BY <2>1, <3>1
  <2>4. QED
    BY <2>2, <2>3
<1>5. \A y \in Workers : IsWorker(wk'[y])
  BY <1>2 DEF EvaluationInv, StateInv
<1>6. StateInv'
  <2>1. \E S : taskCh' \in Seq(TaskRecords(S))
    BY <1>4
  <2>2. \A c \in Callers : IsCall(caller'[c]) /\ IsSound(caller'[c])
    OBVIOUS
  <2>3. \E S : wk' \in [Workers -> S]
    BY <1>2
  <2>4. \E S : caller' \in [Callers -> S]
    OBVIOUS
  <2>5. (\E S : taskCh \in Seq(TaskRecords(S)))'
    BY <2>1 DEF TaskRecords
  <2>6. (\A y \in Workers : IsWorker(wk[y]))'
    BY <1>5 DEF IsWorker, WorkerRecords
  <2>7. (\A c \in Callers : IsCall(caller[c]))' /\ (\A c \in Callers : IsSound(caller[c]))'
    BY <2>2 DEF IsCall, IsSound, CallRecords, Sending, MaxTasks
  <2>8. QED
    BY <2>3, <2>4, <2>5, <2>6, <2>7, <1>4 DEF StateInv
<1>7. QED
  BY <1>2, <1>6

\* A worker that is done with the task of a call, by wg.Done and perhaps a send.
LEMMA FinishedKeeps ==
    ASSUME EvaluationInv, NEW w \in Workers, wk[w].pc # "idle", wk' = [wk EXCEPT ![w] = Idle],
           taskCh' = taskCh, NEW r, Done(caller[wk[w].task.by], r),
           caller' = [caller EXCEPT ![wk[w].task.by] = r]
    PROVE  EvaluationInv'
<1> DEFINE c == wk[w].task.by
<1>1. c \in Callers
  BY AtWork DEF EvaluationInv
<1>2. w \in Busy(c)
  BY DEF Busy
<1>3. caller[c].wg > 0
  <2>1. Cardinality(Busy(c)) # 0 /\ Cardinality(Busy(c)) \in Nat /\ Cardinality(Queued(c)) \in Nat
    BY <1>2, CountsFinite, FS_EmptySet DEF EvaluationInv
  <2>2. caller[c].wg = Cardinality(Queued(c)) + Cardinality(Busy(c)) + Sending(caller[c])
    BY <1>1 DEF EvaluationInv, WaitGroupInv
  <2>3. Sending(caller[c]) \in {0, 1}
    BY DEF Sending
  <2> HIDE DEF c
  <2>4. QED
    BY <2>1, <2>2, <2>3
<1>4. Done(caller[c], r) /\ caller' = [caller EXCEPT ![c] = r]
  OBVIOUS
<1> HIDE DEF c
<1>5. IsCall(r) /\ IsSound(r) /\ r.wg = caller[c].wg - 1 /\ Sending(r) = Sending(caller[c])
  BY <1>1, <1>3, <1>4, TaskOver
<1>6. PICK R : caller \in [Callers -> R]
  BY DEF EvaluationInv, StateInv
<1>7. caller' \in [Callers -> R \cup {r}] /\ \A d \in Callers : caller'[d] = IF d = c THEN r ELSE caller[d]
  BY <1>4, <1>6
<1>8. \A d \in Callers : IsCall(caller'[d]) /\ IsSound(caller'[d])
  BY <1>5, <1>7 DEF EvaluationInv, StateInv
<1>9. StateInv' /\ wk'[w] = Idle /\ \A y \in Workers \ {w} : wk'[y] = wk[y]
  BY <1>7, <1>8, IdleWorker, WorkerStep
<1>10. WaitGroupInv'
  <2>1. SUFFICES ASSUME NEW d \in Callers
                 PROVE  caller'[d].wg = Cardinality(Queued(d)') + Cardinality(Busy(d)') + Sending(caller'[d])
    BY DEF WaitGroupInv
  <2>2. Queued(d)' = Queued(d)
    BY DEF Queued
  <2>3. caller[d].wg = Cardinality(Queued(d)) + Cardinality(Busy(d)) + Sending(caller[d])
    BY DEF EvaluationInv, WaitGroupInv
  <2>4. /\ Cardinality(Busy(d)) = Cardinality(Busy(d)') + (IF c = d THEN 1 ELSE 0)
        /\ Cardinality(Busy(d)') \in Nat
    <3>1. wk'[w].pc = "idle"
      BY <1>9, IdleWorker
    <3>2. QED
      BY <1>9, <3>1, BusyLess DEF EvaluationInv, c
  <2>5. Cardinality(Queued(d)) \in Nat /\ Sending(caller[d]) \in {0, 1}
    BY CountsFinite DEF EvaluationInv, Sending
  <2>6. CASE d = c
    <3>1. caller'[d].wg = caller[d].wg - 1 /\ Sending(caller'[d]) = Sending(caller[d])
      BY <1>5, <1>7, <2>6
    <3>2. QED
      BY <2>2, <2>3, <2>4, <2>5, <2>6, <3>1
  <2>7. CASE d # c
    <3>1. caller'[d] = caller[d] /\ Cardinality(Busy(d)) = Cardinality(Busy(d)')
      BY <1>7, <2>4, <2>7
    <3>2. QED
      BY <2>2, <2>3, <3>1
  <2>8. QED
    BY <2>6, <2>7
<1>11. QED
  BY <1>9, <1>10 DEF EvaluationInv

\* A worker that goes on with its task.
LEMMA WorkingKeeps ==
    ASSUME EvaluationInv, NEW w \in Workers, NEW x, wk[w].pc # "idle",
           wk' = [wk EXCEPT ![w] = x], IsWorker(x), x.pc # "idle", x.task = wk[w].task,
           taskCh' = taskCh, caller' = caller
    PROVE  EvaluationInv'
<1>1. /\ \A c \in Callers : IsCall(caller'[c]) /\ IsSound(caller'[c])
      /\ \E R : caller' \in [Callers -> R]
  BY DEF EvaluationInv, StateInv
<1>2. StateInv' /\ wk'[w] = x /\ \A y \in Workers \ {w} : wk'[y] = wk[y]
  BY <1>1, WorkerStep
<1>3. \A d \in Callers : Busy(d)' = Busy(d) /\ Queued(d)' = Queued(d)
  <2>1. SUFFICES ASSUME NEW d \in Callers PROVE Busy(d)' = Busy(d) /\ Queued(d)' = Queued(d)
    OBVIOUS
  <2>2. Busy(d)' = Busy(d)
    BY <1>2, BusyKept DEF EvaluationInv
  <2>3. QED
    BY <2>2 DEF Queued
<1>4. WaitGroupInv'
  BY <1>3 DEF EvaluationInv, WaitGroupInv
<1>5. QED
  BY <1>2, <1>4 DEF EvaluationInv

LEMMA TakeTaskKeeps ==
    ASSUME EvaluationInv, NEW w \in Workers, TakeTask(w)
    PROVE  EvaluationInv'
<1> DEFINE task == Head(taskCh)
           c == task.by
<1>1. /\ wk[w].pc = "idle" /\ taskCh # <<>> /\ taskCh' = Tail(taskCh)
      /\ \E routes \in RoutesOf(task.path, res) :
            \/ caller' = [caller EXCEPT ![c].wg = @ - 1] /\ wk' = wk
            \/ /\ wk' = [wk EXCEPT ![w] = [Idle EXCEPT !.pc = "size", !.task = task, !.routes = routes]]
               /\ caller' = caller
  BY DEF TakeTask
<1>2. PICK U : taskCh \in Seq(TaskRecords(U))
  BY DEF EvaluationInv, StateInv
<1>3. task \in TaskRecords(U) /\ c \in Callers
  <2>1. task \in TaskRecords(U)
    BY <1>1, <1>2
  <2>2. QED
    BY <2>1 DEF TaskRecords
<1>4. \A d : /\ Cardinality(Queued(d)) = Cardinality(Queued(d)') + (IF c = d THEN 1 ELSE 0)
             /\ Cardinality(Queued(d)') \in Nat
  BY <1>1, QueuedLess DEF EvaluationInv
<1>5. \A d : Cardinality(Busy(d)) \in Nat
  BY CountsFinite DEF EvaluationInv
<1> HIDE DEF task
<1>6. CASE caller' = [caller EXCEPT ![c].wg = @ - 1] /\ wk' = wk
  <2> DEFINE r == [caller[c] EXCEPT !.wg = caller[c].wg - 1]
  <2>1. Done(caller[c], r) /\ caller' = [caller EXCEPT ![c] = r]
    BY <1>6 DEF Done
  <2> HIDE DEF r
  <2>2. caller[c].wg > 0
    <3>1. caller[c].wg = Cardinality(Queued(c)) + Cardinality(Busy(c)) + Sending(caller[c])
      BY <1>3 DEF EvaluationInv, WaitGroupInv
    <3>2. Sending(caller[c]) \in {0, 1}
      BY DEF Sending
    <3> HIDE DEF c
    <3>3. QED
      BY <1>4, <1>5, <3>1, <3>2
  <2> HIDE DEF c
  <2>3. IsCall(r) /\ IsSound(r) /\ r.wg = caller[c].wg - 1 /\ Sending(r) = Sending(caller[c])
    BY <1>3, <2>1, <2>2, TaskOver
  <2>4. PICK R : caller \in [Callers -> R]
    BY DEF EvaluationInv, StateInv
  <2>5. caller' \in [Callers -> R \cup {r}] /\ \A d \in Callers : caller'[d] = IF d = c THEN r ELSE caller[d]
    BY <2>1, <2>4
  <2>6. \A d \in Callers : IsCall(caller'[d]) /\ IsSound(caller'[d])
    BY <2>3, <2>5 DEF EvaluationInv, StateInv
  <2>7. StateInv'
    <3>1. wk' = [wk EXCEPT ![w] = wk[w]] /\ IsWorker(wk[w])
      BY <1>6 DEF EvaluationInv, StateInv
    <3>2. QED
      BY <1>1, <2>5, <2>6, <3>1, WorkerStep
  <2>8. WaitGroupInv'
    <3>1. SUFFICES ASSUME NEW d \in Callers
                   PROVE  caller'[d].wg = Cardinality(Queued(d)') + Cardinality(Busy(d)') + Sending(caller'[d])
      BY DEF WaitGroupInv
    <3>2. Busy(d)' = Busy(d)
      BY <1>6 DEF Busy
    <3>3. caller[d].wg = Cardinality(Queued(d)) + Cardinality(Busy(d)) + Sending(caller[d])
      BY DEF EvaluationInv, WaitGroupInv
    <3>4. Sending(caller[d]) \in {0, 1}
      BY DEF Sending
    <3>5. CASE d = c
      <4>1. caller'[d].wg = caller[d].wg - 1 /\ Sending(caller'[d]) = Sending(caller[d])
        BY <2>3, <2>5, <3>5
      <4>2. Cardinality(Queued(d)) = Cardinality(Queued(d)') + 1 /\ Cardinality(Queued(d)') \in Nat
        BY <1>4, <3>5
      <4>3. Cardinality(Busy(d)) \in Nat
        BY <1>5
      <4>4. QED
        BY <3>2, <3>3, <3>4, <4>1, <4>2, <4>3
    <3>6. CASE d # c
      <4>1. caller'[d] = caller[d] /\ Cardinality(Queued(d)) = Cardinality(Queued(d)')
        BY <1>4, <2>5, <3>6
      <4>2. QED
        BY <3>2, <3>3, <4>1
    <3>7. QED
      BY <3>5, <3>6
  <2>9. QED
    BY <2>7, <2>8 DEF EvaluationInv
<1>7. ASSUME NEW routes, caller' = caller,
             wk' = [wk EXCEPT ![w] = [Idle EXCEPT !.pc = "size", !.task = task, !.routes = routes]]
      PROVE  EvaluationInv'
  <2> DEFINE x == [Idle EXCEPT !.pc = "size", !.task = task, !.routes = routes]
  <2>2. wk' = [wk EXCEPT ![w] = x]
    BY <1>7
  <2>3. IsWorker(x) /\ x.pc # "idle" /\ x.task = task
    <3> DEFINE S == U \cup {routes, <<>>}
    <3>1. task \in [by : Callers, path : S]
      BY <1>3 DEF TaskRecords
    <3> HIDE DEF S
    <3>2. routes \in S /\ <<>> \in S
      BY DEF S
    <3>3. Idle \in [pc : {"idle"}, task : {NoTask}, routes : S, amounts : S, best : S]
      BY <3>2 DEF Idle
    <3>4. /\ x \in [pc : {"size", "try", "send"}, task : [by : Callers, path : S],
                    routes : S, amounts : S, best : S]
          /\ x.pc = "size" /\ x.task = task
      BY <3>1, <3>2, <3>3
    <3>5. x \in WorkerRecords(S)
      BY <3>4 DEF WorkerRecords
    <3>6. QED
      BY <3>4, <3>5 DEF IsWorker
  <2> HIDE DEF x
  <2>4. /\ \A d \in Callers : IsCall(caller'[d]) /\ IsSound(caller'[d])
        /\ \E R : caller' \in [Callers -> R]
    BY <1>7 DEF EvaluationInv, StateInv
  <2>5. StateInv' /\ wk'[w] = x /\ \A y \in Workers \ {w} : wk'[y] = wk[y]
    BY <1>1, <2>2, <2>3, <2>4, WorkerStep
  <2>6. WaitGroupInv'
    <3>1. SUFFICES ASSUME NEW d \in Callers
                   PROVE  caller[d].wg = Cardinality(Queued(d)') + Cardinality(Busy(d)') + Sending(caller[d])
      BY <1>7 DEF WaitGroupInv
    <3>2. Cardinality(Busy(d)') = Cardinality(Busy(d)) + (IF c = d THEN 1 ELSE 0)
      <4>1. wk'[w].pc # "idle" /\ wk'[w].task.by = c
        BY <2>3, <2>5
      <4>2. QED
        BY <1>1, <2>5, <4>1, BusyMore DEF EvaluationInv
    <3>3. caller[d].wg = Cardinality(Queued(d)) + Cardinality(Busy(d)) + Sending(caller[d])
      BY DEF EvaluationInv, WaitGroupInv
    <3>4. Sending(caller[d]) \in {0, 1}
      BY DEF Sending
    <3> HIDE DEF c
    <3>5. QED
      BY <1>4, <1>5, <3>2, <3>3, <3>4
  <2>7. QED
    BY <2>5, <2>6 DEF EvaluationInv
<1>8. QED
  BY <1>1, <1>6, <1>7

\* A worker that goes on, with other routes, amounts or candidate.
Onward(old, x) ==
    \E pc \in {"size", "try", "send"} : \E routes, amounts, best :
        \/ x = [old EXCEPT !.pc = pc, !.amounts = amounts]
        \/ x = [old EXCEPT !.pc = pc, !.routes = routes, !.amounts = amounts, !.best = best]

LEMMA StillWorking ==
    ASSUME EvaluationInv, NEW w \in Workers, wk[w].pc # "idle", NEW x, Onward(wk[w], x)
    PROVE  IsWorker(x) /\ x.pc # "idle" /\ x.task = wk[w].task
<1> DEFINE old == wk[w]
           At(S) == [pc : {"size", "try", "send"}, task : [by : Callers, path : S],
                     routes : S, amounts : S, best : S]
<1>1. PICK S : old \in At(S)
  BY AtWork DEF EvaluationInv
<1>2. PICK pc \in {"size", "try", "send"} : \E routes, amounts, best :
        \/ x = [old EXCEPT !.pc = pc, !.amounts = amounts]
        \/ x = [old EXCEPT !.pc = pc, !.routes = routes, !.amounts = amounts, !.best = best]
  BY DEF Onward
<1>0. PICK routes, amounts, best :
        \/ x = [old EXCEPT !.pc = pc, !.amounts = amounts]
        \/ x = [old EXCEPT !.pc = pc, !.routes = routes, !.amounts = amounts, !.best = best]
  BY <1>2
<1> HIDE DEF old
<1> DEFINE T == S \cup {routes, amounts, best}
<1>3. S \subseteq T /\ routes \in T /\ amounts \in T /\ best \in T
  OBVIOUS
<1>4. old \in At(T)
  <2> HIDE DEF T
  <2>1. old.task \in [by : Callers, path : T]
    BY <1>1, <1>3
  <2>2. QED
    BY <1>1, <1>3, <2>1
<1> HIDE DEF T
<1>5. x \in At(T) /\ x.pc = pc /\ x.task = old.task
  BY <1>0, <1>2, <1>3, <1>4
<1>6. IsWorker(x)
  <2>1. x \in WorkerRecords(T)
    BY <1>5 DEF WorkerRecords
  <2>2. QED
    BY <2>1 DEF IsWorker
<1>7. QED
  BY <1>2, <1>5, <1>6 DEF old

LEMMA SizeKeeps ==
    ASSUME EvaluationInv, NEW w \in Workers, Size(w)
    PROVE  EvaluationInv'
<1>1. wk[w].pc = "size" /\ caller' = caller /\ taskCh' = taskCh
  BY DEF Size
<1>2. \E amounts : wk' = [wk EXCEPT ![w].pc = "try", ![w].amounts = amounts]
  BY DEF Size
<1>3. PICK amounts : wk' = [wk EXCEPT ![w].pc = "try", ![w].amounts = amounts]
  BY <1>2
<1> DEFINE x == [wk[w] EXCEPT !.pc = "try", !.amounts = amounts]
<1>4. wk' = [wk EXCEPT ![w] = x]
  BY <1>3
<1>5. Onward(wk[w], x)
  BY DEF Onward
<1> HIDE DEF x
<1>6. QED
  BY <1>1, <1>4, <1>5, StillWorking, WorkingKeeps

LEMMA TryKeeps ==
    ASSUME EvaluationInv, NEW w \in Workers, Try(w)
    PROVE  EvaluationInv'
<1>1. wk[w].pc = "try" /\ taskCh' = taskCh
  BY DEF Try
<1>2. \E best : \/ Finish(w, best)
                \/ /\ wk' = [wk EXCEPT ![w].pc = "size", ![w].routes = Tail(@),
                                       ![w].amounts = <<>>, ![w].best = best]
                   /\ caller' = caller
  BY DEF Try
<1>3. PICK best : \/ Finish(w, best)
                  \/ /\ wk' = [wk EXCEPT ![w].pc = "size", ![w].routes = Tail(@),
                                         ![w].amounts = <<>>, ![w].best = best]
                     /\ caller' = caller
  BY <1>2
<1>4. CASE /\ wk' = [wk EXCEPT ![w].pc = "size", ![w].routes = Tail(@),
                               ![w].amounts = <<>>, ![w].best = best]
           /\ caller' = caller
  <2> DEFINE rest == Tail(wk[w].routes)
             x == [wk[w] EXCEPT !.pc = "size", !.routes = rest, !.amounts = <<>>, !.best = best]
  <2>1. wk' = [wk EXCEPT ![w] = x]
    BY <1>4
  <2>2. Onward(wk[w], x)
    BY DEF Onward
  <2> HIDE DEF x
  <2>3. QED
    BY <1>1, <1>4, <2>1, <2>2, StillWorking, WorkingKeeps
<1>5. CASE Finish(w, best)
  <2>1. CASE /\ wk' = [wk EXCEPT ![w].pc = "send", ![w].routes = <<>>, ![w].amounts = <<>>,
                                 ![w].best = best]
             /\ caller' = caller
    <3> DEFINE x == [wk[w] EXCEPT !.pc = "send", !.routes = <<>>, !.amounts = <<>>, !.best = best]
    <3>1. wk' = [wk EXCEPT ![w] = x]
      BY <2>1
    <3>2. Onward(wk[w], x)
      BY DEF Onward
    <3> HIDE DEF x
    <3>3. QED
      BY <1>1, <2>1, <3>1, <3>2, StillWorking, WorkingKeeps
  <2>2. CASE /\ wk' = [wk EXCEPT ![w] = Idle]
             /\ caller' = [caller EXCEPT ![wk[w].task.by].wg = @ - 1]
    <3> DEFINE c == wk[w].task.by
               r == [caller[c] EXCEPT !.wg = caller[c].wg - 1]
    <3>1. Done(caller[c], r) /\ caller' = [caller EXCEPT ![c] = r]
      BY <2>2 DEF Done
    <3> HIDE DEF r
    <3>2. QED
      BY <1>1, <2>2, <3>1, FinishedKeeps
  <2>3. QED
    BY <1>5, <2>1, <2>2 DEF Finish
<1>6. QED
  BY <1>3, <1>4, <1>5

LEMMA SendResultKeeps ==
    ASSUME EvaluationInv, NEW w \in Workers, SendResult(w)
    PROVE  EvaluationInv'
<1> DEFINE c == wk[w].task.by
           old == caller[c]
           r == [old EXCEPT !.chan = Append(old.chan, Head(wk[w].best)), !.wg = old.wg - 1]
<1>1. /\ wk[w].pc = "send" /\ taskCh' = taskCh /\ wk' = [wk EXCEPT ![w] = Idle]
      /\ caller' = [caller EXCEPT ![c] = r]
  BY DEF SendResult
<1>2. Done(old, r)
  BY DEF Done
<1> HIDE DEF r
<1>3. QED
  BY <1>1, <1>2, FinishedKeeps

-----------------------------------------------------------------------------
(* The invariant holds always.                                                *)

LEMMA InitInv == Init => EvaluationInv
<1> SUFFICES ASSUME Init PROVE EvaluationInv
  OBVIOUS
<1>1. /\ caller = [c \in Callers |-> NotCalled] /\ taskCh = <<>> /\ wk = [w \in Workers |-> Idle]
  BY DEF Init
<1>2. <<>> \in Seq(TaskRecords({})) /\ Len(<<>>) = 0
  BY EmptySeq
<1>3. StateInv
  <2>1. caller \in [Callers -> {NotCalled}] /\ wk \in [Workers -> {Idle}]
    BY <1>1
  <2>2. \A c \in Callers : IsCall(caller[c]) /\ IsSound(caller[c])
    <3>1. NotCalled \in CallRecords({}, {}, {{}}) /\ IsSound(NotCalled)
      BY IdleCall
    <3>2. QED
      BY <1>1, <3>1 DEF IsCall
  <2>3. \A w \in Workers : IsWorker(wk[w])
    BY <1>1, IdleWorker
  <2>4. taskCh \in Seq(TaskRecords({})) /\ Len(taskCh) <= TaskCap
    BY <1>1, <1>2, Constants
  <2>5. QED
    BY <2>1, <2>2, <2>3, <2>4 DEF StateInv
<1>4. WaitGroupInv
  <2>1. SUFFICES ASSUME NEW c \in Callers
                 PROVE  caller[c].wg = Cardinality(Queued(c)) + Cardinality(Busy(c)) + Sending(caller[c])
    BY DEF WaitGroupInv
  <2>2. caller[c].wg = 0 /\ Sending(caller[c]) = 0
    BY <1>1, IdleCall DEF Sending
  <2>3. Queued(c) = {} /\ Busy(c) = {}
    BY <1>1, <1>2, IdleWorker DEF Queued, Busy
  <2>4. QED
    BY <2>2, <2>3, FS_EmptySet
<1>5. QED
  BY <1>3, <1>4 DEF EvaluationInv

LEMMA NextKeeps == EvaluationInv /\ [Next]_vars => EvaluationInv'
<1> SUFFICES ASSUME EvaluationInv, [Next]_vars PROVE EvaluationInv'
  OBVIOUS
<1>1. CASE UNCHANGED <<caller, taskCh, wk>>
  <2>1. StateInv'
    BY <1>1 DEF EvaluationInv, StateInv
  <2>2. WaitGroupInv'
    BY <1>1 DEF EvaluationInv, WaitGroupInv, Queued, Busy
  <2>3. QED
    BY <2>1, <2>2 DEF EvaluationInv
<1>2. ASSUME NEW c \in Callers, EvaluateEvent(c) \/ Call(c) PROVE EvaluationInv'
  BY <1>2, EvaluateEventKeeps, AddKeeps, EnqueueKeeps, CollectKeeps, CloseResultsKeeps,
     ReceiveKeeps, AnswerKeeps DEF Call
<1>3. ASSUME NEW w \in Workers, Worker(w) PROVE EvaluationInv'
  BY <1>3, TakeTaskKeeps, SizeKeeps, TryKeeps, SendResultKeeps DEF Worker
<1>4. CASE Move \/ UNCHANGED vars
  BY <1>1, <1>4 DEF Move, vars
<1>5. QED
  BY <1>2, <1>3, <1>4 DEF Next

LEMMA SpecInv == Spec => []EvaluationInv
  BY InitInv, NextKeeps, PTL DEF Spec

-----------------------------------------------------------------------------
(* The theorems about channels.                                               *)

\* Once a resultCh is closed no task of its call is queued or in a worker's hands, so
\* nobody sends on it (simd_solver.go:289-316), however many calls share the workers.
THEOREM ClosedAfterAll == Spec => []NoSendAfterClose
<1>1. EvaluationInv => NoSendAfterClose
  <2> SUFFICES ASSUME EvaluationInv, NEW c \in Callers, ~ caller[c].open
               PROVE  /\ \A i \in DOMAIN taskCh : taskCh[i].by # c
                      /\ \A w \in Workers : wk[w].pc # "idle" => wk[w].task.by # c
    BY DEF NoSendAfterClose
  <2>1. caller[c].wg = 0
    BY DEF EvaluationInv, StateInv, IsSound
  <2>2. caller[c].wg = Cardinality(Queued(c)) + Cardinality(Busy(c)) + Sending(caller[c])
    BY DEF EvaluationInv, WaitGroupInv
  <2>3. /\ IsFiniteSet(Queued(c)) /\ Cardinality(Queued(c)) \in Nat
        /\ IsFiniteSet(Busy(c)) /\ Cardinality(Busy(c)) \in Nat
    BY CountsFinite DEF EvaluationInv
  <2>4. Sending(caller[c]) \in {0, 1}
    BY DEF Sending
  <2>5. Cardinality(Queued(c)) = 0 /\ Cardinality(Busy(c)) = 0
    BY <2>1, <2>2, <2>3, <2>4
  <2>6. Queued(c) = {} /\ Busy(c) = {}
    BY <2>3, <2>5, FS_EmptySet
  <2>7. DOMAIN taskCh = 1..Len(taskCh)
    BY DEF EvaluationInv, StateInv
  <2>8. QED
    BY <2>6, <2>7 DEF Queued, Busy
<1>2. QED
  BY <1>1, SpecInv, PTL

\* No call waits while everybody else waits: a worker with a candidate finds room in
\* resultCh, so that the workers always come back to taskCh (simd_solver.go:248-258,
\* 289-321), however small taskCh is.
THEOREM SomebodyMoves == Spec => []NobodyWaitsOnEverybody
<1>1. EvaluationInv => NobodyWaitsOnEverybody
  <2> SUFFICES ASSUME EvaluationInv, \A w \in Workers : Starved(w), NEW c \in Callers, Waits(c)
               PROVE  FALSE
    BY DEF NobodyWaitsOnEverybody
  <2>1. ASSUME NEW w \in Workers, wk[w].pc = "send" PROVE FALSE
    <3> DEFINE by == wk[w].task.by
               i == Len(caller[by].chan)  k == Len(caller[by].todo)  m == Sending(caller[by])
    <3>1. by \in Callers /\ w \in Busy(by)
      BY <2>1, AtWork DEF EvaluationInv, Busy
    <3>2. Cardinality(Busy(by)) # 0 /\ Cardinality(Busy(by)) \in Nat /\ Cardinality(Queued(by)) \in Nat
      BY <3>1, CountsFinite, FS_EmptySet DEF EvaluationInv
    <3>3. caller[by].wg = Cardinality(Queued(by)) + Cardinality(Busy(by)) + m
      BY <3>1 DEF EvaluationInv, WaitGroupInv
    <3>4. IsSound(caller[by]) /\ i \in Nat /\ k \in Nat
      <4>1. IsSound(caller[by]) /\ \E S, T, G : caller[by] \in CallRecords(S, T, G)
        BY <3>1 DEF EvaluationInv, StateInv, IsCall
      <4>2. PICK S, T, G : caller[by] \in CallRecords(S, T, G)
        BY <4>1
      <4> HIDE DEF by
      <4>3. caller[by].chan \in Seq(T) /\ caller[by].todo \in Seq(S)
        BY <4>2 DEF CallRecords
      <4>4. QED
        BY <4>1, <4>3
    <3>5. m \in {0, 1} /\ (m = 1 => k > 0)
      <4>1. m = 1 => caller[by].todo # <<>>
        BY <3>4 DEF Sending, IsSound
      <4>2. \E S : caller[by].todo \in Seq(S)
        BY <3>1 DEF EvaluationInv, StateInv, IsCall, CallRecords
      <4> HIDE DEF by
      <4>3. QED
        BY <4>1, <4>2, EmptySeq, LenProperties DEF Sending
    <3>6. i = ResultCap
      BY <2>1 DEF Starved
    <3>7. i + caller[by].wg + k - m <= MaxTasks
      BY <3>4 DEF IsSound
    <3> HIDE DEF by, i, k, m
    <3>8. QED
      BY <3>2, <3>3, <3>4, <3>5, <3>6, <3>7, Constants
  <2>2. \A w \in Workers : wk[w].pc = "idle" /\ taskCh = <<>>
    BY <2>1 DEF Starved
  <2>3. taskCh = <<>> /\ Len(taskCh) = 0
    BY <2>2, Constants, EmptySeq
  <2>4. caller[c].pc = "drain" /\ caller[c].wg > 0
    BY <2>3, Constants DEF Waits
  <2>5. Queued(c) = {} /\ Busy(c) = {} /\ Sending(caller[c]) = 0
    BY <2>2, <2>3, <2>4 DEF Queued, Busy, Sending
  <2>6. caller[c].wg = 0
    BY <2>5, FS_EmptySet DEF EvaluationInv, WaitGroupInv
  <2>7. QED
    BY <2>4, <2>6
<1>2. QED
  BY <1>1, SpecInv, PTL

-----------------------------------------------------------------------------
(* The integer square root.                                                   *)

\* Induction over a set of numbers, by counting: were n missing, the successors of the
\* members would be as many, without 0.
LEMMA Induction ==
    ASSUME NEW n \in Nat, NEW B, 0 \in B, \A k \in 0..n - 1 : k \in B => k + 1 \in B
    PROVE  n \in B
<1> DEFINE S == B \cap 0..n
           shift == [k \in S |-> k + 1]
<1>1. SUFFICES ASSUME n \notin B PROVE FALSE
  OBVIOUS
<1>2. IsFiniteSet(S)
  <2>1. IsFiniteSet(0..n)
    BY FS_Interval
  <2>2. QED
    BY <2>1, FS_Subset
<1>3. \A k \in S : k \in 0..n - 1 /\ k + 1 \in S \ {0}
  BY <1>1
<1>4. shift \in Injection(S, S \ {0})
  <2>1. shift \in [S -> S \ {0}]
    BY <1>3
  <2>2. \A j, k \in S : shift[j] = shift[k] => j = k
    BY <1>3
  <2> HIDE DEF shift, S
  <2>3. QED
    BY <2>1, <2>2 DEF Injection, IsInjective
<1> HIDE DEF shift, S
<1>5. IsFiniteSet(S \ {0}) /\ Cardinality(S \ {0}) = Cardinality(S) - 1 /\ Cardinality(S) \in Nat
  <2>1. 0 \in S
    BY DEF S
  <2>2. /\ IsFiniteSet(S \ {0})
        /\ Cardinality(S \ {0}) = IF 0 \in S THEN Cardinality(S) - 1 ELSE Cardinality(S)
    BY <1>2, FS_RemoveElement
  <2>3. Cardinality(S) \in Nat
    BY <1>2, FS_CardinalityType
  <2>4. QED
    BY <2>1, <2>2, <2>3
<1>6. Cardinality(S) <= Cardinality(S \ {0})
  BY <1>4, <1>5, FS_Injection
<1>7. QED
  BY <1>5, <1>6

\* k is the integer square root of x.
IsRoot(k, x) == k \in Nat /\ k * k <= x /\ x < (k + 1) * (k + 1)

LEMMA Squares ==
    ASSUME NEW j \in Nat, NEW k \in Nat, j <= k
    PROVE  j * j <= k * k
<1>1. j * j <= j * k
  OBVIOUS
<1>2. j * k <= k * k
  OBVIOUS
<1>3. QED
  BY <1>1, <1>2

LEMMA OneRoot ==
    ASSUME NEW x \in Nat, NEW j, NEW k, IsRoot(j, x), IsRoot(k, x)
    PROVE  j = k
<1>1. j \in Nat /\ k \in Nat /\ j * j <= x /\ x < (j + 1) * (j + 1) /\ k * k <= x /\ x < (k + 1) * (k + 1)
  BY DEF IsRoot
<1>2. CASE j < k
  <2>1. (j + 1) * (j + 1) <= k * k
    BY <1>1, <1>2, Squares
  <2>2. QED
    BY <1>1, <2>1
<1>3. CASE k < j
  <2>1. (k + 1) * (k + 1) <= j * j
    BY <1>1, <1>3, Squares
  <2>2. QED
    BY <1>1, <2>1
<1>4. QED
  BY <1>1, <1>2, <1>3

LEMMA SomeRoot == \A x \in Nat : \E k \in Nat : IsRoot(k, x)
<1> DEFINE B == {x \in Nat : \E k \in Nat : IsRoot(k, x)}
<1>1. 0 \in B
  BY DEF IsRoot
<1>2. ASSUME NEW x \in Nat, x \in B PROVE x + 1 \in B
  <2>1. PICK k \in Nat : IsRoot(k, x)
    BY <1>2
  <2>2. CASE x + 1 < (k + 1) * (k + 1)
    <3>1. IsRoot(k, x + 1)
      BY <2>1, <2>2 DEF IsRoot
    <3>2. QED
      BY <3>1
  <2>3. CASE x + 1 = (k + 1) * (k + 1)
    <3>1. IsRoot(k + 1, x + 1)
      BY <2>1, <2>3 DEF IsRoot
    <3>2. QED
      BY <3>1
  <2>4. x + 1 <= (k + 1) * (k + 1) /\ (k + 1) * (k + 1) \in Nat
    BY <2>1 DEF IsRoot
  <2>5. QED
    BY <2>2, <2>3, <2>4
<1> HIDE DEF B
<1>3. \A x \in Nat : x \in B
  <2>1. SUFFICES ASSUME NEW x \in Nat PROVE x \in B
    OBVIOUS
  <2>2. \A k \in 0..x - 1 : k \in B => k + 1 \in B
    BY <1>2
  <2>3. QED
    BY <1>1, <2>2, Induction
<1>4. QED
  BY <1>3 DEF B

LEMMA Quarter ==
    ASSUME NEW x \in Nat
    PROVE  x \div 4 \in Nat /\ 4 * (x \div 4) <= x /\ x < 4 * (x \div 4) + 4
           /\ (x # 0 => x \div 4 < x)
  OBVIOUS

\* From the root of a quarter to that of the whole.
LEMMA RootStep ==
    ASSUME NEW x \in Nat, NEW e, IsRoot(e, x \div 4)
    PROVE  IsRoot(IF (2 * e + 1) * (2 * e + 1) > x THEN 2 * e ELSE 2 * e + 1, x)
<1> DEFINE q == x \div 4
<1>1. q \in Nat /\ 4 * q <= x /\ x < 4 * q + 4
  BY Quarter
<1>2. e \in Nat /\ e * e <= q /\ q < (e + 1) * (e + 1)
  BY DEF IsRoot
<1> HIDE DEF q
<1>3. (2 * e) * (2 * e) <= x
  <2>1. (2 * e) * (2 * e) = 4 * (e * e)
    BY <1>2
  <2>2. QED
    BY <1>1, <1>2, <2>1
<1>4. x < (2 * e + 2) * (2 * e + 2)
  <2>1. (2 * e + 2) * (2 * e + 2) = 4 * ((e + 1) * (e + 1))
    BY <1>2
  <2>2. (e + 1) * (e + 1) \in Nat
    BY <1>2
  <2> DEFINE s == (e + 1) * (e + 1)
  <2> HIDE DEF s
  <2>3. q + 1 <= s
    BY <1>1, <1>2, <2>2 DEF s
  <2>4. 4 * q + 4 <= 4 * s
    BY <1>1, <2>2, <2>3 DEF s
  <2>5. QED
    BY <1>1, <2>1, <2>2, <2>4 DEF s
<1>5. CASE (2 * e + 1) * (2 * e + 1) > x
  <2>1. IsRoot(2 * e, x)
    BY <1>2, <1>3, <1>5 DEF IsRoot
  <2>2. QED
    BY <1>5, <2>1
<1>6. CASE ~ ((2 * e + 1) * (2 * e + 1) > x)
  <2>1. 2 * e + 1 \in Nat /\ (2 * e + 1) + 1 = 2 * e + 2 /\ (2 * e + 1) * (2 * e + 1) \in Nat
    BY <1>2
  <2>2. (2 * e + 1) * (2 * e + 1) <= x
    BY <1>6, <2>1
  <2>3. IsRoot(2 * e + 1, x)
    BY <1>4, <2>1, <2>2 DEF IsRoot
  <2>4. QED
    BY <1>6, <2>3
<1>7. QED
  BY <1>5, <1>6

\* There is a function that its recursion describes.
LEMMA SquareRootSteps ==
    \A x \in Nat : SquareRoot[x] = IF x = 0 THEN 0
                                   ELSE LET even == 2 * SquareRoot[x \div 4]
                                        IN IF (even + 1) * (even + 1) > x THEN even ELSE even + 1
<1> DEFINE Step(f, x) == IF x = 0 THEN 0
                         ELSE LET even == 2 * f[x \div 4]
                              IN IF (even + 1) * (even + 1) > x THEN even ELSE even + 1
           Is(f) == f = [x \in Nat |-> Step(f, x)]
           root == [x \in Nat |-> CHOOSE k \in Nat : IsRoot(k, x)]
<1>1. \A x \in Nat : IsRoot(root[x], x)
  BY SomeRoot
<1>2. \A x \in Nat : root[x] = Step(root, x)
  <2>1. SUFFICES ASSUME NEW x \in Nat PROVE root[x] = Step(root, x)
    OBVIOUS
  <2> HIDE DEF root
  <2>2. CASE x = 0
    <3>1. IsRoot(0, 0) /\ IsRoot(root[0], 0)
      BY <1>1 DEF IsRoot
    <3>2. QED
      BY <2>2, <3>1, OneRoot
  <2>3. CASE x # 0
    <3>1. x \div 4 \in Nat
      BY Quarter
    <3>2. IsRoot(Step(root, x), x)
      BY <1>1, <2>3, <3>1, RootStep
    <3> HIDE DEF Step
    <3>3. QED
      BY <1>1, <3>2, OneRoot
  <2>4. QED
    BY <2>2, <2>3
<1>3. Is(root)
  <2>1. root = [x \in Nat |-> root[x]]
    OBVIOUS
  <2> HIDE DEF root, Step
  <2>2. QED
    BY <1>2, <2>1
<1>4. Is(SquareRoot)
  <2>1. SquareRoot = CHOOSE f : Is(f)
    BY DEF SquareRoot
  <2> HIDE DEF root, Is
  <2>2. QED
    BY <1>3, <2>1
<1>5. \A x \in Nat : SquareRoot[x] = Step(SquareRoot, x)
  <2> HIDE DEF Step
  <2>1. QED
    BY <1>4
<1>6. QED
  BY <1>5

LEMMA RootIsExact == \A x \in Nat : IsRoot(SquareRoot[x], x)
<1> DEFINE B == {n \in Nat : \A x \in 0..n : IsRoot(SquareRoot[x], x)}
<1>1. 0 \in B
  <2>1. SquareRoot[0] = 0 /\ IsRoot(0, 0)
    BY SquareRootSteps DEF IsRoot
  <2>2. \A x \in 0..0 : x = 0
    OBVIOUS
  <2>3. QED
    BY <2>1, <2>2
<1>2. ASSUME NEW n \in Nat, n \in B PROVE n + 1 \in B
  <2> DEFINE x == n + 1
  <2>1. x \in Nat /\ x # 0 /\ x \div 4 \in 0..n
    BY Quarter
  <2>2. IsRoot(SquareRoot[x \div 4], x \div 4)
    BY <1>2, <2>1
  <2> HIDE DEF x
  <2>3. IsRoot(SquareRoot[x], x)
    BY <2>1, <2>2, RootStep, SquareRootSteps
  <2>4. \A y \in 0..x : y \in 0..n \/ y = x
    BY DEF x
  <2>5. QED
    BY <1>2, <2>1, <2>3, <2>4 DEF x
<1> HIDE DEF B
<1>3. \A n \in Nat : n \in B
  <2>1. SUFFICES ASSUME NEW n \in Nat PROVE n \in B
    OBVIOUS
  <2>2. \A k \in 0..n - 1 : k \in B => k + 1 \in B
    BY <1>2
  <2>3. QED
    BY <1>1, <2>2, Induction
<1>4. QED
  BY <1>3 DEF B

-----------------------------------------------------------------------------
(* Swaps.                                                                     *)

LEMMA Quotients ==
    ASSUME NEW a \in Int, NEW b \in Nat, b > 0
    PROVE  /\ a \div b \in Int
           /\ a >= 0 => a \div b \in Nat
           /\ b * (a \div b) <= a /\ a < b * (a \div b) + b
  OBVIOUS

LEMMA Products ==
    ASSUME NEW a \in Nat, NEW b \in Nat
    PROVE  a * b \in Nat /\ (a > 0 /\ b > 0 => a * b > 0)
  OBVIOUS

LEMMA TimesMore ==
    ASSUME NEW a \in Nat, NEW b \in Nat, NEW c \in Nat, a <= b
    PROVE  a * c <= b * c /\ c * a <= c * b
  OBVIOUS

\* The reserves the matrix may have.
IsState(r) == r \in [DOMAIN Pools -> Seq(Nat)] /\ \A p \in DOMAIN Pools : IsReserves(p, r[p])

LEMMA Scale == Q96 \in Nat /\ Q96 > 0 /\ MinSqrt \in Nat /\ MinSqrt > 0 /\ MaxSqrt \in Nat
               /\ MinSqrt < MaxSqrt /\ MinProfit \in Nat /\ Costs \in Nat
  BY EvaluationAssumption

\* What is left of a payment is some of it: what the pool leaves, and no more than that in
\* the code's count of a V2 pool.
LEMMA FeeFacts ==
    ASSUME NEW p \in DOMAIN Pools
    PROVE  /\ FeeUnit \in Nat /\ FeeUnit > 0 /\ FeeUnit * Pips \in Nat /\ FeeUnit * Pips > 0
           /\ Kept(p) \in 1..FeeUnit /\ FeeFactor(p) \in 1..FeeUnit /\ FeeFactor(p) <= Kept(p)
           /\ KeptV3(p) \in 1..FeeUnit * Pips
<1> DEFINE fee == Pools[p].fee
           whole == FeeUnit * Pips
           limit == PipsLimit * Pips
           pips == IF fee <= PipsLimit THEN fee * Pips ELSE fee
<1>1. /\ FeeUnit \in Nat /\ FeeUnit > 0 /\ Pips \in Nat /\ Pips > 0 /\ PipsLimit \in Nat /\ PipsLimit > 0
      /\ PipsLimit <= FeeUnit /\ DefaultFee \in 1..FeeUnit - 1 /\ DefaultPips \in 1..whole - 1
  BY FeeAssumption
<1>2. fee \in 0..FeeUnit - 1
  BY RegistryAssumption
<1>3. whole \in Nat /\ whole > 0 /\ limit \in Nat /\ limit > 0 /\ limit <= whole
  BY <1>1, Products, TimesMore
<1>4. Kept(p) \in 1..FeeUnit /\ FeeFactor(p) \in 1..FeeUnit /\ FeeFactor(p) <= Kept(p)
  <2> HIDE DEF whole
  <2>1. QED
    BY <1>1, <1>2 DEF Kept, FeeFactor
<1>5. pips \in Nat
  <2>1. fee \in Nat /\ fee * Pips \in Nat
    BY <1>1, <1>2, Products
  <2>2. QED
    BY <2>1
<1>6. FeeInPips(p) = IF pips >= limit THEN limit - 1 ELSE IF pips = 0 THEN DefaultPips ELSE pips
  BY DEF FeeInPips
<1>7. KeptV3(p) = whole - FeeInPips(p)
  BY DEF KeptV3
<1> HIDE DEF whole, limit, pips
<1>8. FeeInPips(p) \in 0..whole - 1
  BY <1>1, <1>3, <1>5, <1>6
<1>9. KeptV3(p) \in 1..whole
  BY <1>3, <1>7, <1>8
<1>10. QED
  BY <1>1, <1>3, <1>4, <1>9 DEF whole

\* A result in float64 is a number, at most one part in Accuracy too high.
LEMMA FloatIsClose ==
    ASSUME NEW n \in Nat, NEW d \in Nat, d > 0
    PROVE  /\ FloatQuotient(n, d) \in Nat
           /\ Accuracy * (d * FloatQuotient(n, d) - n) <= n
<1> DEFINE exact == n \div d
           rounded == exact + Roundoff(n, d)
           Close(x) == x \in Nat /\ Accuracy * (d * x - n) <= n
<1>1. \/ FloatQuotient(n, d) = rounded /\ IsFloatQuotient(rounded, n, d)
      \/ FloatQuotient(n, d) = exact
  BY DEF FloatQuotient
<1>2. IsFloatQuotient(rounded, n, d) => Close(rounded)
  <2> HIDE DEF rounded
  <2>1. QED
    BY DEF IsFloatQuotient
<1>3. Close(exact)
  <2>1. exact \in Nat /\ d * exact <= n
    BY Quotients
  <2> HIDE DEF exact
  <2>2. n - d * exact \in Nat /\ Accuracy \in Nat
    BY <2>1, FeeAssumption
  <2>3. Accuracy * (n - d * exact) \in Nat
    BY <2>2, Products
  <2>4. Accuracy * (d * exact - n) = - (Accuracy * (n - d * exact))
    BY <2>1, <2>2
  <2>5. QED
    BY <2>1, <2>3, <2>4
<1> HIDE DEF exact, rounded, Close
<1>4. Close(FloatQuotient(n, d))
  BY <1>1, <1>2, <1>3
<1>5. QED
  BY <1>4 DEF Close

LEMMA PoolFacts ==
    ASSUME NEW p \in DOMAIN Pools, NEW r, IsState(r)
    PROVE  /\ r[p] \in Seq(Nat) /\ r[p][1] \in Nat /\ r[p][2] \in Nat
           /\ Product(p, r) \in Nat
           /\ Pools[p].v3 => \/ SqrtPrice(p, r) = 0
                             \/ SqrtPrice(p, r) \in MinSqrt..MaxSqrt
           /\ Pools[p].v3 => Liquidity(p, r) \in Nat
<1>0. IsReserves(p, r[p])
  BY DEF IsState
<1>1. r[p] \in Seq(Nat) /\ Len(r[p]) = IF Pools[p].v3 THEN 4 ELSE 2
  BY <1>0 DEF IsReserves
<1>2. r[p][1] \in Nat /\ r[p][2] \in Nat /\ (Pools[p].v3 => r[p][4] \in Nat)
  <2>1. \A i \in 1..Len(r[p]) : r[p][i] \in Nat
    BY <1>1
  <2>2. 1 \in 1..Len(r[p]) /\ 2 \in 1..Len(r[p]) /\ (Pools[p].v3 => 4 \in 1..Len(r[p]))
    BY <1>1
  <2>3. QED
    BY <2>1, <2>2
<1>3. Product(p, r) \in Nat
  BY <1>2 DEF Product
<1>7. Pools[p].v3 => SqrtPrice(p, r) = 0 \/ SqrtPrice(p, r) \in MinSqrt..MaxSqrt
  BY <1>0 DEF IsReserves, SqrtPrice
<1>8. QED
  BY <1>1, <1>2, <1>3, <1>7 DEF Liquidity

LEMMA SidesOfPool ==
    ASSUME NEW p \in DOMAIN Pools, NEW t, NEW r, IsState(r)
    PROVE  /\ In(p, t, r) \in Nat /\ Out(p, t, r) \in Nat
           /\ Product(p, r) = In(p, t, r) * Out(p, t, r)
<1>1. r[p][1] \in Nat /\ r[p][2] \in Nat
  BY PoolFacts
<1>2. QED
  BY <1>1 DEF In, Out, Product

\* The fraction a V2 pool pays is of numbers, over one that is not 0.
LEMMA SwapV2Pays ==
    ASSUME NEW p \in DOMAIN Pools, NEW t, NEW r, IsState(r), NEW amount \in Nat
    PROVE  SwapV2(p, t, r)[amount] \in Nat
<1> DEFINE k == FeeFactor(p)
           n == Out(p, t, r) * amount * k
           d == In(p, t, r) * FeeUnit + amount * k
<1>1. In(p, t, r) \in Nat /\ Out(p, t, r) \in Nat /\ k \in Nat /\ k > 0 /\ FeeUnit \in Nat
  <2>1. FeeFactor(p) \in 1..FeeUnit
    BY FeeFacts
  <2>2. QED
    BY <2>1, FeeFacts, SidesOfPool
<1>3. SwapV2(p, t, r)[amount] = IF amount = 0 \/ Product(p, r) = 0 THEN 0 ELSE FloatQuotient(n, d)
  BY DEF SwapV2
<1> HIDE DEF k
<1>2. n \in Nat /\ d \in Nat /\ (amount # 0 => d > 0)
  <2>1. /\ Out(p, t, r) * amount \in Nat /\ amount * k \in Nat /\ (amount > 0 => amount * k > 0)
        /\ In(p, t, r) * FeeUnit \in Nat
    BY <1>1, Products
  <2>2. QED
    BY <1>1, <2>1, Products
<1> HIDE DEF n, d
<1>4. QED
  BY <1>2, <1>3, FloatIsClose

LEMMA ClampedPrice ==
    ASSUME NEW x \in Int
    PROVE  Clamped(x) \in MinSqrt..MaxSqrt /\ (x \in MinSqrt..MaxSqrt => Clamped(x) = x)
  BY Scale DEF Clamped

LEMMA PaidInCounts ==
    ASSUME NEW p \in DOMAIN Pools, Pools[p].v3, NEW r, IsState(r), NEW amount \in Nat,
           SqrtPrice(p, r) # 0, NEW z
    PROVE  PaidIn(p, z, r)[amount] \in Nat
<1> DEFINE sp == SqrtPrice(p, r)
           l == Liquidity(p, r)
           a == ((sp - MinSqrt) * l * Q96) \div (sp * MinSqrt)
           b == ((MaxSqrt - sp) * l) \div Q96
           whole == FeeUnit * Pips
           c == (amount * KeptV3(p)) \div whole
<1>1. sp \in MinSqrt..MaxSqrt /\ l \in Nat /\ KeptV3(p) \in Nat /\ whole \in Nat /\ whole > 0
  <2>1. KeptV3(p) \in 1..whole /\ whole \in Nat /\ whole > 0
    BY FeeFacts
  <2>2. SqrtPrice(p, r) \in MinSqrt..MaxSqrt
    BY PoolFacts
  <2>3. Liquidity(p, r) \in Nat
    BY PoolFacts
  <2>4. QED
    BY <2>1, <2>2, <2>3
<1>2. PaidIn(p, z, r)[amount] = LeastOf(c, IF z THEN a ELSE b)
  BY DEF PaidIn
<1> HIDE DEF sp, l, whole
<1>3. a \in Nat
  <2>1. sp - MinSqrt \in Nat /\ sp \in Nat /\ sp > 0 /\ MinSqrt \in Nat /\ MinSqrt > 0 /\ Q96 \in Nat
    BY <1>1, Scale
  <2>2. (sp - MinSqrt) * l \in Nat
    BY <1>1, <2>1, Products
  <2>3. (sp - MinSqrt) * l * Q96 \in Nat
    BY <2>1, <2>2, Products
  <2>4. sp * MinSqrt \in Nat /\ sp * MinSqrt > 0
    BY <2>1, Products
  <2>5. QED
    BY <2>3, <2>4, Quotients
<1>4. b \in Nat
  <2>1. MaxSqrt - sp \in Nat /\ Q96 \in Nat /\ Q96 > 0
    BY <1>1, Scale
  <2>2. (MaxSqrt - sp) * l \in Nat
    BY <1>1, <2>1, Products
  <2>3. QED
    BY <2>1, <2>2, Quotients
<1>5. c \in Nat
  BY <1>1, Products, Quotients
<1> HIDE DEF a, b, c
<1>6. QED
  BY <1>2, <1>3, <1>4, <1>5 DEF LeastOf

LEMMA NextPrices ==
    ASSUME NEW sp \in MinSqrt..MaxSqrt, NEW l \in Nat, l > 0, NEW paid \in Nat
    PROVE  /\ NextFromAmount0(sp, l, paid) \in MinSqrt..MaxSqrt
           /\ NextFromAmount1(sp, l, paid) \in MinSqrt..MaxSqrt
<1>1. sp \in Nat /\ sp > 0 /\ Q96 \in Nat /\ Q96 > 0
  BY Scale
<1>2. l * Q96 \in Nat /\ l * Q96 > 0 /\ paid * sp \in Nat /\ paid * Q96 \in Nat
  BY <1>1, Products
<1> DEFINE den == l * Q96 + paid * sp
<1>3. den \in Nat /\ den > 0
  BY <1>2
<1>4. l * Q96 * sp \in Nat
  BY <1>1, <1>2, Products
<1> HIDE DEF den
<1>5. l * Q96 * sp + den - 1 \in Int
  BY <1>3, <1>4
<1>6. (l * Q96 * sp + den - 1) \div den \in Int
  BY <1>3, <1>5, Quotients
<1>7. (paid * Q96) \div l \in Int
  BY <1>2, Quotients
<1>8. sp + (paid * Q96) \div l \in Int
  BY <1>1, <1>7
<1>9. QED
  BY <1>6, <1>8, ClampedPrice DEF NextFromAmount0, NextFromAmount1, den

LEMMA SwapV3Pays ==
    ASSUME NEW p \in DOMAIN Pools, Pools[p].v3, NEW t, NEW r, IsState(r), NEW amount \in Nat
    PROVE  SwapV3(p, t, r)[amount] \in Nat
<1> DEFINE sp == SqrtPrice(p, r)
           l == Liquidity(p, r)
           z == Pools[p].t0 = t
           paid == PaidIn(p, z, r)[amount]
           next == IF z THEN NextFromAmount0(sp, l, paid) ELSE NextFromAmount1(sp, l, paid)
           down == (l * (sp - next)) \div Q96
           up == (l * Q96 * (next - sp)) \div (sp * next)
<1>1. l \in Nat /\ (sp = 0 \/ sp \in MinSqrt..MaxSqrt)
  BY PoolFacts
<1>2. SwapV3(p, t, r)[amount] =
        IF amount = 0 \/ sp = 0 \/ l = 0 THEN 0
        ELSE IF paid = 0 THEN 0
        ELSE IF z THEN IF next >= sp THEN 0 ELSE down
        ELSE IF next <= sp THEN 0 ELSE up
  BY DEF SwapV3
<1>3. CASE amount = 0 \/ sp = 0 \/ l = 0
  BY <1>2, <1>3
<1>4. CASE ~ (amount = 0 \/ sp = 0 \/ l = 0)
  <2>1. paid \in Nat
    BY <1>4, PaidInCounts
  <2> HIDE DEF paid, sp, l
  <2>2. next \in MinSqrt..MaxSqrt
    BY <1>1, <1>4, <2>1, NextPrices
  <2> HIDE DEF next, z
  <2>3. next \in Nat /\ next > 0 /\ sp \in Nat /\ sp > 0 /\ Q96 \in Nat /\ Q96 > 0
    BY <1>1, <1>4, <2>2, Scale
  <2>4. CASE sp > next
    <3>1. sp - next \in Nat
      BY <2>3, <2>4
    <3>2. l * (sp - next) \in Nat
      BY <1>1, <3>1, Products
    <3>3. down \in Nat
      BY <2>3, <3>2, Quotients
    <3> HIDE DEF down, up
    <3>4. QED
      BY <1>2, <2>3, <2>4, <3>3
  <2>5. CASE next > sp
    <3>1. next - sp \in Nat
      BY <2>3, <2>5
    <3>2. l * Q96 \in Nat /\ sp * next \in Nat /\ sp * next > 0
      BY <1>1, <2>3, Products
    <3>3. l * Q96 * (next - sp) \in Nat
      BY <3>1, <3>2, Products
    <3>4. up \in Nat
      BY <3>2, <3>3, Quotients
    <3> HIDE DEF down, up
    <3>5. QED
      BY <1>2, <2>3, <2>5, <3>4
  <2>6. CASE next = sp
    <3> HIDE DEF down, up
    <3>1. QED
      BY <1>2, <2>3, <2>6
  <2>7. QED
    BY <2>3, <2>4, <2>5, <2>6
<1>5. QED
  BY <1>3, <1>4

LEMMA SwapPays ==
    ASSUME NEW p \in DOMAIN Pools, NEW t, NEW r, IsState(r), NEW amount \in Nat
    PROVE  ComputeSwap(p, t, r)[amount] \in Nat
  BY SwapV2Pays, SwapV3Pays DEF ComputeSwap

-----------------------------------------------------------------------------
(* Amounts to try.                                                            *)

LEMMA RootCounts == \A x \in Nat : SquareRoot[x] \in Nat
  BY RootIsExact DEF IsRoot

LEMMA OptimumCounts ==
    ASSUME NEW p \in DOMAIN Pools, NEW t, NEW r, IsState(r)
    PROVE  ComputeOptimalInputRaw(p, t, r) \in Nat
<1> DEFINE x == (Product(p, r) * FeeUnit) \div FeeFactor(p)
           best == SquareRoot[x] - In(p, t, r)
<1>1. Product(p, r) \in Nat
  BY PoolFacts
<1>2. FeeFactor(p) \in Nat /\ FeeFactor(p) > 0 /\ Product(p, r) * FeeUnit \in Nat
  <2>1. FeeFactor(p) \in 1..FeeUnit /\ FeeUnit \in Nat
    BY FeeFacts
  <2>2. QED
    BY <1>1, <2>1, Products
<1>3. x \in Nat
  BY <1>2, Quotients
<1>4. In(p, t, r) \in Nat
  BY SidesOfPool
<1> HIDE DEF x
<1>5. best \in Int
  BY <1>3, <1>4, RootCounts
<1>6. ComputeOptimalInputRaw(p, t, r) = IF Product(p, r) = 0 THEN 0 ELSE IF best > 0 THEN best ELSE 0
  BY DEF ComputeOptimalInputRaw, x
<1> HIDE DEF best
<1>7. QED
  BY <1>5, <1>6

LEMMA Optimum2HopForm ==
    ASSUME NEW p, NEW q, NEW t, NEW r, NEW fees, fees = Kept(p) * Kept(q),
           NEW whole, whole = FeeUnit * FeeUnit, NEW best,
           best = SquareRoot[(In(p, t, r) * In(q, t, r) * fees) \div (whole - fees)] - In(p, t, r)
    PROVE  /\ ComputeOptimalAmount2Hop(p, q, t, r) \in {0, best}
           /\ ComputeOptimalAmount2Hop(p, q, t, r) = 0 \/ (best > 0 /\ ~ (fees >= whole))
  BY DEF ComputeOptimalAmount2Hop

LEMMA Optimum2HopCounts ==
    ASSUME NEW p \in DOMAIN Pools, NEW q \in DOMAIN Pools, NEW t, NEW r, IsState(r)
    PROVE  ComputeOptimalAmount2Hop(p, q, t, r) \in Nat
<1> DEFINE fees == Kept(p) * Kept(q)
           whole == FeeUnit * FeeUnit
           x == (In(p, t, r) * In(q, t, r) * fees) \div (whole - fees)
           best == SquareRoot[x] - In(p, t, r)
<1>1. fees \in Nat /\ whole \in Nat
  <2>1. Kept(p) \in 1..FeeUnit /\ Kept(q) \in 1..FeeUnit /\ FeeUnit \in Nat
    BY FeeFacts
  <2>2. Kept(p) \in Nat /\ Kept(q) \in Nat /\ FeeUnit \in Nat
    BY <2>1
  <2>3. QED
    BY <2>2, Products
<1>2. In(p, t, r) \in Nat /\ In(q, t, r) \in Nat
  BY SidesOfPool
<1>3. /\ ComputeOptimalAmount2Hop(p, q, t, r) \in {0, best}
      /\ ComputeOptimalAmount2Hop(p, q, t, r) = 0 \/ (best > 0 /\ ~ (fees >= whole))
  BY Optimum2HopForm
<1> HIDE DEF fees, whole
<1>4. CASE fees < whole
  <2>1. whole - fees \in Nat /\ whole - fees > 0
    BY <1>1, <1>4
  <2>2. In(p, t, r) * In(q, t, r) \in Nat
    BY <1>2, Products
  <2>3. In(p, t, r) * In(q, t, r) * fees \in Nat
    BY <1>1, <2>2, Products
  <2>4. x \in Nat
    BY <2>1, <2>3, Quotients
  <2> HIDE DEF x
  <2>5. best \in Int
    BY <1>2, <2>4, RootCounts
  <2> HIDE DEF best
  <2>6. QED
    BY <1>3, <2>5
<1>5. QED
  BY <1>1, <1>3, <1>4

LEMMA ScaledCounts ==
    ASSUME NEW a \in Nat, NEW percents \in Seq(Nat)
    PROVE  Scaled(a, percents) \in Seq(Nat)
<1>1. \A i \in 1..Len(percents) : (a * percents[i]) \div 100 \in Nat
  <2>1. SUFFICES ASSUME NEW i \in 1..Len(percents) PROVE (a * percents[i]) \div 100 \in Nat
    OBVIOUS
  <2>2. percents[i] \in Nat
    OBVIOUS
  <2>3. QED
    BY <2>2, Products, Quotients
<1>2. DOMAIN percents = 1..Len(percents) /\ Len(percents) \in Nat
  OBVIOUS
<1>3. Scaled(a, percents) \in [1..Len(percents) -> Nat]
  BY <1>1, <1>2 DEF Scaled
<1>4. QED
  BY <1>2, <1>3, SeqDef

LEMMA PercentsTyped ==
    AroundOptimum \in Seq(Nat) /\ AroundBase \in Seq(Nat) /\ AroundAmount3Hop \in Seq(Nat)
  BY DEF AroundOptimum, AroundBase, AroundAmount3Hop
-----------------------------------------------------------------------------
(* Round trips and their routes.                                              *)

Trips == {path \in Seq(Tokens) : Len(path) \in {2, 3} /\ IsInjective(path) /\ path[1] \in Anchors}

\* The tokens of hop i, and those of a pool.
Leg(path, i) == {path[i], path[(i % Len(path)) + 1]}
Ends(p) == {Pools[p].t0, Pools[p].t1}

Routes(path) ==
    {route \in Seq(DOMAIN Pools) :
        /\ Len(route) = Len(path) /\ IsInjective(route)
        /\ \A i \in 1..Len(path) : Ends(route[i]) = Leg(path, i)}

\* The pools of two tokens: two different ones, each in one place.
LEMMA PoolsOfPair ==
    ASSUME NEW a, NEW b
    PROVE  /\ PairOf(a, b) \in Seq(DOMAIN Pools) /\ IsInjective(PairOf(a, b))
           /\ \A i \in 1..Len(PairOf(a, b)) :
                 /\ PairOf(a, b)[i] \in DOMAIN Pools
                 /\ {Pools[PairOf(a, b)[i]].t0, Pools[PairOf(a, b)[i]].t1} = {a, b}
           /\ Len(PairOf(a, b)) \in Nat
           /\ PairOf(a, b) # <<>> => a # b /\ a \in Tokens /\ b \in Tokens
<1> DEFINE S == {p \in DOMAIN Pools : {Pools[p].t0, Pools[p].t1} = {a, b}}
           s == PairOf(a, b)
<1>1. s \in Seq(S) /\ IsInjective(s)
  <2>1. CASE {a, b} \in DOMAIN PairPools
    BY <2>1, RegistryAssumption DEF PairOf
  <2>2. CASE {a, b} \notin DOMAIN PairPools
    <3>1. s = <<>>
      BY <2>2 DEF PairOf
    <3>2. QED
      BY <3>1 DEF IsInjective
  <2>3. QED
    BY <2>1, <2>2
<1> HIDE DEF s, S
<1>2. \A i \in 1..Len(s) : s[i] \in S
  BY <1>1
<1>3. s \in Seq(DOMAIN Pools) /\ Len(s) \in Nat
  <2>1. S \subseteq DOMAIN Pools
    BY DEF S
  <2>2. QED
    BY <1>1, <2>1, SeqWider
<1>4. ASSUME s # <<>> PROVE a # b /\ a \in Tokens /\ b \in Tokens
  <2>1. 1 \in 1..Len(s)
    BY <1>3, <1>4
  <2>2. PICK p \in DOMAIN Pools : {Pools[p].t0, Pools[p].t1} = {a, b}
    BY <1>2, <2>1 DEF S
  <2>3. Pools[p].t0 # Pools[p].t1
    BY RegistryAssumption
  <2>4. a \in {Pools[p].t0, Pools[p].t1} /\ b \in {Pools[p].t0, Pools[p].t1}
    BY <2>2
  <2>5. QED
    BY <2>2, <2>3, <2>4 DEF Tokens
<1>5. QED
  BY <1>1, <1>2, <1>3, <1>4 DEF s, S

\* Of a list of numbers some are the greatest, and one of these comes first.
LEMMA SomeBest ==
    ASSUME NEW n \in Nat, NEW E, E \subseteq 1..n + 1, 1 \in E, NEW score \in [E -> Nat]
    PROVE  \E i \in E : \A k \in E : score[k] < score[i] \/ (score[k] = score[i] /\ i <= k)
<1> DEFINE Best(i, m) == \A k \in E \cap 1..m + 1 : score[k] < score[i] \/ (score[k] = score[i] /\ i <= k)
           B == {m \in Nat : \E i \in E \cap 1..m + 1 : Best(i, m)}
<1>1. 0 \in B
  <2>1. \A k \in E \cap 1..0 + 1 : k = 1
    OBVIOUS
  <2>2. Best(1, 0) /\ 1 \in E \cap 1..0 + 1
    BY <2>1
  <2> HIDE DEF Best
  <2>3. QED
    BY <2>2
<1>2. ASSUME NEW m \in 0..n - 1, m \in B PROVE m + 1 \in B
  <2>1. PICK i \in E \cap 1..m + 1 : Best(i, m)
    BY <1>2
  <2> DEFINE l == (m + 1) + 1
  <2>2. /\ m \in Nat /\ l \in Nat /\ m + 1 \in Nat /\ i \in 1..l /\ i < l
        /\ \A k : k \in 1..l <=> k \in 1..m + 1 \/ k = l
    OBVIOUS
  <2> HIDE DEF l
  <2>3. CASE l \in E /\ score[l] > score[i]
    <3>1. \A k \in E \cap 1..l : score[k] < score[l] \/ (score[k] = score[l] /\ l <= k)
      <4>1. SUFFICES ASSUME NEW k \in E \cap 1..l PROVE score[k] < score[l] \/ (score[k] = score[l] /\ l <= k)
        OBVIOUS
      <4>2. CASE k = l
        BY <2>2, <4>2
      <4>3. CASE k \in 1..m + 1
        <5>1. score[k] < score[i] \/ score[k] = score[i]
          BY <2>1, <4>3
        <5>2. score[k] \in Nat /\ score[i] \in Nat /\ score[l] \in Nat
          BY <2>3
        <5>3. QED
          BY <2>3, <5>1, <5>2
      <4>4. QED
        BY <2>2, <4>2, <4>3
    <3>2. Best(l, m + 1) /\ l \in E \cap 1..(m + 1) + 1
      BY <2>2, <2>3, <3>1 DEF l
    <3> HIDE DEF Best
    <3>3. QED
      BY <2>2, <3>2
  <2>4. CASE ~ (l \in E /\ score[l] > score[i])
    <3>1. \A k \in E \cap 1..l : score[k] < score[i] \/ (score[k] = score[i] /\ i <= k)
      <4>1. SUFFICES ASSUME NEW k \in E \cap 1..l PROVE score[k] < score[i] \/ (score[k] = score[i] /\ i <= k)
        OBVIOUS
      <4>2. CASE k = l
        <5>1. score[k] \in Nat /\ score[i] \in Nat /\ ~ (score[k] > score[i])
          BY <2>4, <4>2
        <5>2. QED
          BY <2>2, <4>2, <5>1
      <4>3. CASE k \in 1..m + 1
        BY <2>1, <4>3
      <4>4. QED
        BY <2>2, <4>2, <4>3
    <3>2. Best(i, m + 1) /\ i \in E \cap 1..(m + 1) + 1
      BY <2>2, <3>1 DEF l
    <3> HIDE DEF Best
    <3>3. QED
      BY <2>2, <3>2
  <2>5. QED
    BY <2>3, <2>4
<1>3. n \in B
  <2> HIDE DEF B
  <2>1. QED
    BY <1>1, <1>2, Induction
<1>4. E \cap 1..n + 1 = E
  OBVIOUS
<1>5. PICK i \in E \cap 1..n + 1 : Best(i, n)
  BY <1>3
<1>6. QED
  BY <1>4, <1>5

LEMMA BestIsOfPair ==
    ASSUME NEW a, NEW b, NEW r, IsState(r), PairOf(a, b) # <<>>
    PROVE  /\ BestPool(PairOf(a, b), r) \in DOMAIN Pools
           /\ {Pools[BestPool(PairOf(a, b), r)].t0, Pools[BestPool(PairOf(a, b), r)].t1} = {a, b}
<1> DEFINE pools == PairOf(a, b)
           E == {i \in DOMAIN pools : i = 1 \/ ~Pools[pools[i]].stable}
           score == [i \in E |-> Product(pools[i], r)]
           n == Len(pools) - 1
           Best(i) == \A k \in E : \/ Product(pools[k], r) < Product(pools[i], r)
                                   \/ Product(pools[k], r) = Product(pools[i], r) /\ i <= k
<1>1. pools \in Seq(DOMAIN Pools) /\ pools # <<>>
  BY PoolsOfPair
<1>2. \A i \in 1..Len(pools) : pools[i] \in DOMAIN Pools /\ {Pools[pools[i]].t0, Pools[pools[i]].t1} = {a, b}
  BY PoolsOfPair
<1>3. BestPool(pools, r) = pools[CHOOSE i \in E : Best(i)]
  BY DEF BestPool
<1> HIDE DEF pools
<1>4. n \in Nat /\ DOMAIN pools = 1..n + 1 /\ 1..Len(pools) = 1..n + 1 /\ 1 \in 1..n + 1
  BY <1>1
<1> HIDE DEF n
<1>5. E \subseteq 1..n + 1 /\ 1 \in E
  BY <1>4
<1>6. score \in [E -> Nat]
  <2>1. \A i \in E : Product(pools[i], r) \in Nat
    BY <1>2, <1>4, <1>5, PoolFacts
  <2>2. QED
    BY <2>1
<1>7. \E i \in E : \A k \in E : score[k] < score[i] \/ (score[k] = score[i] /\ i <= k)
  <2> HIDE DEF E, score
  <2>1. QED
    BY <1>4, <1>5, <1>6, SomeBest
<1>8. \E i \in E : Best(i)
  <2>1. PICK i \in E : \A k \in E : score[k] < score[i] \/ (score[k] = score[i] /\ i <= k)
    BY <1>7
  <2> HIDE DEF E
  <2>2. \A k \in E : score[k] = Product(pools[k], r)
    OBVIOUS
  <2> HIDE DEF score
  <2>3. Best(i)
    BY <2>1, <2>2
  <2> HIDE DEF Best
  <2>4. QED
    BY <2>3
<1> HIDE DEF Best, E
<1>9. (CHOOSE i \in E : Best(i)) \in E
  BY <1>8
<1>10. QED
  BY <1>2, <1>3, <1>4, <1>5, <1>9 DEF pools

LEMMA TripFacts ==
    ASSUME NEW path \in Trips
    PROVE  /\ path \in Seq(Tokens) /\ Len(path) \in {2, 3} /\ Hops(path) = 1..Len(path)
           /\ \A i, j \in 1..Len(path) : path[i] = path[j] => i = j
           /\ path[1] \in Anchors
<1>1. path \in Seq(Tokens) /\ Len(path) \in {2, 3} /\ IsInjective(path) /\ path[1] \in Anchors
  BY DEF Trips
<1>2. DOMAIN path = 1..Len(path)
  BY <1>1
<1>3. QED
  BY <1>1, <1>2 DEF IsInjective, Hops

LEMMA TwoPools ==
    ASSUME NEW path, Len(path) = 2, NEW a \in DOMAIN Pools, NEW b \in DOMAIN Pools, a # b,
           Ends(a) = {path[1], path[2]}, Ends(b) = {path[1], path[2]}
    PROVE  <<a, b>> \in Routes(path)
<1> DEFINE route == <<a, b>>
<1>1. route \in Seq(DOMAIN Pools) /\ Len(route) = 2 /\ DOMAIN route = 1..2 /\ route[1] = a /\ route[2] = b
  OBVIOUS
<1> HIDE DEF route
<1>2. \A i, j \in 1..2 : route[i] = route[j] => i = j
  BY <1>1
<1>3. ASSUME NEW i \in 1..2 PROVE Ends(route[i]) = Leg(path, i)
  <2>1. i = 1 \/ i = 2
    OBVIOUS
  <2>2. (1 % 2) + 1 = 2 /\ (2 % 2) + 1 = 1
    OBVIOUS
  <2>3. Leg(path, 1) = {path[1], path[2]} /\ Leg(path, 2) = {path[1], path[2]}
    BY <2>2 DEF Leg
  <2>4. QED
    BY <1>1, <2>1, <2>3
<1>4. QED
  BY <1>1, <1>2, <1>3 DEF Routes, IsInjective, route

\* The routes tried visit as many pools as the trip has tokens, none of them twice.
LEMMA RoutesFit ==
    ASSUME NEW path \in Trips, NEW r, IsState(r), NEW routes \in RoutesOf(path, r)
    PROVE  routes \in Seq(Routes(path))
<1> DEFINE pools == [i \in Hops(path) |-> PairOf(path[i], path[(i % Len(path)) + 1])]
           best == [i \in Hops(path) |-> BestPool(pools[i], r)]
<1>1. /\ path \in Seq(Tokens) /\ Len(path) \in {2, 3} /\ Hops(path) = 1..Len(path)
      /\ \A i, j \in 1..Len(path) : path[i] = path[j] => i = j
  BY TripFacts
<1>2. <<>> \in Seq(Routes(path))
  OBVIOUS
<1>3. CASE Len(path) = 2
  <2> DEFINE s == PairOf(path[1], path[2])
  <2>1. 1 \in Hops(path) /\ (1 % 2) + 1 = 2
    BY <1>1, <1>3
  <2>2. pools[1] = s
    BY <1>3, <2>1
  <2>3. routes = <<>> \/ \E top \in TopTwo(s, r) : routes = <<top, <<top[2], top[1]>> >>
    BY <1>3, <2>2 DEF RoutesOf
  <2>4. /\ IsInjective(s) /\ s \in Seq(DOMAIN Pools)
    BY PoolsOfPair
  <2>5. ASSUME NEW top \in TopTwo(s, r) PROVE <<top, <<top[2], top[1]>> >> \in Seq(Routes(path))
    <3> HIDE DEF s
    <3>1. PICK i \in DOMAIN s, j \in DOMAIN s : i # j /\ top = <<s[i], s[j]>>
      BY <2>5 DEF TopTwo
    <3>2. s[i] \in DOMAIN Pools /\ s[j] \in DOMAIN Pools /\ s[i] # s[j]
      BY <2>4, <3>1 DEF IsInjective
    <3>3. top[1] = s[i] /\ top[2] = s[j]
      BY <3>1
    <3>7. Ends(s[i]) = {path[1], path[2]} /\ Ends(s[j]) = {path[1], path[2]}
      <4>1. i \in 1..Len(PairOf(path[1], path[2])) /\ j \in 1..Len(PairOf(path[1], path[2]))
        BY <2>4 DEF s
      <4>2. QED
        BY <4>1, PoolsOfPair DEF Ends, s
    <3>4. top \in Routes(path) /\ <<top[2], top[1]>> \in Routes(path)
      BY <1>3, <3>1, <3>2, <3>3, <3>7, TwoPools
    <3> DEFINE back == <<top[2], top[1]>>
    <3> HIDE DEF back
    <3>5. <<top, back>> \in Seq(Routes(path))
      BY <3>4 DEF back
    <3>6. QED
      BY <3>5 DEF back
  <2>6. QED
    BY <1>2, <2>3, <2>5
<1>4. CASE Len(path) = 3
  <2>1. \/ routes = <<>>
        \/ routes = <<best>> /\ \A i \in Hops(path) : pools[i] # <<>>
    BY <1>4 DEF RoutesOf
  <2>2. CASE \A i \in Hops(path) : pools[i] # <<>>
    <3>1. /\ 1 % 3 = 1 /\ 2 % 3 = 2 /\ 3 % 3 = 0
          /\ 1 \in Hops(path) /\ 2 \in Hops(path) /\ 3 \in Hops(path)
          /\ \A i \in Hops(path) : i = 1 \/ i = 2 \/ i = 3
      BY <1>1, <1>4
    <3>2. /\ pools[1] = PairOf(path[1], path[2]) /\ pools[2] = PairOf(path[2], path[3])
          /\ pools[3] = PairOf(path[3], path[1])
      BY <1>4, <3>1
    <3> HIDE DEF pools
    <3>3. best[1] = BestPool(pools[1], r) /\ best[2] = BestPool(pools[2], r) /\ best[3] = BestPool(pools[3], r)
      BY <3>1
    <3>4. DOMAIN best = 1..3
      BY <1>1, <1>4
    <3>5. best = [i \in 1..3 |-> best[i]]
      BY <3>4
    <3> HIDE DEF best
    <3> DEFINE ends(p) == {Pools[p].t0, Pools[p].t1}
    <3>6. /\ best[1] \in DOMAIN Pools /\ ends(best[1]) = {path[1], path[2]}
          /\ best[2] \in DOMAIN Pools /\ ends(best[2]) = {path[2], path[3]}
          /\ best[3] \in DOMAIN Pools /\ ends(best[3]) = {path[3], path[1]}
      <4>1. best[1] \in DOMAIN Pools /\ ends(best[1]) = {path[1], path[2]}
        <5>1. best[1] = BestPool(PairOf(path[1], path[2]), r) /\ PairOf(path[1], path[2]) # <<>>
          BY <2>2, <3>1, <3>2, <3>3
        <5>2. QED
          BY <5>1, BestIsOfPair
      <4>2. best[2] \in DOMAIN Pools /\ ends(best[2]) = {path[2], path[3]}
        <5>1. best[2] = BestPool(PairOf(path[2], path[3]), r) /\ PairOf(path[2], path[3]) # <<>>
          BY <2>2, <3>1, <3>2, <3>3
        <5>2. QED
          BY <5>1, BestIsOfPair
      <4>3. best[3] \in DOMAIN Pools /\ ends(best[3]) = {path[3], path[1]}
        <5>1. best[3] = BestPool(PairOf(path[3], path[1]), r) /\ PairOf(path[3], path[1]) # <<>>
          BY <2>2, <3>1, <3>2, <3>3
        <5>2. QED
          BY <5>1, BestIsOfPair
      <4>4. QED
        BY <4>1, <4>2, <4>3
    <3>7. path[1] # path[2] /\ path[2] # path[3] /\ path[1] # path[3]
      BY <1>1, <1>4
    <3>8. /\ {path[1], path[2]} # {path[2], path[3]} /\ {path[2], path[3]} # {path[3], path[1]}
          /\ {path[1], path[2]} # {path[3], path[1]}
      BY <3>7
    <3>9. best[1] # best[2] /\ best[2] # best[3] /\ best[1] # best[3]
      BY <3>6, <3>8
    <3>10. best \in [1..3 -> DOMAIN Pools]
      BY <3>5, <3>6
    <3>11. best \in Seq(DOMAIN Pools) /\ Len(best) = 3
      <4>1. best = <<best[1], best[2], best[3]>>
        BY <3>5
      <4>2. <<best[1], best[2], best[3]>> \in Seq(DOMAIN Pools) /\ Len(<<best[1], best[2], best[3]>>) = 3
        BY <3>6
      <4>3. QED
        BY <4>1, <4>2
    <3>12. IsInjective(best)
      BY <3>4, <3>9 DEF IsInjective
    <3>16. ASSUME NEW i \in 1..3 PROVE Ends(best[i]) = Leg(path, i)
      <4>1. /\ Leg(path, 1) = {path[1], path[2]} /\ Leg(path, 2) = {path[2], path[3]}
            /\ Leg(path, 3) = {path[3], path[1]}
        BY <1>4, <3>1 DEF Leg
      <4>2. i = 1 \/ i = 2 \/ i = 3
        OBVIOUS
      <4>3. QED
        BY <3>6, <4>1, <4>2 DEF Ends
    <3>13. best \in Routes(path)
      BY <1>4, <3>11, <3>12, <3>16 DEF Routes
    <3>14. <<best>> \in Seq(Routes(path))
      BY <3>13
    <3>15. QED
      BY <1>2, <2>1, <3>14
  <2> HIDE DEF pools, best
  <2>3. QED
    BY <1>2, <2>1, <2>2
<1>5. QED
  BY <1>1, <1>3, <1>4

-----------------------------------------------------------------------------
(* What a trip pays, hop by hop.                                              *)

\* A trip of two or three hops, each a function of what the one before paid: there is a
\* function that the recursion describes.
Walk(n, a, G) == CHOOSE f : f = [i \in 0..n |-> IF i = 0 THEN a ELSE G[i][f[i - 1]]]

LEMMA HopByHop ==
    ASSUME NEW n \in {2, 3}, NEW a, NEW G
    PROVE  Walk(n, a, G)[0] = a /\ \A i \in 1..n : Walk(n, a, G)[i] = G[i][Walk(n, a, G)[i - 1]]
<1> DEFINE Is(f) == f = [i \in 0..n |-> IF i = 0 THEN a ELSE G[i][f[i - 1]]]
           g == [i \in 0..n |-> IF i = 0 THEN a
                                ELSE IF i = 1 THEN G[1][a]
                                ELSE IF i = 2 THEN G[2][G[1][a]] ELSE G[3][G[2][G[1][a]]]]
           f == Walk(n, a, G)
<1>1. g[0] = a /\ g[1] = G[1][a] /\ g[2] = G[2][G[1][a]] /\ (n = 3 => g[3] = G[3][G[2][G[1][a]]])
  OBVIOUS
<1>2. g = [i \in 0..n |-> g[i]]
  OBVIOUS
<1> HIDE DEF g
<1>3. \A i \in 0..n : g[i] = IF i = 0 THEN a ELSE G[i][g[i - 1]]
  <2>1. \A i \in 0..n : i = 0 \/ i = 1 \/ i = 2 \/ (i = 3 /\ n = 3)
    OBVIOUS
  <2>2. 1 - 1 = 0 /\ 2 - 1 = 1 /\ 3 - 1 = 2
    OBVIOUS
  <2>3. QED
    BY <1>1, <2>1, <2>2
<1>4. Is(g)
  BY <1>2, <1>3
<1>5. Is(f)
  <2>0. f = CHOOSE h : Is(h)
    BY DEF Walk
  <2> HIDE DEF Is, f
  <2>1. QED
    BY <1>4, <2>0
<1> HIDE DEF f
<1>6. \A i \in 0..n : f[i] = IF i = 0 THEN a ELSE G[i][f[i - 1]]
  BY <1>5
<1>7. f[0] = a /\ \A i \in 1..n : f[i] = G[i][f[i - 1]]
  <2>1. 0 \in 0..n /\ \A i \in 1..n : i \in 0..n /\ i # 0
    OBVIOUS
  <2>2. QED
    BY <1>6, <2>1
<1>8. QED
  BY <1>7 DEF f

LEMMA OutsSteps ==
    ASSUME NEW path, Len(path) \in {2, 3}, NEW route, NEW amount, NEW r
    PROVE  /\ DOMAIN Outs(path, route, amount, r) = 1..Len(path)
           /\ Outs(path, route, amount, r)[1] = ComputeSwap(route[1], path[1], r)[amount]
           /\ \A i \in 2..Len(path) :
                 Outs(path, route, amount, r)[i]
                   = ComputeSwap(route[i], path[i], r)[Outs(path, route, amount, r)[i - 1]]
<1> DEFINE n == Len(path)
           G == [i \in 1..n |-> ComputeSwap(route[i], path[i], r)]
           f == Walk(n, amount, G)
           h == CHOOSE h : h = [i \in 0..n |-> IF i = 0 THEN amount
                                               ELSE ComputeSwap(route[i], path[i], r)[h[i - 1]]]
<1>1. \A k : [i \in 0..n |-> IF i = 0 THEN amount ELSE G[i][k[i - 1]]]
             = [i \in 0..n |-> IF i = 0 THEN amount ELSE ComputeSwap(route[i], path[i], r)[k[i - 1]]]
  <2>1. \A i \in 0..n : i # 0 => i \in 1..n
    OBVIOUS
  <2>2. \A i \in 1..n : G[i] = ComputeSwap(route[i], path[i], r)
    OBVIOUS
  <2> HIDE DEF G, n
  <2>3. QED
    BY <2>1, <2>2
<1>2. f[0] = amount /\ \A i \in 1..n : f[i] = G[i][f[i - 1]]
  <2>1. n \in {2, 3}
    OBVIOUS
  <2> HIDE DEF G, n
  <2>2. QED
    BY <2>1, HopByHop
<1>3. f = h
  <2> HIDE DEF G, n
  <2>1. QED
    BY <1>1 DEF Walk
<1>4. Outs(path, route, amount, r) = [i \in 1..n |-> h[i]]
  BY DEF Outs, Hops
<1> HIDE DEF f, h
<1>5. QED
  BY <1>2, <1>3, <1>4

-----------------------------------------------------------------------------
(* The minimum outputs.                                                        *)

\* A quotient is the greatest number whose product with the divisor is no more.
LEMMA QuotientIsLess ==
    ASSUME NEW a \in Nat, NEW b \in Nat, b > 0, NEW q \in Nat, q * b <= a
    PROVE  q <= a \div b
<1> DEFINE k == a \div b
<1>1. k \in Nat /\ a < b * k + b
  BY Quotients
<1> HIDE DEF k
<1>2. ASSUME q >= k + 1 PROVE FALSE
  <2>1. (k + 1) * b <= q * b
    BY <1>1, <1>2
  <2>2. (k + 1) * b = b * k + b
    BY <1>1
  <2>3. q * b \in Nat /\ b * k + b \in Nat
    BY <1>1
  <2>4. QED
    BY <1>1, <2>1, <2>2, <2>3
<1>3. q <= k
  BY <1>1, <1>2
<1>4. QED
  BY <1>3 DEF k

LEMMA BufferIsClose ==
    \A x \in Nat : Buffered(x) \in Nat /\ Accuracy * (100 * Buffered(x) - 99 * x) <= 99 * x
<1>1. SUFFICES ASSUME NEW x \in Nat
               PROVE  Buffered(x) \in Nat /\ Accuracy * (100 * Buffered(x) - 99 * x) <= 99 * x
  OBVIOUS
<1>2. 99 * x \in Nat /\ 100 \in Nat /\ 100 > 0
  OBVIOUS
<1>3. QED
  BY <1>2, FloatIsClose DEF Buffered

\* Twice a part in Accuracy is less than the buffer takes off.
LEMMA BufferIsWide ==
    ASSUME NEW A \in Nat, A >= 200
    PROVE  99 * ((A + 1) * (A + 1)) <= 100 * (A * A)
<1>1. 200 * A <= A * A
  BY TimesMore
<1>2. (A + 1) * (A + 1) = A * A + 2 * A + 1 /\ A * A \in Nat
  OBVIOUS
<1>3. QED
  BY <1>1, <1>2

LEMMA Cancel ==
    ASSUME NEW a \in Nat, NEW b \in Nat, NEW c \in Nat, c > 0, c * a <= c * b
    PROVE  a <= b
<1>1. ASSUME b + 1 <= a PROVE FALSE
  <2>1. c * (b + 1) <= c * a
    BY <1>1, TimesMore
  <2>2. c * (b + 1) = c * b + c /\ c * b \in Nat /\ c * a \in Nat
    BY Products
  <2>3. QED
    BY <2>1, <2>2
<1>2. QED
  BY <1>1

\* The minimum of an amount computed in float64 is no more than the exact amount in integers.
LEMMA BufferCovers ==
    ASSUME NEW n \in Nat, NEW d \in Nat, d > 0, NEW x \in Nat, Accuracy * (d * x - n) <= n
    PROVE  Buffered(x) \in Nat /\ Buffered(x) <= n \div d
<1> DEFINE A == Accuracy
           B == Accuracy + 1
           m == Buffered(x)
<1>1. A \in Nat /\ A >= 200 /\ B \in Nat
  BY FeeAssumption
<1>2. m \in Nat /\ A * (100 * m - 99 * x) <= 99 * x
  BY BufferIsClose
<1>3. 99 * (B * B) <= 100 * (A * A)
  BY <1>1, BufferIsWide
<1>4. A * (d * x) <= B * n
  <2>1. d * x \in Nat /\ A * (d * x) \in Nat /\ A * n \in Nat
    BY <1>1, Products
  <2>2. A * (d * x - n) = A * (d * x) - A * n /\ B * n = A * n + n
    BY <1>1, <2>1
  <2>3. QED
    BY <2>1, <2>2
<1>5. A * (100 * m) <= B * (99 * x)
  <2>1. 100 * m \in Nat /\ 99 * x \in Nat /\ A * (100 * m) \in Nat /\ A * (99 * x) \in Nat
    BY <1>1, <1>2, Products
  <2>2. A * (100 * m - 99 * x) = A * (100 * m) - A * (99 * x) /\ B * (99 * x) = A * (99 * x) + 99 * x
    BY <1>1, <2>1
  <2>3. QED
    BY <1>2, <2>1, <2>2
<1> HIDE DEF A, B, m
<1>6. (100 * (A * A)) * (m * d) <= (99 * (B * B)) * n
  <2> DEFINE u == A * (100 * m)  v == B * (99 * x)  y == A * (d * x)  z == B * n
  <2>1. u \in Nat /\ v \in Nat /\ y \in Nat /\ z \in Nat /\ u <= v /\ y <= z
    BY <1>1, <1>2, <1>4, <1>5, Products
  <2>2. u * (A * d) <= v * (A * d) /\ (99 * B) * y <= (99 * B) * z
    <3>1. A * d \in Nat /\ 99 * B \in Nat
      BY <1>1, Products
    <3> HIDE DEF u, v, y, z
    <3>2. QED
      BY <2>1, <3>1, TimesMore
  <2>3. u * (A * d) = (100 * (A * A)) * (m * d)
    BY <1>1, <1>2
  <2>4. v * (A * d) = (99 * B) * y
    BY <1>1
  <2>5. (99 * B) * z = (99 * (B * B)) * n
    BY <1>1
  <2> HIDE DEF u, v, y, z
  <2>6. (100 * (A * A)) * (m * d) \in Nat /\ (99 * B) * y \in Nat /\ (99 * (B * B)) * n \in Nat
    BY <1>1, <1>2, <2>1, Products
  <2>7. QED
    BY <2>2, <2>3, <2>4, <2>5, <2>6
<1>7. (100 * (A * A)) * (m * d) <= (100 * (A * A)) * n
  <2> DEFINE e == 99 * (B * B)  f == 100 * (A * A)  g == m * d
  <2>1. e \in Nat /\ f \in Nat /\ g \in Nat
    BY <1>1, <1>2, Products
  <2>2. e <= f /\ f * g <= e * n
    BY <1>3, <1>6
  <2> HIDE DEF e, f, g
  <2>3. e * n <= f * n /\ e * n \in Nat /\ f * n \in Nat /\ f * g \in Nat
    BY <2>1, <2>2, TimesMore, Products
  <2>4. f * g <= f * n
    BY <2>2, <2>3
  <2>5. QED
    BY <2>4 DEF f, g
<1>8. m * d <= n
  <2> DEFINE f == 100 * (A * A)  g == m * d
  <2>1. f \in Nat /\ f > 0 /\ g \in Nat
    BY <1>1, <1>2, Products
  <2>2. f * g <= f * n
    BY <1>7
  <2> HIDE DEF f, g
  <2>3. g <= n
    BY <2>1, <2>2, Cancel
  <2>4. QED
    BY <2>3 DEF g
<1>9. m <= n \div d
  BY <1>2, <1>8, QuotientIsLess
<1>10. QED
  BY <1>2, <1>9 DEF m

LEMMA BufferIsLess == \A x \in Nat : Buffered(x) \in Nat /\ Buffered(x) <= x
<1>1. SUFFICES ASSUME NEW x \in Nat PROVE Buffered(x) \in Nat /\ Buffered(x) <= x
  OBVIOUS
<1>2. 1 * x - x = 0 /\ x \div 1 = x /\ Accuracy * 0 = 0
  BY FeeAssumption
<1>3. Accuracy * (1 * x - x) <= x
  BY <1>2
<1>4. QED
  BY <1>2, <1>3, BufferCovers

\* A trip pays numbers at every hop.
LEMMA OutsCount ==
    ASSUME NEW path \in Trips, NEW route \in Routes(path), NEW amount \in Nat, NEW r, IsState(r)
    PROVE  Outs(path, route, amount, r) \in [1..Len(path) -> Nat]
<1> DEFINE outs == Outs(path, route, amount, r)
<1>1. Len(path) \in {2, 3}
  BY TripFacts
<1>2. \A i \in 1..Len(path) : route[i] \in DOMAIN Pools
  BY DEF Routes
<1>3. /\ DOMAIN outs = 1..Len(path)
      /\ outs[1] = ComputeSwap(route[1], path[1], r)[amount]
      /\ \A i \in 2..Len(path) : outs[i] = ComputeSwap(route[i], path[i], r)[outs[i - 1]]
  BY <1>1, OutsSteps
<1>4. outs = [i \in 1..Len(path) |-> outs[i]]
  BY <1>3 DEF Outs, Hops
<1> HIDE DEF outs
<1>5. outs[1] \in Nat
  BY <1>1, <1>2, <1>3, SwapPays
<1>6. outs[2] \in Nat
  <2>1. 2 \in 1..Len(path) /\ 2 \in 2..Len(path) /\ 2 - 1 = 1
    BY <1>1
  <2>2. QED
    BY <1>2, <1>3, <1>5, <2>1, SwapPays
<1>7. CASE Len(path) = 2
  BY <1>4, <1>5, <1>6, <1>7 DEF outs
<1>8. CASE Len(path) = 3
  <2>1. 3 \in 1..Len(path) /\ 3 \in 2..Len(path) /\ 3 - 1 = 2
    BY <1>8
  <2>2. outs[3] \in Nat
    <3>1. outs[3] = ComputeSwap(route[3], path[3], r)[outs[2]] /\ route[3] \in DOMAIN Pools
      BY <1>2, <1>3, <2>1
    <3>2. QED
      BY <1>6, <3>1, SwapPays
  <2>3. \A i \in 1..3 : i = 1 \/ i = 2 \/ i = 3
    OBVIOUS
  <2>4. QED
    BY <1>4, <1>5, <1>6, <1>8, <2>2, <2>3 DEF outs
<1>9. QED
  BY <1>1, <1>7, <1>8

LEMMA CandidateTyped ==
    ASSUME NEW path \in Trips, NEW route \in Routes(path), NEW amount \in Nat, NEW r, IsState(r),
           NEW cand, cand = Candidate(path, route, amount, r)
    PROVE  cand.net \in Int /\ (cand.net > 0 => cand \in Candidates)
<1> DEFINE n == Len(path)
           outs == Outs(path, route, amount, r)
<1>1. n \in {2, 3} /\ n \in Nat /\ n \in 1..n
  BY TripFacts
<1>2. outs \in [1..n -> Nat]
  BY OutsCount
<1>0. outs = Outs(path, route, amount, r) /\ n = Len(path)
  OBVIOUS
<1>4. route \in Seq(DOMAIN Pools) /\ \A i \in 1..n : route[i] \in DOMAIN Pools
  BY DEF Routes
<1> HIDE DEF n, outs
<1>3. /\ cand.pools = route
      /\ cand.zeroForOnes = [i \in 1..n |-> ZeroForOne(route[i], path[i])]
      /\ cand.amountIn = amount
      /\ cand.outs = outs
      /\ cand.minOuts = [i \in 1..n |-> Buffered(outs[i])]
      /\ cand.net = outs[n] - amount
      /\ cand.read = [i \in 1..n |-> r[route[i]]]
      /\ cand = [pools |-> cand.pools, zeroForOnes |-> cand.zeroForOnes,
                 amountIn |-> cand.amountIn, outs |-> cand.outs, minOuts |-> cand.minOuts,
                 net |-> cand.net, read |-> cand.read]
  BY <1>0 DEF Candidate, Hops
<1>5. cand.net \in Int
  BY <1>1, <1>2, <1>3
<1>6. cand.zeroForOnes \in Seq(BOOLEAN)
  <2>1. cand.zeroForOnes \in [1..n -> BOOLEAN]
    BY <1>3 DEF ZeroForOne
  <2>2. QED
    BY <1>1, <2>1, SeqDef
<1>7. cand.minOuts \in Seq(Nat)
  <2>1. \A i \in 1..n : Buffered(outs[i]) \in Nat
    BY <1>2, BufferIsLess
  <2>2. cand.minOuts \in [1..n -> Nat]
    BY <1>3, <2>1
  <2>3. QED
    BY <1>1, <2>2, SeqDef
<1>8. cand.read \in Seq(Seq(Nat))
  <2>1. \A i \in 1..n : r[route[i]] \in Seq(Nat)
    BY <1>4 DEF IsState
  <2>2. cand.read \in [1..n -> Seq(Nat)]
    BY <1>3, <2>1
  <2>3. QED
    BY <1>1, <2>2, SeqDef
<1>9. cand.net > 0 => cand.net \in Nat
  BY <1>5
<1>10. cand.outs \in Seq(Nat)
  <2>1. cand.outs \in [1..n -> Nat]
    BY <1>2, <1>3
  <2>2. QED
    BY <1>1, <2>1, SeqDef
<1>11. ASSUME cand.net > 0 PROVE cand \in Candidates
  <2>1. /\ cand.pools \in Seq(DOMAIN Pools) /\ cand.amountIn \in Nat /\ cand.net \in Nat
    BY <1>3, <1>4, <1>9, <1>11
  <2>2. cand = [pools |-> cand.pools, zeroForOnes |-> cand.zeroForOnes,
                amountIn |-> cand.amountIn, outs |-> cand.outs, minOuts |-> cand.minOuts,
                net |-> cand.net, read |-> cand.read]
    BY <1>3
  <2>3. QED
    BY <1>6, <1>7, <1>8, <1>10, <2>1, <2>2 DEF Candidates
<1>12. QED
  BY <1>5, <1>11

-----------------------------------------------------------------------------
(* More paid in is more paid out: pools of the constant product.               *)

\* Who leaves more of a payment with a V2 pool is paid no less.
LEMMA MoreIsPaidByV2 ==
    ASSUME NEW w \in Nat, NEW out \in Nat, NEW u \in Nat, NEW v \in Nat, u > 0, u <= v
    PROVE  (out * u) \div (w + u) <= (out * v) \div (w + v)
<1> DEFINE q == (out * u) \div (w + u)
<1>1. v > 0
  OBVIOUS
<1>3. out * u \in Nat /\ out * v \in Nat /\ w + u \in Nat /\ w + u > 0 /\ w + v \in Nat /\ w + v > 0
  BY <1>1, Products
<1>4. q \in Nat /\ (w + u) * q <= out * u /\ (out * v) \div (w + v) \in Nat
  BY <1>3, Quotients
<1> HIDE DEF q
<1>5. q <= out
  <2>1. ASSUME q > out PROVE FALSE
    <3>1. (out + 1) * (w + u) <= q * (w + u)
      BY <1>3, <1>4, <2>1, TimesMore
    <3>2. (out + 1) * (w + u) = out * u + (out * w + (w + u)) /\ q * (w + u) = (w + u) * q
      BY <1>1, <1>4
    <3>3. out * w \in Nat
      BY <1>1, Products
    <3>4. q * (w + u) \in Nat
      BY <1>3, <1>4, Products
    <3>5. QED
      BY <1>1, <1>3, <1>4, <3>1, <3>2, <3>3, <3>4
  <2>2. QED
    BY <1>4, <2>1
<1>6. q * (w + v) <= out * v
  <2> DEFINE rest == out - q
  <2>1. rest \in Nat /\ out = q + rest
    BY <1>4, <1>5
  <2> HIDE DEF rest
  <2>2. rest * u <= rest * v
    BY <1>1, <2>1, TimesMore
  <2>3. q * w <= rest * u
    <3>1. (w + u) * q = q * w + q * u /\ out * u = q * u + rest * u
      BY <1>1, <1>4, <2>1
    <3>2. q * w \in Nat /\ q * u \in Nat /\ rest * u \in Nat
      BY <1>1, <1>4, <2>1, Products
    <3>3. QED
      BY <1>4, <3>1, <3>2
  <2>4. q * (w + v) = q * w + q * v /\ out * v = q * v + rest * v
    BY <1>1, <1>4, <2>1
  <2>5. q * w \in Nat /\ q * v \in Nat /\ rest * u \in Nat /\ rest * v \in Nat
    BY <1>1, <1>4, <2>1, Products
  <2>6. QED
    BY <2>2, <2>3, <2>4, <2>5
<1>7. q <= (out * v) \div (w + v)
  BY <1>3, <1>4, <1>6, QuotientIsLess
<1>8. QED
  BY <1>7 DEF q

\* A V2 pool pays the minimum of what the code computed, in the direction the code names.
LEMMA MinimumIsPaidByV2 ==
    ASSUME NEW p \in DOMAIN Pools, ~ Pools[p].v3, NEW t, NEW r, IsState(r), NEW amount \in Nat,
           SwapV2(p, t, r)[amount] > 0
    PROVE  Buffered(SwapV2(p, t, r)[amount]) <= PaidByV2(p, ZeroForOne(p, t), r[p], amount)
<1> DEFINE in == In(p, t, r)
           out == Out(p, t, r)
           k == FeeFactor(p)
           w == in * FeeUnit
           u == k * amount
           v == Kept(p) * amount
           n == out * amount * k
           d == w + amount * k
<1>1. SwapV2(p, t, r)[amount] = IF amount = 0 \/ Product(p, r) = 0 THEN 0 ELSE FloatQuotient(n, d)
  BY DEF SwapV2
<1>2. PaidByV2(p, ZeroForOne(p, t), r[p], amount)
        = (out * Kept(p) * amount) \div (in * FeeUnit + Kept(p) * amount)
  BY DEF PaidByV2, In, Out, ZeroForOne
<1>3. /\ in \in Nat /\ out \in Nat /\ FeeUnit \in Nat /\ k \in Nat /\ k > 0
      /\ Kept(p) \in Nat /\ k <= Kept(p)
  <2>1. in \in Nat /\ out \in Nat
    BY SidesOfPool
  <2>2. FeeUnit \in Nat /\ Kept(p) \in 1..FeeUnit /\ k \in 1..FeeUnit /\ k <= Kept(p)
    BY FeeFacts
  <2> HIDE DEF in, out, k
  <2>3. QED
    BY <2>1, <2>2
<1>4. amount > 0 /\ SwapV2(p, t, r)[amount] = FloatQuotient(n, d)
  <2> HIDE DEF n, d
  <2>1. QED
    BY <1>1
<1> HIDE DEF in, out, k
<1>5. w \in Nat /\ u \in Nat /\ v \in Nat /\ u > 0 /\ u <= v
  BY <1>3, <1>4, Products, TimesMore
<1>6. n = out * u /\ d = w + u
  BY <1>3
<1>7. out * Kept(p) * amount = out * v
  BY <1>3
<1>8. PaidByV2(p, ZeroForOne(p, t), r[p], amount) = (out * v) \div (w + v)
  BY <1>2, <1>7
<1> HIDE DEF n, d, w, u, v
<1>9. n \in Nat /\ d \in Nat /\ d > 0
  BY <1>3, <1>5, <1>6, Products
<1>10. /\ FloatQuotient(n, d) \in Nat
       /\ Accuracy * (d * FloatQuotient(n, d) - n) <= n
  BY <1>9, FloatIsClose
<1>11. Buffered(FloatQuotient(n, d)) \in Nat /\ Buffered(FloatQuotient(n, d)) <= n \div d
  BY <1>9, <1>10, BufferCovers
<1>12. (out * u) \div (w + u) <= (out * v) \div (w + v)
  BY <1>3, <1>5, MoreIsPaidByV2
<1>13. n \div d \in Nat /\ (out * v) \div (w + v) \in Nat
  <2>1. out * v \in Nat /\ w + v \in Nat /\ w + v > 0
    BY <1>3, <1>5, Products
  <2>2. QED
    BY <1>9, <2>1, Quotients
<1>14. QED
  BY <1>4, <1>6, <1>8, <1>11, <1>12, <1>13

LEMMA LeastOne ==
    ASSUME NEW S, NEW n \in Nat, n \in S
    PROVE  \E k \in 0..n : k \in S /\ \A j \in 0..k - 1 : j \notin S
<1> DEFINE Least(k) == k \in S /\ \A j \in 0..k - 1 : j \notin S
           B == {m \in Nat : \A j \in 0..m : j \notin S}
<1>1. SUFFICES ASSUME \A k \in 0..n : ~ Least(k) PROVE FALSE
  OBVIOUS
<1>2. 0 \in B
  <2>1. ~ Least(0)
    BY <1>1
  <2>2. 0 \notin S /\ \A j \in 0..0 : j = 0
    BY <2>1
  <2>3. QED
    BY <2>2
<1>3. ASSUME NEW k \in 0..n - 1, k \in B PROVE k + 1 \in B
  <2>1. ~ Least(k + 1)
    BY <1>1
  <2>2. \A j \in 0..(k + 1) - 1 : j \notin S
    BY <1>3
  <2>3. k + 1 \notin S
    BY <2>1, <2>2
  <2>4. \A j \in 0..k + 1 : j \in 0..k \/ j = k + 1
    OBVIOUS
  <2>5. QED
    BY <1>3, <2>3, <2>4
<1>4. n \in B
  <2> HIDE DEF B
  <2>1. QED
    BY <1>2, <1>3, Induction
<1>5. QED
  BY <1>4

-----------------------------------------------------------------------------
(* The price a V3 pool stops at.                                               *)

LEMMA QuotientGrows ==
    ASSUME NEW a \in Nat, NEW b \in Nat, NEW c \in Nat, c > 0, a <= b
    PROVE  a \div c \in Nat /\ b \div c \in Nat /\ a \div c <= b \div c
<1> DEFINE q == a \div c
<1>1. q \in Nat /\ c * q <= a /\ b \div c \in Nat
  BY Quotients
<1> HIDE DEF q
<1>2. q * c = c * q /\ q * c \in Nat
  BY <1>1, Products
<1>3. q * c <= b
  BY <1>1, <1>2
<1>4. q <= b \div c
  BY <1>1, <1>3, QuotientIsLess
<1>5. QED
  BY <1>1, <1>4 DEF q

\* A price that what was paid in covers, when token0 or token1 is paid.
Covers0(sp, l, paid, n) == l * Q96 * (sp - n) <= paid * sp * n
Covers1(sp, l, paid, n) == l * (n - sp) <= paid * Q96

\* The price a pool that was paid stops at.
Stop0(sp, l, paid) ==
    CHOOSE n \in MinSqrt..MaxSqrt :
        /\ Covers0(sp, l, paid, n)
        /\ n = MinSqrt \/ ~ Covers0(sp, l, paid, n - 1)
Stop1(sp, l, paid) ==
    CHOOSE n \in MinSqrt..MaxSqrt :
        /\ Covers1(sp, l, paid, n)
        /\ n = MaxSqrt \/ ~ Covers1(sp, l, paid, n + 1)

LEMMA HigherIsCovered ==
    ASSUME NEW sp \in Nat, NEW l \in Nat, NEW paid \in Nat, NEW n \in Nat, NEW m \in Nat,
           n <= m, Covers0(sp, l, paid, n)
    PROVE  Covers0(sp, l, paid, m)
<1> DEFINE a == l * Q96
           b == paid * sp
           d == m - n
<1>1. a \in Nat /\ b \in Nat /\ d \in Nat /\ m = n + d
  BY Scale, Products
<1>2. a * (sp - n) <= b * n
  BY DEF Covers0
<1> HIDE DEF a, b, d
<1>3. a * (sp - m) = a * (sp - n) - a * d /\ b * m = b * n + b * d
  BY <1>1
<1>4. a * d \in Nat /\ b * d \in Nat /\ a * (sp - n) \in Int /\ b * n \in Nat
  BY <1>1, Products
<1>5. a * (sp - m) <= b * m
  BY <1>2, <1>3, <1>4
<1>6. QED
  BY <1>5 DEF Covers0, a, b

LEMMA LowerIsCovered ==
    ASSUME NEW sp \in Nat, NEW l \in Nat, NEW paid \in Nat, NEW n \in Nat, NEW m \in Nat,
           n <= m, Covers1(sp, l, paid, m)
    PROVE  Covers1(sp, l, paid, n)
<1> DEFINE d == m - n
           b == paid * Q96
<1>1. d \in Nat /\ n = m - d /\ b \in Nat
  BY Scale, Products
<1>2. l * (m - sp) <= b
  BY DEF Covers1
<1> HIDE DEF d, b
<1>3. l * (n - sp) = l * (m - sp) - l * d
  BY <1>1
<1>4. l * d \in Nat /\ l * (m - sp) \in Int
  BY <1>1, Products
<1>5. l * (n - sp) <= b
  BY <1>1, <1>2, <1>3, <1>4
<1>6. QED
  BY <1>5 DEF Covers1, b

\* Where a pool stops is no higher than any price that is covered.
LEMMA StopsLow ==
    ASSUME NEW sp \in Nat, NEW l \in Nat, NEW paid \in Nat,
           NEW next \in MinSqrt..MaxSqrt, Covers0(sp, l, paid, next)
    PROVE  /\ Stop0(sp, l, paid) \in MinSqrt..MaxSqrt /\ Stop0(sp, l, paid) <= next
           /\ Covers0(sp, l, paid, Stop0(sp, l, paid))
<1> DEFINE stop == Stop0(sp, l, paid)
           C(n) == Covers0(sp, l, paid, n)
           Is(n) == C(n) /\ (n = MinSqrt \/ ~ C(n - 1))
           S == {k \in Nat : C(MinSqrt + k)}
           d == next - MinSqrt
<1>0. MinSqrt \in Nat /\ MaxSqrt \in Nat /\ next \in Nat /\ MinSqrt <= next /\ next <= MaxSqrt
  BY Scale
<1>1. d \in Nat /\ MinSqrt + d = next /\ C(next)
  BY <1>0
<1> HIDE DEF C, d, stop
<1>2. d \in S
  BY <1>1
<1>3. PICK k \in 0..d : k \in S /\ \A j \in 0..k - 1 : j \notin S
  <2> HIDE DEF S
  <2>1. QED
    BY <1>1, <1>2, LeastOne
<1>4. MinSqrt + k \in MinSqrt..MaxSqrt /\ Is(MinSqrt + k)
  <2>1. MinSqrt + k \in MinSqrt..MaxSqrt
    BY <1>0, <1>1, <1>3
  <2>2. CASE k = 0
    BY <1>0, <1>3, <2>2
  <2>3. CASE k # 0
    <3>1. k - 1 \in 0..k - 1 /\ k - 1 \in Nat /\ MinSqrt + (k - 1) = (MinSqrt + k) - 1
      BY <1>0, <1>1, <1>3, <2>3
    <3>2. ~ C((MinSqrt + k) - 1)
      BY <1>3, <3>1
    <3>3. QED
      BY <1>3, <2>1, <3>2
  <2>4. QED
    BY <2>1, <2>2, <2>3
<1>5. stop \in MinSqrt..MaxSqrt /\ Is(stop)
  <2>1. stop = CHOOSE n \in MinSqrt..MaxSqrt : Is(n)
    BY DEF C, stop, Stop0, Stop1
  <2> HIDE DEF Is
  <2>2. QED
    BY <1>4, <2>1
<1>6. ASSUME stop > next PROVE FALSE
  <2>0. stop \in MinSqrt..MaxSqrt
    BY <1>5
  <2> HIDE DEF Is
  <2>1. stop - 1 \in Nat /\ next <= stop - 1 /\ stop # MinSqrt
    BY <1>0, <1>6, <2>0
  <2>2. C(stop - 1)
    BY <1>0, <1>1, <2>1, HigherIsCovered DEF C
  <2>3. QED
    BY <1>5, <2>1, <2>2 DEF Is
<1>7. QED
  <2>1. C(stop)
    BY <1>5
  <2> HIDE DEF Is
  <2>2. stop \in MinSqrt..MaxSqrt /\ stop \in Nat
    BY <1>0, <1>5
  <2>3. QED
    BY <1>0, <1>6, <2>1, <2>2 DEF stop, C

LEMMA StopsHigh ==
    ASSUME NEW sp \in Nat, NEW l \in Nat, NEW paid \in Nat,
           NEW next \in MinSqrt..MaxSqrt, Covers1(sp, l, paid, next)
    PROVE  /\ Stop1(sp, l, paid) \in MinSqrt..MaxSqrt /\ next <= Stop1(sp, l, paid)
           /\ Covers1(sp, l, paid, Stop1(sp, l, paid))
<1> DEFINE stop == Stop1(sp, l, paid)
           C(n) == Covers1(sp, l, paid, n)
           Is(n) == C(n) /\ (n = MaxSqrt \/ ~ C(n + 1))
           S == {k \in Nat : C(MaxSqrt - k)}
           d == MaxSqrt - next
<1>0. MinSqrt \in Nat /\ MaxSqrt \in Nat /\ next \in Nat /\ MinSqrt <= next /\ next <= MaxSqrt
  BY Scale
<1>1. d \in Nat /\ MaxSqrt - d = next /\ C(next)
  BY <1>0
<1> HIDE DEF C, d, stop
<1>2. d \in S
  BY <1>1
<1>3. PICK k \in 0..d : k \in S /\ \A j \in 0..k - 1 : j \notin S
  <2> HIDE DEF S
  <2>1. QED
    BY <1>1, <1>2, LeastOne
<1>4. MaxSqrt - k \in MinSqrt..MaxSqrt /\ Is(MaxSqrt - k)
  <2>1. MaxSqrt - k \in MinSqrt..MaxSqrt
    BY <1>0, <1>1, <1>3
  <2>2. CASE k = 0
    BY <1>0, <1>3, <2>2
  <2>3. CASE k # 0
    <3>1. k - 1 \in 0..k - 1 /\ k - 1 \in Nat /\ MaxSqrt - (k - 1) = (MaxSqrt - k) + 1
      BY <1>0, <1>1, <1>3, <2>3
    <3>2. ~ C((MaxSqrt - k) + 1)
      BY <1>3, <3>1
    <3>3. QED
      BY <1>3, <2>1, <3>2
  <2>4. QED
    BY <2>1, <2>2, <2>3
<1>5. stop \in MinSqrt..MaxSqrt /\ Is(stop)
  <2>1. stop = CHOOSE n \in MinSqrt..MaxSqrt : Is(n)
    BY DEF C, stop, Stop0, Stop1
  <2> HIDE DEF Is
  <2>2. QED
    BY <1>4, <2>1
<1>6. ASSUME stop < next PROVE FALSE
  <2>0. stop \in MinSqrt..MaxSqrt
    BY <1>5
  <2> HIDE DEF Is
  <2>1. stop + 1 \in Nat /\ stop + 1 <= next /\ stop # MaxSqrt
    BY <1>0, <1>6, <2>0
  <2>2. C(stop + 1)
    BY <1>0, <1>1, <2>1, LowerIsCovered DEF C
  <2>3. QED
    BY <1>5, <2>1, <2>2 DEF Is
<1>7. QED
  <2>1. C(stop)
    BY <1>5
  <2> HIDE DEF Is
  <2>2. stop \in MinSqrt..MaxSqrt /\ stop \in Nat
    BY <1>0, <1>5
  <2>3. QED
    BY <1>0, <1>6, <2>1, <2>2 DEF stop, C

\* The prices the code computes are covered by what was paid, and by more.
LEMMA Next0Covered ==
    ASSUME NEW sp \in MinSqrt..MaxSqrt, NEW l \in Nat, l > 0,
           NEW less \in Nat, NEW paid \in Nat, less <= paid
    PROVE  Covers0(sp, l, paid, NextFromAmount0(sp, l, less))
<1> DEFINE a == l * Q96
           b == less * sp
           den == a + b
           e == a * sp + den - 1
           c == e \div den
           next == NextFromAmount0(sp, l, less)
<1>0. sp \in Nat /\ sp > 0 /\ Q96 \in Nat /\ Q96 > 0 /\ sp <= MaxSqrt /\ MinSqrt \in Nat /\ MaxSqrt \in Nat
      /\ MinSqrt <= sp
  BY Scale
<1>1. a \in Nat /\ a > 0 /\ b \in Nat /\ den \in Nat /\ den > 0 /\ a * sp \in Nat
  BY <1>0, Products
<1>2. next = Clamped(c)
  BY DEF NextFromAmount0
<1> HIDE DEF next, a, b
<1>3. e \in Nat
  BY <1>1
<1>4. c \in Nat /\ den * c <= e /\ e < den * c + den
  <2> HIDE DEF e, den
  <2>1. QED
    BY <1>1, <1>3, Quotients DEF e, den
<1> HIDE DEF c
<1>5. a * sp <= den * c
  <2>1. den * c \in Nat
    BY <1>1, <1>4, Products
  <2> HIDE DEF den
  <2>2. QED
    BY <1>1, <1>4, <2>1 DEF e
<1>6. c <= sp
  <2>1. ASSUME c >= sp + 1 PROVE FALSE
    <3> HIDE DEF den
    <3>1. den * (sp + 1) <= den * c
      BY <1>0, <1>1, <1>4, <2>1, TimesMore
    <3>2. den * (sp + 1) = den * sp + den /\ den * sp \in Nat /\ den * c \in Nat
      BY <1>0, <1>1, <1>4, Products
    <3>3. den * sp = a * sp + b * sp /\ b * sp \in Nat
      BY <1>0, <1>1, Products DEF den
    <3>4. QED
      BY <1>1, <1>4, <3>1, <3>2, <3>3 DEF e
  <2>2. QED
    BY <1>0, <1>4, <2>1
<1>7. next \in Nat /\ c <= next
  BY <1>0, <1>2, <1>4, <1>6 DEF Clamped
<1>8. a * sp <= den * next
  <2> HIDE DEF den
  <2>1. den * c <= den * next
    BY <1>1, <1>4, <1>7, TimesMore
  <2>2. den * c \in Nat /\ den * next \in Nat
    BY <1>1, <1>4, <1>7, Products
  <2>3. QED
    BY <1>1, <1>5, <2>1, <2>2
<1>9. b * next <= paid * sp * next
  <2>1. less * sp <= paid * sp
    BY <1>0, TimesMore
  <2>2. paid * sp \in Nat
    BY <1>0, Products
  <2>3. QED
    BY <1>1, <1>7, <2>1, <2>2, TimesMore DEF b
<1>10. a * (sp - next) <= paid * sp * next
  <2>1. den * next = a * next + b * next /\ a * (sp - next) = a * sp - a * next
    BY <1>0, <1>1, <1>7
  <2>2. a * next \in Nat /\ b * next \in Nat /\ paid * sp * next \in Nat
    <3>1. paid * sp \in Nat
      BY <1>0, Products
    <3>2. QED
      BY <1>1, <1>7, <3>1, Products
  <2> HIDE DEF den
  <2>3. QED
    BY <1>1, <1>8, <1>9, <2>1, <2>2
<1>11. QED
  BY <1>10 DEF Covers0, a, next

LEMMA Next1Covered ==
    ASSUME NEW sp \in MinSqrt..MaxSqrt, NEW l \in Nat, l > 0,
           NEW less \in Nat, NEW paid \in Nat, less <= paid
    PROVE  Covers1(sp, l, paid, NextFromAmount1(sp, l, less))
<1> DEFINE a == less * Q96
           d == a \div l
           next == NextFromAmount1(sp, l, less)
<1>0. sp \in Nat /\ Q96 \in Nat /\ sp <= MaxSqrt /\ MinSqrt \in Nat /\ MaxSqrt \in Nat /\ MinSqrt <= sp
  BY Scale
<1>1. a \in Nat /\ a <= paid * Q96 /\ paid * Q96 \in Nat
  BY <1>0, Products, TimesMore
<1>2. d \in Nat /\ l * d <= a
  <2> HIDE DEF a
  <2>1. QED
    BY <1>1, Quotients
<1>3. next = Clamped(sp + d)
  BY DEF NextFromAmount1
<1> HIDE DEF a, d, next
<1>4. next \in Nat /\ sp <= next /\ next <= sp + d
  BY <1>0, <1>2, <1>3 DEF Clamped
<1>5. l * (next - sp) <= l * d
  <2>1. next - sp \in Nat /\ next - sp <= d
    BY <1>0, <1>2, <1>4
  <2> DEFINE u == next - sp
  <2> HIDE DEF u
  <2>2. l * u <= l * d
    BY <1>2, <2>1, TimesMore DEF u
  <2>3. QED
    BY <2>2 DEF u
<1>6. l * (next - sp) <= paid * Q96
  <2>1. l * d \in Nat /\ l * (next - sp) \in Int
    BY <1>0, <1>2, <1>4, Products
  <2>2. QED
    BY <1>1, <1>2, <1>5, <2>1
<1>7. QED
  BY <1>6 DEF Covers1, next

\* No lower price is covered, or no higher one.
LEMMA Next0Least ==
    ASSUME NEW sp \in MinSqrt..MaxSqrt, NEW l \in Nat, l > 0, NEW paid \in Nat,
           NEW m \in MinSqrt..MaxSqrt, Covers0(sp, l, paid, m)
    PROVE  NextFromAmount0(sp, l, paid) <= m
<1> DEFINE a == l * Q96
           b == paid * sp
           den == a + b
           e == a * sp + den - 1
           c == e \div den
           next == NextFromAmount0(sp, l, paid)
<1>0. sp \in Nat /\ sp > 0 /\ Q96 \in Nat /\ Q96 > 0 /\ MinSqrt \in Nat /\ MaxSqrt \in Nat
      /\ m \in Nat /\ MinSqrt <= m /\ m <= MaxSqrt
  BY Scale
<1>1. a \in Nat /\ a > 0 /\ b \in Nat /\ den \in Nat /\ den > 0 /\ a * sp \in Nat
  BY <1>0, Products
<1>2. next = Clamped(c)
  BY DEF NextFromAmount0
<1>3. a * (sp - m) <= b * m
  BY DEF Covers0
<1> HIDE DEF next, a, b
<1>4. a * sp <= den * m
  <2>1. a * (sp - m) = a * sp - a * m /\ den * m = a * m + b * m
    BY <1>0, <1>1
  <2>2. a * m \in Nat /\ b * m \in Nat
    BY <1>0, <1>1, Products
  <2> HIDE DEF den
  <2>3. QED
    BY <1>1, <1>3, <2>1, <2>2
<1>5. e \in Nat
  BY <1>1
<1>6. c \in Nat /\ den * c <= e
  <2> HIDE DEF e, den
  <2>1. QED
    BY <1>1, <1>5, Quotients
<1> HIDE DEF c
<1>7. c <= m
  <2>1. ASSUME c >= m + 1 PROVE FALSE
    <3> HIDE DEF den
    <3>1. den * (m + 1) <= den * c
      BY <1>0, <1>1, <1>6, <2>1, TimesMore
    <3>2. den * (m + 1) = den * m + den /\ den * m \in Nat /\ den * c \in Nat
      BY <1>0, <1>1, <1>6, Products
    <3>3. QED
      BY <1>1, <1>4, <1>6, <3>1, <3>2 DEF e
  <2>2. QED
    BY <1>0, <1>6, <2>1
<1>8. QED
  BY <1>0, <1>2, <1>6, <1>7 DEF Clamped, next

LEMMA Next1Most ==
    ASSUME NEW sp \in MinSqrt..MaxSqrt, NEW l \in Nat, l > 0, NEW paid \in Nat,
           NEW m \in MinSqrt..MaxSqrt, Covers1(sp, l, paid, m)
    PROVE  m <= NextFromAmount1(sp, l, paid)
<1> DEFINE a == paid * Q96
           d == a \div l
           next == NextFromAmount1(sp, l, paid)
<1>0. sp \in Nat /\ Q96 \in Nat /\ MinSqrt \in Nat /\ MaxSqrt \in Nat /\ m \in Nat
      /\ MinSqrt <= m /\ m <= MaxSqrt /\ MinSqrt <= sp /\ sp <= MaxSqrt
  BY Scale
<1>1. a \in Nat
  BY <1>0, Products
<1>2. next = Clamped(sp + d)
  BY DEF NextFromAmount1
<1>3. l * (m - sp) <= a
  BY DEF Covers1
<1> HIDE DEF a, next
<1>4. d \in Nat
  BY <1>1, Quotients
<1>5. m <= sp + d
  <2>1. CASE m <= sp
    BY <1>0, <1>4, <2>1
  <2>2. CASE m > sp
    <3> DEFINE q == m - sp
    <3>1. q \in Nat /\ m = sp + q
      BY <1>0, <2>2
    <3>2. q * l <= a
      BY <1>3, <3>1
    <3> HIDE DEF q
    <3>3. q <= d
      BY <1>1, <3>1, <3>2, QuotientIsLess
    <3> HIDE DEF d
    <3>4. QED
      BY <1>0, <1>4, <3>1, <3>3
  <2>3. QED
    BY <1>0, <2>1, <2>2
<1> HIDE DEF d
<1>6. QED
  BY <1>0, <1>2, <1>4, <1>5 DEF Clamped, next

-----------------------------------------------------------------------------
(* More paid in is more paid out: V3 pools.                                    *)

\* What of an amount a V3 pool counts with, for the fee it charges.
Charged(p, amount) == ((FeeUnit * Pips - Pools[p].fee * Pips) * amount) \div (FeeUnit * Pips)

LEMMA PaidByV3Form ==
    ASSUME NEW p, NEW z \in BOOLEAN, NEW s, NEW amount, NEW paid, paid = Charged(p, amount)
    PROVE  /\ z => PaidByV3(p, z, s, amount) = (s[4] * (s[3] - Stop0(s[3], s[4], paid))) \div Q96
           /\ ~ z => PaidByV3(p, z, s, amount)
                       = (s[4] * Q96 * (Stop1(s[3], s[4], paid) - s[3])) \div (s[3] * Stop1(s[3], s[4], paid))
<1>1. CASE z
  <2>1. Stop0(s[3], s[4], paid) =
          CHOOSE n \in MinSqrt..MaxSqrt :
              /\ s[4] * Q96 * (s[3] - n) <= paid * s[3] * n
              /\ n = MinSqrt \/ ~ (s[4] * Q96 * (s[3] - (n - 1)) <= paid * s[3] * (n - 1))
    BY DEF Stop0, Covers0
  <2>2. QED
    BY <1>1, <2>1 DEF PaidByV3, Charged
<1>2. CASE ~ z
  <2>1. Stop1(s[3], s[4], paid) =
          CHOOSE n \in MinSqrt..MaxSqrt :
              /\ s[4] * (n - s[3]) <= paid * Q96
              /\ n = MaxSqrt \/ ~ (s[4] * ((n + 1) - s[3]) <= paid * Q96)
    BY DEF Stop1, Covers1
  <2>2. QED
    BY <1>2, <2>1 DEF PaidByV3, Charged
<1>3. QED
  BY <1>1, <1>2

\* A pool whose price moves further pays no less.
LEMMA FurtherPaysMore ==
    ASSUME NEW sp \in Nat, sp > 0, NEW l \in Nat, NEW next \in Nat, next > 0, NEW stop \in Nat, stop > 0
    PROVE  /\ stop <= next /\ next < sp =>
                 /\ (l * (sp - stop)) \div Q96 \in Nat
                 /\ (l * (sp - next)) \div Q96 <= (l * (sp - stop)) \div Q96
           /\ next <= stop /\ sp < next =>
                 /\ (l * Q96 * (stop - sp)) \div (sp * stop) \in Nat
                 /\ (l * Q96 * (next - sp)) \div (sp * next) <= (l * Q96 * (stop - sp)) \div (sp * stop)
<1>0. Q96 \in Nat /\ Q96 > 0
  BY Scale
<1>1. ASSUME stop <= next, next < sp
      PROVE  /\ (l * (sp - stop)) \div Q96 \in Nat
             /\ (l * (sp - next)) \div Q96 <= (l * (sp - stop)) \div Q96
  <2> DEFINE a == sp - next  b == sp - stop
  <2>1. a \in Nat /\ b \in Nat /\ a <= b
    BY <1>1
  <2> HIDE DEF a, b
  <2>2. l * a <= l * b /\ l * a \in Nat /\ l * b \in Nat
    BY <2>1, TimesMore, Products
  <2>3. (l * a) \div Q96 <= (l * b) \div Q96 /\ (l * b) \div Q96 \in Nat
    BY <1>0, <2>2, QuotientGrows
  <2>4. QED
    BY <2>3 DEF a, b
<1>2. ASSUME next <= stop, sp < next
      PROVE  /\ (l * Q96 * (stop - sp)) \div (sp * stop) \in Nat
             /\ (l * Q96 * (next - sp)) \div (sp * next) <= (l * Q96 * (stop - sp)) \div (sp * stop)
  <2> DEFINE m == l * Q96
             a == next - sp
             b == stop - sp
             q == (m * a) \div (sp * next)
  <2>1. m \in Nat /\ a \in Nat /\ b \in Nat /\ next = sp + a /\ stop = sp + b /\ a <= b
    BY <1>0, <1>2, Products
  <2> HIDE DEF m
  <2>2. /\ m * a \in Nat /\ m * b \in Nat /\ sp * next \in Nat /\ sp * next > 0
        /\ sp * stop \in Nat /\ sp * stop > 0
    BY <2>1, Products
  <2> HIDE DEF a, b
  <2>3. q \in Nat /\ (sp * next) * q <= m * a /\ (m * b) \div (sp * stop) \in Nat
    <3> DEFINE u == m * a  v == m * b  d == sp * next  e == sp * stop
    <3>1. u \in Nat /\ v \in Nat /\ d \in Nat /\ d > 0 /\ e \in Nat /\ e > 0
      BY <2>2
    <3>2. q = u \div d
      OBVIOUS
    <3> HIDE DEF q, u, v, d, e
    <3>3. u \div d \in Nat /\ d * (u \div d) <= u /\ v \div e \in Nat
      BY <3>1, Quotients
    <3>4. QED
      BY <3>2, <3>3 DEF u, v, d, e
  <2> HIDE DEF q
  <2> DEFINE k == q * sp
  <2>4. k \in Nat /\ (sp * next) * q = k * sp + k * a
    <3>1. k \in Nat
      BY <2>3, Products
    <3>2. (sp * next) * q = k * next
      BY <2>3
    <3>3. k * next = k * sp + k * a
      BY <2>1, <3>1
    <3>4. QED
      BY <3>1, <3>2, <3>3
  <2>5. q * (sp * stop) = k * sp + k * b
    <3>1. q * (sp * stop) = k * stop
      BY <2>3
    <3> HIDE DEF k
    <3>2. k * stop = k * sp + k * b
      BY <2>1, <2>4
    <3>3. QED
      BY <3>1, <3>2
  <2> HIDE DEF k
  <2>6. k * a \in Nat /\ k * b \in Nat /\ k * sp \in Nat
    BY <2>1, <2>4, Products
  <2>7. k * sp + k * a <= m * a
    BY <2>3, <2>4
  <2>8. k <= m
    <3>1. ASSUME k >= m + 1 PROVE FALSE
      <4>1. (m + 1) * a <= k * a
        BY <2>1, <2>4, <3>1, TimesMore
      <4>2. (m + 1) * a = m * a + a
        BY <2>1
      <4>3. a > 0
        BY <1>2, <2>1 DEF a
      <4>4. QED
        BY <2>1, <2>2, <2>6, <2>7, <4>1, <4>2, <4>3
    <3>2. QED
      BY <2>1, <2>4, <3>1
  <2>9. k * sp + k * b <= m * b
    <3> DEFINE rest == m - k
    <3>1. rest \in Nat /\ m = k + rest
      BY <2>1, <2>4, <2>8
    <3> HIDE DEF rest
    <3>2. m * a = k * a + rest * a /\ m * b = k * b + rest * b
      BY <2>1, <2>4, <3>1
    <3>3. rest * a <= rest * b /\ rest * a \in Nat /\ rest * b \in Nat
      BY <2>1, <3>1, TimesMore, Products
    <3>4. k * sp <= rest * a
      BY <2>6, <2>7, <3>2, <3>3
    <3>5. QED
      BY <2>6, <3>2, <3>3, <3>4
  <2>10. q <= (m * b) \div (sp * stop)
    BY <2>2, <2>3, <2>5, <2>9, QuotientIsLess
  <2>11. QED
    BY <2>3, <2>10 DEF q, a, b, m
<1>3. QED
  BY <1>1, <1>2

\* The price and liquidity of a V3 pool that pays, and where the code says it stops.
LEMMA SwapV3Form ==
    ASSUME NEW p, NEW t, NEW r, NEW amount \in Nat, NEW paid,
           paid = PaidIn(p, Pools[p].t0 = t, r)[amount], SwapV3(p, t, r)[amount] > 0
    PROVE  LET sp == SqrtPrice(p, r)
               l == Liquidity(p, r)
           IN  /\ sp # 0 /\ l # 0
               /\ Pools[p].t0 = t =>
                     /\ ~ (NextFromAmount0(sp, l, paid) >= sp)
                     /\ SwapV3(p, t, r)[amount] = (l * (sp - NextFromAmount0(sp, l, paid))) \div Q96
               /\ Pools[p].t0 # t =>
                     /\ ~ (NextFromAmount1(sp, l, paid) <= sp)
                     /\ SwapV3(p, t, r)[amount] = (l * Q96 * (NextFromAmount1(sp, l, paid) - sp))
                                                    \div (sp * NextFromAmount1(sp, l, paid))
<1>1. CASE Pools[p].t0 = t
  BY <1>1 DEF SwapV3
<1>2. CASE Pools[p].t0 # t
  BY <1>2 DEF SwapV3
<1>3. QED
  BY <1>1, <1>2

\* A fee below the limit is read as what it is, or as more when it is not known.
LEMMA FeeIsRead ==
    ASSUME NEW p \in DOMAIN Pools, Pools[p].fee < PipsLimit, NEW amount \in Nat
    PROVE  /\ Charged(p, amount) \in Nat
           /\ (amount * KeptV3(p)) \div (FeeUnit * Pips) \in Nat
           /\ (amount * KeptV3(p)) \div (FeeUnit * Pips) <= Charged(p, amount)
           /\ Pools[p].fee > 0 => (amount * KeptV3(p)) \div (FeeUnit * Pips) = Charged(p, amount)
<1> DEFINE fee == Pools[p].fee
           whole == FeeUnit * Pips
           pips == fee * Pips
           k == whole - pips
<1>1. fee \in Nat /\ fee < PipsLimit /\ PipsLimit \in Nat /\ PipsLimit <= FeeUnit /\ FeeUnit \in Nat
      /\ Pips \in Nat /\ Pips > 0 /\ DefaultPips \in Nat
  BY FeeAssumption, RegistryAssumption
<1>2. whole \in Nat /\ whole > 0 /\ KeptV3(p) \in 1..whole
  BY FeeFacts
<1>3. pips \in Nat /\ pips < PipsLimit * Pips /\ (fee = 0 => pips = 0) /\ (fee > 0 => pips > 0)
  <2>1. (fee + 1) * Pips <= PipsLimit * Pips
    BY <1>1, TimesMore
  <2>2. (fee + 1) * Pips = pips + Pips /\ PipsLimit * Pips \in Nat
    BY <1>1
  <2>3. pips \in Nat /\ (fee > 0 => pips > 0)
    BY <1>1, Products
  <2>4. QED
    BY <1>1, <2>1, <2>2, <2>3
<1>4. FeeInPips(p) = IF pips = 0 THEN DefaultPips ELSE pips
  <2>1. FeeInPips(p) = IF pips >= PipsLimit * Pips THEN PipsLimit * Pips - 1
                       ELSE IF pips = 0 THEN DefaultPips ELSE pips
    BY <1>1 DEF FeeInPips
  <2>2. PipsLimit * Pips \in Nat
    BY <1>1, Products
  <2> HIDE DEF pips
  <2>3. QED
    BY <1>3, <2>1, <2>2
<1>5. KeptV3(p) = whole - FeeInPips(p)
  BY DEF KeptV3
<1>6. pips <= whole
  <2>1. fee * Pips <= FeeUnit * Pips
    BY <1>1, TimesMore
  <2>2. QED
    BY <2>1
<1> HIDE DEF whole, pips
<1>7. k \in Nat /\ KeptV3(p) <= k /\ (fee > 0 => KeptV3(p) = k)
  BY <1>1, <1>2, <1>3, <1>4, <1>5, <1>6
<1>8. Charged(p, amount) = (k * amount) \div whole
  BY DEF Charged, whole, pips
<1> HIDE DEF fee, k
<1>9. KeptV3(p) \in Nat
  BY <1>2
<1>10. /\ amount * KeptV3(p) \in Nat /\ k * amount \in Nat /\ amount * KeptV3(p) <= k * amount
       /\ KeptV3(p) = k => amount * KeptV3(p) = k * amount
  <2>1. amount * KeptV3(p) <= amount * k /\ amount * k = k * amount
    BY <1>7, <1>9, TimesMore
  <2>2. QED
    BY <1>7, <1>9, <2>1, Products
<1>11. /\ (amount * KeptV3(p)) \div whole \in Nat /\ (k * amount) \div whole \in Nat
       /\ (amount * KeptV3(p)) \div whole <= (k * amount) \div whole
  BY <1>2, <1>10, QuotientGrows
<1>12. QED
  BY <1>7, <1>8, <1>10, <1>11 DEF whole, fee

\* A V3 pool pays no less than the code said.
LEMMA MoreIsPaidByV3 ==
    ASSUME NEW p \in DOMAIN Pools, Pools[p].v3, Pools[p].fee < PipsLimit, NEW t, NEW r, IsState(r),
           NEW x \in Nat, SwapV3(p, t, r)[x] > 0
    PROVE  /\ PaidByV3(p, ZeroForOne(p, t), r[p], x) \in Nat
           /\ SwapV3(p, t, r)[x] <= PaidByV3(p, ZeroForOne(p, t), r[p], x)
<1> DEFINE sp == SqrtPrice(p, r)
           l == Liquidity(p, r)
           z == Pools[p].t0 = t
           less == PaidIn(p, z, r)[x]
           paid == Charged(p, x)
<1>1. /\ sp # 0 /\ l # 0
      /\ z => /\ ~ (NextFromAmount0(sp, l, less) >= sp)
              /\ SwapV3(p, t, r)[x] = (l * (sp - NextFromAmount0(sp, l, less))) \div Q96
      /\ ~ z => /\ ~ (NextFromAmount1(sp, l, less) <= sp)
                /\ SwapV3(p, t, r)[x] = (l * Q96 * (NextFromAmount1(sp, l, less) - sp))
                                          \div (sp * NextFromAmount1(sp, l, less))
  BY SwapV3Form
<1>2. sp \in MinSqrt..MaxSqrt /\ l \in Nat /\ l > 0 /\ sp \in Nat /\ sp > 0
  <2>1. sp = 0 \/ sp \in MinSqrt..MaxSqrt
    BY PoolFacts
  <2>2. l \in Nat
    BY PoolFacts
  <2> HIDE DEF sp, l
  <2>3. QED
    BY <1>1, <2>1, <2>2, Scale
<1>3. less \in Nat
  BY <1>1, PaidInCounts
<1>5. paid \in Nat /\ less <= paid
  <2> DEFINE room == IF z THEN ((sp - MinSqrt) * l * Q96) \div (sp * MinSqrt)
                          ELSE ((MaxSqrt - sp) * l) \div Q96
             c == (x * KeptV3(p)) \div (FeeUnit * Pips)
  <2>1. less = LeastOf(c, room)
    BY DEF PaidIn
  <2> HIDE DEF room
  <2>2. c \in Nat /\ paid \in Nat /\ c <= paid
    BY FeeIsRead
  <2> HIDE DEF c, less, paid
  <2>3. less = c \/ (less = room /\ ~ (c < room))
    BY <2>1 DEF LeastOf
  <2>4. QED
    BY <1>3, <2>2, <2>3
<1>6. ZeroForOne(p, t) = z /\ z \in BOOLEAN /\ sp = r[p][3] /\ l = r[p][4]
  BY DEF ZeroForOne, SqrtPrice, Liquidity
<1>7. /\ z => PaidByV3(p, z, r[p], x) = (l * (sp - Stop0(sp, l, paid))) \div Q96
      /\ ~ z => PaidByV3(p, z, r[p], x)
                  = (l * Q96 * (Stop1(sp, l, paid) - sp)) \div (sp * Stop1(sp, l, paid))
  <2> HIDE DEF z
  <2>1. QED
    BY <1>6, PaidByV3Form
<1> HIDE DEF sp, l, z, less, paid
<1>8. CASE z
  <2> DEFINE next == NextFromAmount0(sp, l, less)  stop == Stop0(sp, l, paid)
  <2>1. next \in MinSqrt..MaxSqrt
    BY <1>2, <1>3, NextPrices
  <2>2. Covers0(sp, l, paid, next)
    BY <1>2, <1>3, <1>5, Next0Covered
  <2> HIDE DEF next
  <2>3. stop \in MinSqrt..MaxSqrt /\ stop <= next
    BY <1>2, <1>5, <2>1, <2>2, StopsLow
  <2> HIDE DEF stop
  <2>4. next \in Nat /\ next > 0 /\ stop \in Nat /\ stop > 0
    BY <2>1, <2>3, Scale
  <2>5. next < sp
    BY <1>1, <1>2, <1>8, <2>4 DEF next
  <2>6. /\ (l * (sp - stop)) \div Q96 \in Nat
        /\ (l * (sp - next)) \div Q96 <= (l * (sp - stop)) \div Q96
    BY <1>2, <2>3, <2>4, <2>5, FurtherPaysMore
  <2>7. /\ SwapV3(p, t, r)[x] = (l * (sp - next)) \div Q96
        /\ PaidByV3(p, z, r[p], x) = (l * (sp - stop)) \div Q96
    BY <1>1, <1>7, <1>8 DEF next, stop
  <2>8. QED
    BY <1>6, <2>6, <2>7
<1>9. CASE ~ z
  <2> DEFINE next == NextFromAmount1(sp, l, less)  stop == Stop1(sp, l, paid)
  <2>1. next \in MinSqrt..MaxSqrt
    BY <1>2, <1>3, NextPrices
  <2>2. Covers1(sp, l, paid, next)
    BY <1>2, <1>3, <1>5, Next1Covered
  <2> HIDE DEF next
  <2>3. stop \in MinSqrt..MaxSqrt /\ next <= stop
    BY <1>2, <1>5, <2>1, <2>2, StopsHigh
  <2> HIDE DEF stop
  <2>4. next \in Nat /\ next > 0 /\ stop \in Nat /\ stop > 0
    BY <2>1, <2>3, Scale
  <2>5. sp < next
    BY <1>1, <1>2, <1>9, <2>4 DEF next
  <2>6. /\ (l * Q96 * (stop - sp)) \div (sp * stop) \in Nat
        /\ (l * Q96 * (next - sp)) \div (sp * next) <= (l * Q96 * (stop - sp)) \div (sp * stop)
    BY <1>2, <2>3, <2>4, <2>5, FurtherPaysMore
  <2>7. /\ SwapV3(p, t, r)[x] = (l * Q96 * (next - sp)) \div (sp * next)
        /\ PaidByV3(p, z, r[p], x) = (l * Q96 * (stop - sp)) \div (sp * stop)
    BY <1>1, <1>7, <1>9 DEF next, stop
  <2>8. QED
    BY <1>6, <2>6, <2>7
<1>10. QED
  BY <1>8, <1>9

\* What of an amount the code counts with is all that the pool counts with, unless the
\* price moves to the end of the scale.
LEMMA AllIsPaidIn ==
    ASSUME NEW p \in DOMAIN Pools, Pools[p].v3, Pools[p].fee \in 1..PipsLimit - 1, NEW r, IsState(r),
           NEW x \in Nat, NEW z \in BOOLEAN, NEW sp, NEW l, NEW paid,
           sp = SqrtPrice(p, r), l = Liquidity(p, r), sp # 0,
           paid = Charged(p, x),
           z => ~ Covers0(sp, l, paid, MinSqrt), ~ z => ~ Covers1(sp, l, paid, MaxSqrt)
    PROVE  paid \in Nat /\ PaidIn(p, z, r)[x] = paid
<1> DEFINE room == IF z THEN ((sp - MinSqrt) * l * Q96) \div (sp * MinSqrt)
                        ELSE ((MaxSqrt - sp) * l) \div Q96
           c == (x * KeptV3(p)) \div (FeeUnit * Pips)
<1>1. Pools[p].fee > 0 /\ Pools[p].fee < PipsLimit
  BY FeeAssumption
<1>2. paid \in Nat /\ c = paid
  BY <1>1, FeeIsRead
<1>3. PaidIn(p, z, r)[x] = LeastOf(c, room)
  BY DEF PaidIn
<1> HIDE DEF c
<1>5. sp \in MinSqrt..MaxSqrt /\ l \in Nat /\ sp \in Nat /\ sp > 0
      /\ MinSqrt \in Nat /\ MinSqrt > 0 /\ MaxSqrt \in Nat /\ Q96 \in Nat /\ Q96 > 0
      /\ MinSqrt <= sp /\ sp <= MaxSqrt
  BY PoolFacts, Scale
<1>6. room \in Nat /\ paid <= room
  <2>1. CASE z
    <3> DEFINE a == (sp - MinSqrt) * l * Q96
               b == sp * MinSqrt
               q == a \div b
    <3>1. a \in Nat /\ b \in Nat /\ b > 0
      <4>1. sp - MinSqrt \in Nat
        BY <1>5
      <4>2. (sp - MinSqrt) * l \in Nat
        BY <1>5, <4>1, Products
      <4>3. QED
        BY <1>5, <4>2, Products
    <3>2. room = q
      BY <2>1
    <3>3. ~ (a <= paid * b)
      <4>1. ~ (l * Q96 * (sp - MinSqrt) <= paid * sp * MinSqrt)
        BY <2>1 DEF Covers0
      <4>2. l * Q96 * (sp - MinSqrt) = a /\ paid * sp * MinSqrt = paid * b
        BY <1>2, <1>5
      <4>3. QED
        BY <4>1, <4>2
    <3> HIDE DEF a, b, room
    <3>4. q \in Nat /\ a < b * q + b
      BY <3>1, Quotients
    <3> HIDE DEF q
    <3>5. paid <= q
      <4>1. ASSUME q + 1 <= paid PROVE FALSE
        <5>1. b * (q + 1) <= b * paid
          BY <1>2, <3>1, <3>4, <4>1, TimesMore
        <5>2. b * (q + 1) = b * q + b /\ b * paid = paid * b /\ b * q \in Nat /\ paid * b \in Nat
          BY <1>2, <3>1, <3>4, Products
        <5>3. QED
          BY <3>1, <3>3, <3>4, <5>1, <5>2
      <4>2. QED
        BY <1>2, <3>4, <4>1
    <3>6. QED
      BY <3>2, <3>4, <3>5
  <2>2. CASE ~ z
    <3> DEFINE a == (MaxSqrt - sp) * l
               b == Q96
               q == a \div b
    <3>1. a \in Nat /\ b \in Nat /\ b > 0
      <4>1. MaxSqrt - sp \in Nat
        BY <1>5
      <4>2. QED
        BY <1>5, <4>1, Products
    <3>2. room = q
      BY <2>2
    <3>3. ~ (a <= paid * b)
      <4>1. ~ (l * (MaxSqrt - sp) <= paid * Q96)
        BY <2>2 DEF Covers1
      <4>2. l * (MaxSqrt - sp) = a
        BY <1>5
      <4>3. QED
        BY <4>1, <4>2
    <3> HIDE DEF a, b, room
    <3>4. q \in Nat /\ a < b * q + b
      BY <3>1, Quotients
    <3> HIDE DEF q
    <3>5. paid <= q
      <4>1. ASSUME q + 1 <= paid PROVE FALSE
        <5>1. b * (q + 1) <= b * paid
          BY <1>2, <3>1, <3>4, <4>1, TimesMore
        <5>2. b * (q + 1) = b * q + b /\ b * paid = paid * b /\ b * q \in Nat /\ paid * b \in Nat
          BY <1>2, <3>1, <3>4, Products
        <5>3. QED
          BY <3>1, <3>3, <3>4, <5>1, <5>2
      <4>2. QED
        BY <1>2, <3>4, <4>1
    <3>6. QED
      BY <3>2, <3>4, <3>5
  <2>3. QED
    BY <2>1, <2>2
<1> HIDE DEF room
<1>7. PaidIn(p, z, r)[x] = LeastOf(paid, room)
  BY <1>2, <1>3
<1>8. QED
  BY <1>2, <1>6, <1>7 DEF LeastOf

\* A pool whose price stays off the ends of the scale pays what the code said.
LEMMA SameIsPaidByV3 ==
    ASSUME NEW p \in DOMAIN Pools, Pools[p].v3, Pools[p].fee \in 1..PipsLimit - 1, NEW t, NEW r, IsState(r),
           NEW x \in Nat, SwapV3(p, t, r)[x] > 0, NEW paid, paid = Charged(p, x),
           ZeroForOne(p, t) => ~ Covers0(r[p][3], r[p][4], paid, MinSqrt),
           ~ ZeroForOne(p, t) => ~ Covers1(r[p][3], r[p][4], paid, MaxSqrt)
    PROVE  PaidByV3(p, ZeroForOne(p, t), r[p], x) = SwapV3(p, t, r)[x]
<1> DEFINE sp == SqrtPrice(p, r)
           l == Liquidity(p, r)
           z == Pools[p].t0 = t
           less == PaidIn(p, z, r)[x]
<1>1. ZeroForOne(p, t) = z /\ z \in BOOLEAN /\ sp = r[p][3] /\ l = r[p][4]
  BY DEF ZeroForOne, SqrtPrice, Liquidity
<1>2. /\ sp # 0 /\ l # 0
      /\ z => /\ ~ (NextFromAmount0(sp, l, less) >= sp)
              /\ SwapV3(p, t, r)[x] = (l * (sp - NextFromAmount0(sp, l, less))) \div Q96
      /\ ~ z => /\ ~ (NextFromAmount1(sp, l, less) <= sp)
                /\ SwapV3(p, t, r)[x] = (l * Q96 * (NextFromAmount1(sp, l, less) - sp))
                                          \div (sp * NextFromAmount1(sp, l, less))
  BY SwapV3Form
<1>3. paid \in Nat /\ less = paid
  <2>1. (z => ~ Covers0(sp, l, paid, MinSqrt)) /\ (~ z => ~ Covers1(sp, l, paid, MaxSqrt))
    BY <1>1
  <2>2. sp = SqrtPrice(p, r) /\ l = Liquidity(p, r)
    OBVIOUS
  <2> HIDE DEF z, sp, l
  <2>3. QED
    BY <1>1, <1>2, <2>1, <2>2, AllIsPaidIn
<1>4. sp \in MinSqrt..MaxSqrt /\ l \in Nat /\ l > 0 /\ sp \in Nat
  <2>1. (sp = 0 \/ sp \in MinSqrt..MaxSqrt) /\ l \in Nat
    BY PoolFacts
  <2>2. QED
    BY <1>2, <2>1, Scale
<1>5. /\ z => PaidByV3(p, z, r[p], x) = (l * (sp - Stop0(sp, l, paid))) \div Q96
      /\ ~ z => PaidByV3(p, z, r[p], x)
                  = (l * Q96 * (Stop1(sp, l, paid) - sp)) \div (sp * Stop1(sp, l, paid))
  <2> HIDE DEF z
  <2>1. QED
    BY <1>1, PaidByV3Form
<1> HIDE DEF sp, l, z, less
<1>6. CASE z
  <2> DEFINE next == NextFromAmount0(sp, l, paid)  stop == Stop0(sp, l, paid)
  <2>1. next \in MinSqrt..MaxSqrt
    BY <1>3, <1>4, NextPrices
  <2>2. Covers0(sp, l, paid, next)
    BY <1>3, <1>4, Next0Covered
  <2> HIDE DEF next
  <2>3. stop \in MinSqrt..MaxSqrt /\ stop <= next /\ Covers0(sp, l, paid, stop)
    BY <1>3, <1>4, <2>1, <2>2, StopsLow
  <2> HIDE DEF stop
  <2>4. next <= stop
    BY <1>3, <1>4, <2>3, Next0Least DEF next
  <2>5. next = stop
    BY <2>1, <2>3, <2>4, Scale
  <2>6. QED
    BY <1>1, <1>2, <1>3, <1>5, <1>6, <2>5 DEF next, stop
<1>7. CASE ~ z
  <2> DEFINE next == NextFromAmount1(sp, l, paid)  stop == Stop1(sp, l, paid)
  <2>1. next \in MinSqrt..MaxSqrt
    BY <1>3, <1>4, NextPrices
  <2>2. Covers1(sp, l, paid, next)
    BY <1>3, <1>4, Next1Covered
  <2> HIDE DEF next
  <2>3. stop \in MinSqrt..MaxSqrt /\ next <= stop /\ Covers1(sp, l, paid, stop)
    BY <1>3, <1>4, <2>1, <2>2, StopsHigh
  <2> HIDE DEF stop
  <2>4. stop <= next
    BY <1>3, <1>4, <2>3, Next1Most DEF next
  <2>5. next = stop
    BY <2>1, <2>3, <2>4, Scale
  <2>6. QED
    BY <1>1, <1>2, <1>3, <1>5, <1>7, <2>5 DEF next, stop
<1>8. QED
  BY <1>6, <1>7

-----------------------------------------------------------------------------
(* Candidates.                                                                *)

\* No fee of a V3 pool is so high that it is taken for pips.
FeesMatch == \A p \in DOMAIN Pools : Pools[p].v3 => Pools[p].fee < PipsLimit

\* The fee of V3 pool p is read as what it is, and an amount leaves its price off the ends
\* of the scale.
Inside(p, zeroForOne, s, amount) ==
    /\ Pools[p].fee \in 1..PipsLimit - 1
    /\ IF zeroForOne THEN ~ Covers0(s[3], s[4], Charged(p, amount), MinSqrt)
                     ELSE ~ Covers1(s[3], s[4], Charged(p, amount), MaxSqrt)

\* Where a V3 hop stays inside, the solver computed what the pool pays.
V3IsExact(cand) ==
    \A i \in DOMAIN cand.pools :
        Pools[cand.pools[i]].v3 /\ Inside(cand.pools[i], cand.zeroForOnes[i], cand.read[i], Entering(cand, i))
        => PaidBy(cand.pools[i], cand.zeroForOnes[i], cand.read[i], Entering(cand, i)) = cand.outs[i]

LEMMA MinimumIsPaid ==
    ASSUME NEW p \in DOMAIN Pools, NEW t, NEW r, IsState(r), FeesMatch, NEW x \in Nat,
           ComputeSwap(p, t, r)[x] > 0
    PROVE  PaidBy(p, ZeroForOne(p, t), r[p], x) >= Buffered(ComputeSwap(p, t, r)[x])
<1>1. CASE Pools[p].v3
  <2>1. Pools[p].fee < PipsLimit
    BY <1>1 DEF FeesMatch
  <2>2. ComputeSwap(p, t, r)[x] = SwapV3(p, t, r)[x] /\ SwapV3(p, t, r)[x] \in Nat
    BY <1>1, SwapPays DEF ComputeSwap
  <2>3. PaidBy(p, ZeroForOne(p, t), r[p], x) = PaidByV3(p, ZeroForOne(p, t), r[p], x)
    BY <1>1 DEF PaidBy
  <2>4. /\ PaidByV3(p, ZeroForOne(p, t), r[p], x) \in Nat
        /\ SwapV3(p, t, r)[x] <= PaidByV3(p, ZeroForOne(p, t), r[p], x)
    BY <1>1, <2>1, <2>2, MoreIsPaidByV3
  <2> DEFINE a == SwapV3(p, t, r)[x]
  <2>5. Buffered(a) \in Nat /\ Buffered(a) <= a
    BY <2>2, BufferIsLess
  <2>6. QED
    BY <2>2, <2>3, <2>4, <2>5
<1>2. CASE ~ Pools[p].v3
  <2>1. ComputeSwap(p, t, r)[x] = SwapV2(p, t, r)[x]
    BY <1>2 DEF ComputeSwap
  <2>2. PaidBy(p, ZeroForOne(p, t), r[p], x) = PaidByV2(p, ZeroForOne(p, t), r[p], x)
    BY <1>2 DEF PaidBy
  <2>3. Buffered(SwapV2(p, t, r)[x]) <= PaidByV2(p, ZeroForOne(p, t), r[p], x)
    BY <1>2, <2>1, MinimumIsPaidByV2
  <2>4. QED
    BY <2>1, <2>2, <2>3
<1>3. QED
  BY <1>1, <1>2

LEMMA ExactIsPaid ==
    ASSUME NEW p \in DOMAIN Pools, Pools[p].v3, NEW t, NEW r, IsState(r), NEW x \in Nat,
           ComputeSwap(p, t, r)[x] > 0, Inside(p, ZeroForOne(p, t), r[p], x)
    PROVE  PaidBy(p, ZeroForOne(p, t), r[p], x) = ComputeSwap(p, t, r)[x]
<1> DEFINE paid == Charged(p, x)
<1>1. Pools[p].fee \in 1..PipsLimit - 1 /\ SwapV3(p, t, r)[x] > 0
  BY DEF Inside, ComputeSwap
<1>2. /\ ZeroForOne(p, t) => ~ Covers0(r[p][3], r[p][4], paid, MinSqrt)
      /\ ~ ZeroForOne(p, t) => ~ Covers1(r[p][3], r[p][4], paid, MaxSqrt)
  BY DEF Inside
<1>3. paid = Charged(p, x)
  OBVIOUS
<1> HIDE DEF paid
<1>4. PaidByV3(p, ZeroForOne(p, t), r[p], x) = SwapV3(p, t, r)[x]
  BY <1>1, <1>2, <1>3, SameIsPaidByV3
<1>5. QED
  BY <1>4 DEF PaidBy, ComputeSwap

LEMMA NothingForNothing ==
    ASSUME NEW p, NEW t, NEW r
    PROVE  ComputeSwap(p, t, r)[0] = 0
  BY DEF ComputeSwap, SwapV2, SwapV3

\* A candidate that promises a profit is a round trip that clears its minimum outputs.
LEMMA CandidateHoldsUp ==
    ASSUME NEW path \in Trips, NEW route \in Routes(path), NEW amount \in Nat, NEW r, IsState(r),
           NEW cand, cand = Candidate(path, route, amount, r), cand.net > 0
    PROVE  (FeesMatch => HoldsUp(cand)) /\ V3IsExact(cand)
<1> DEFINE n == Len(path)
           outs == Outs(path, route, amount, r)
           next(i) == (i % n) + 1
<1>1. n \in {2, 3} /\ 1 \in 1..n /\ 2 \in 1..n /\ 2 \in 2..n /\ 2 - 1 = 1 /\ 3 - 1 = 2 /\ n \in 1..n
      /\ (n = 3 => 3 \in 1..n /\ 3 \in 2..n)
      /\ (\A i \in 1..n : i = 1 \/ i \in 2..n)
      /\ \A i \in 2..n : i - 1 \in 1..n
  <2>1. n \in {2, 3}
    BY TripFacts
  <2> HIDE DEF n
  <2>2. QED
    BY <2>1
<1>2. outs \in [1..n -> Nat]
  BY OutsCount
<1>3. /\ cand.pools = route /\ cand.amountIn = amount /\ cand.net = outs[n] - amount /\ cand.outs = outs
      /\ \A i \in 1..n : /\ cand.zeroForOnes[i] = ZeroForOne(route[i], path[i])
                         /\ cand.minOuts[i] = Buffered(outs[i])
                         /\ cand.read[i] = r[route[i]]
  <2>0. outs = Outs(path, route, amount, r) /\ n = Len(path)
    OBVIOUS
  <2> HIDE DEF n, outs
  <2>1. /\ cand.pools = route
        /\ cand.zeroForOnes = [i \in 1..n |-> ZeroForOne(route[i], path[i])]
        /\ cand.amountIn = amount
        /\ cand.outs = outs
        /\ cand.minOuts = [i \in 1..n |-> Buffered(outs[i])]
        /\ cand.net = outs[n] - amount
        /\ cand.read = [i \in 1..n |-> r[route[i]]]
    BY <2>0 DEF Candidate, Hops
  <2>2. QED
    BY <2>1
<1>4. /\ Len(route) = n /\ IsInjective(route) /\ DOMAIN route = 1..n
      /\ \A i \in 1..n : route[i] \in DOMAIN Pools /\ Ends(route[i]) = Leg(path, i)
  BY DEF Routes
<1>5. /\ outs[1] = ComputeSwap(route[1], path[1], r)[amount]
      /\ \A i \in 2..n : outs[i] = ComputeSwap(route[i], path[i], r)[outs[i - 1]]
  BY <1>1, OutsSteps
<1>6. \A i \in 1..n : Leg(path, i) = {path[i], path[next(i)]}
  BY DEF Leg
<1>7. \A i, j \in 1..n : path[i] = path[j] => i = j
  BY TripFacts
<1>8. path[1] \in Anchors
  BY TripFacts
<1>9. \A i \in 1..n : next(i) \in 1..n /\ next(i) # i
  BY <1>1
<1> HIDE DEF n, outs, next
<1>10. outs[1] \in Nat /\ outs[2] \in Nat /\ (n = 3 => outs[3] \in Nat)
  BY <1>1, <1>2
<1>11. \A i \in 1..n : outs[i] > 0
  <2>1. outs[n] > 0
    BY <1>1, <1>3, <1>10
  <2>2. outs[2] > 0 => outs[1] > 0
    BY <1>1, <1>5, <1>10, NothingForNothing
  <2>3. n = 3 => (outs[3] > 0 => outs[2] > 0)
    BY <1>1, <1>5, <1>10, NothingForNothing
  <2>4. \A i \in 1..n : i = 1 \/ i = 2 \/ (i = 3 /\ n = 3)
    BY <1>1
  <2>5. QED
    BY <1>1, <2>1, <2>2, <2>3, <2>4
<1>12. ASSUME NEW i \in 1..n
       PROVE  /\ Entering(cand, i) \in Nat
              /\ outs[i] = ComputeSwap(route[i], path[i], r)[Entering(cand, i)]
  <2>1. CASE i = 1
    BY <1>3, <1>5, <2>1 DEF Entering
  <2>2. CASE i \in 2..n
    <3>1. i - 1 \in 1..n /\ i # 1
      BY <1>1, <2>2
    <3>2. Entering(cand, i) = outs[i - 1]
      BY <1>3, <3>1 DEF Entering
    <3>3. QED
      BY <1>2, <1>5, <2>2, <3>1, <3>2
  <2>3. QED
    BY <1>1, <2>1, <2>2
<1>13. ASSUME NEW i \in 1..n PROVE Sells(cand, i) = path[i] /\ Buys(cand, i) = path[next(i)]
  <2> DEFINE p == route[i]
  <2>1. {Pools[p].t0, Pools[p].t1} = {path[i], path[next(i)]} /\ path[i] # path[next(i)]
    BY <1>4, <1>6, <1>7, <1>9 DEF Ends
  <2>2. cand.pools[i] = p /\ (cand.zeroForOnes[i] <=> Pools[p].t0 = path[i])
    BY <1>3 DEF ZeroForOne
  <2> HIDE DEF p
  <2>3. CASE Pools[p].t0 = path[i]
    BY <2>1, <2>2, <2>3 DEF Sells, Buys
  <2>4. CASE Pools[p].t0 # path[i]
    BY <2>1, <2>2, <2>4 DEF Sells, Buys
  <2>5. QED
    BY <2>3, <2>4
<1>14. ASSUME FeesMatch, NEW i \in 1..n
       PROVE  PaidBy(cand.pools[i], cand.zeroForOnes[i], cand.read[i], Entering(cand, i)) >= cand.minOuts[i]
  <2> DEFINE x == Entering(cand, i)  p == route[i]  t == path[i]
  <2>1. x \in Nat /\ outs[i] = ComputeSwap(p, t, r)[x] /\ outs[i] > 0
    BY <1>11, <1>12
  <2>2. /\ cand.pools[i] = p /\ cand.zeroForOnes[i] = ZeroForOne(p, t) /\ cand.read[i] = r[p]
        /\ cand.minOuts[i] = Buffered(outs[i]) /\ p \in DOMAIN Pools
    BY <1>3, <1>4
  <2> HIDE DEF x, p, t
  <2>3. PaidBy(p, ZeroForOne(p, t), r[p], x) >= Buffered(ComputeSwap(p, t, r)[x])
    BY <1>14, <2>1, <2>2, MinimumIsPaid
  <2>4. PaidBy(cand.pools[i], cand.zeroForOnes[i], cand.read[i], x) >= cand.minOuts[i]
    BY <2>1, <2>2, <2>3
  <2>5. QED
    BY <2>4 DEF x
<1>15. V3IsExact(cand)
  <2>1. SUFFICES ASSUME NEW i \in 1..n, Pools[cand.pools[i]].v3,
                        Inside(cand.pools[i], cand.zeroForOnes[i], cand.read[i], Entering(cand, i))
                 PROVE  PaidBy(cand.pools[i], cand.zeroForOnes[i], cand.read[i], Entering(cand, i)) = cand.outs[i]
    BY <1>3, <1>4 DEF V3IsExact
  <2> DEFINE x == Entering(cand, i)  p == route[i]  t == path[i]
  <2>2. x \in Nat /\ outs[i] = ComputeSwap(p, t, r)[x] /\ outs[i] > 0
    BY <1>11, <1>12
  <2>3. /\ cand.pools[i] = p /\ cand.zeroForOnes[i] = ZeroForOne(p, t) /\ cand.read[i] = r[p]
        /\ cand.outs[i] = outs[i] /\ p \in DOMAIN Pools
    BY <1>3, <1>4
  <2>4. Inside(cand.pools[i], cand.zeroForOnes[i], cand.read[i], x) /\ Pools[cand.pools[i]].v3
    BY <2>1
  <2> HIDE DEF x, p, t
  <2>5. PaidBy(p, ZeroForOne(p, t), r[p], x) = ComputeSwap(p, t, r)[x]
    BY <2>2, <2>3, <2>4, ExactIsPaid
  <2>6. PaidBy(cand.pools[i], cand.zeroForOnes[i], cand.read[i], x) = cand.outs[i]
    BY <2>2, <2>3, <2>5
  <2>7. QED
    BY <2>6 DEF x
<1>16. ASSUME FeesMatch PROVE HoldsUp(cand)
  <2>1. DOMAIN cand.pools = 1..n /\ Len(cand.pools) = n /\ IsInjective(cand.pools)
    BY <1>3, <1>4
  <2>2. Sells(cand, 1) \in Anchors
    BY <1>1, <1>8, <1>13
  <2>3. \A i \in 1..n : Buys(cand, i) = Sells(cand, (i % n) + 1)
    BY <1>9, <1>13 DEF next
  <2>4. QED
    BY <1>14, <1>16, <2>1, <2>2, <2>3 DEF HoldsUp
<1>17. QED
  BY <1>15, <1>16

-----------------------------------------------------------------------------
(* What a worker makes of it.                                                  *)

\* Candidates that hold up, and those a worker sends.
Offers == {cand \in Candidates : (FeesMatch => HoldsUp(cand)) /\ V3IsExact(cand)}

Sold == {cand \in Offers : cand.net > MinProfit}

LEMMA WorthwhileAreOffers ==
    ASSUME NEW path \in Trips, NEW route \in Routes(path), NEW amounts \in Seq(Nat), NEW r, IsState(r)
    PROVE  /\ IsFiniteSet(Worthwhile(path, route, amounts, r))
           /\ \A o \in Worthwhile(path, route, amounts, r) : o.cand \in Offers
<1> DEFINE D == {j \in DOMAIN amounts : amounts[j] > 0}
           offer == [i \in D |-> [at |-> i, cand |-> Candidate(path, route, amounts[i], r)]]
           S == {[at |-> i, cand |-> Candidate(path, route, amounts[i], r)] : i \in D}
           W == Worthwhile(path, route, amounts, r)
<1>1. DOMAIN amounts = 1..Len(amounts) /\ Len(amounts) \in Nat /\ \A i \in DOMAIN amounts : amounts[i] \in Nat
  OBVIOUS
<1>2. W = {o \in S : o.cand.net > 0 /\ o.cand.net >= MinProfit}
  BY DEF Worthwhile
<1> HIDE DEF W
<1>3. IsFiniteSet(W)
  <2>1. IsFiniteSet(D)
    <3>1. IsFiniteSet(1..Len(amounts)) /\ D \subseteq 1..Len(amounts)
      BY <1>1, FS_Interval
    <3> HIDE DEF D
    <3>2. QED
      BY <3>1, FS_Subset
  <2>2. offer \in Surjection(D, S)
    <3>1. offer \in [D -> S] /\ \A t \in S : \E i \in D : offer[i] = t
      <4> HIDE DEF D
      <4>1. QED
        OBVIOUS
    <3> HIDE DEF D, S, offer
    <3>2. QED
      BY <3>1 DEF Surjection
  <2> HIDE DEF S, offer, D
  <2>3. IsFiniteSet(S)
    BY <2>1, <2>2, FS_Surjection
  <2>4. W \subseteq S
    BY <1>2
  <2>5. QED
    BY <2>3, <2>4, FS_Subset
<1>4. ASSUME NEW o \in W PROVE o.cand \in Offers
  <2>1. PICK i \in D : o = [at |-> i, cand |-> Candidate(path, route, amounts[i], r)]
    BY <1>2
  <2> DEFINE cand == o.cand  amount == amounts[i]
  <2>2. cand = Candidate(path, route, amount, r) /\ cand.net > 0 /\ amount \in Nat
    BY <1>1, <1>2, <2>1
  <2> HIDE DEF cand, amount
  <2>3. cand \in Candidates
    BY <2>2, CandidateTyped
  <2>4. (FeesMatch => HoldsUp(cand)) /\ V3IsExact(cand)
    BY <2>2, CandidateHoldsUp
  <2>5. QED
    BY <2>3, <2>4 DEF Offers, cand
<1>5. QED
  BY <1>3, <1>4 DEF W

LEMMA SetToSeqTyped ==
    ASSUME NEW T, NEW S, S \subseteq T, IsFiniteSet(S)
    PROVE  SetToSeq(S) \in Seq(T) /\ (S # {} => SetToSeq(S) # <<>>)
<1> DEFINE n == Cardinality(S)
           s == SetToSeq(S)
<1>1. n \in Nat
  BY FS_CardinalityType
<1>2. \E f \in [1..n -> S] : IsInjective(f)
  <2>1. PICK m \in Nat : ExistsBijection(1..m, S)
    BY FS_NatBijection
  <2>2. n = m
    BY <2>1, FS_CountingElements
  <2>3. PICK f \in Bijection(1..n, S) : TRUE
    BY <2>1, <2>2 DEF ExistsBijection
  <2>4. f \in [1..n -> S] /\ IsInjective(f)
    <3> HIDE DEF n
    <3>1. QED
      BY <2>3 DEF Bijection, Injection
  <2>5. QED
    BY <2>4
<1>3. s \in [1..n -> S]
  <2>1. s = CHOOSE f \in [1..n -> S] : IsInjective(f)
    BY DEF SetToSeq
  <2> HIDE DEF s, n
  <2>2. QED
    BY <1>2, <2>1
<1> HIDE DEF s
<1>4. s \in [1..n -> T]
  BY <1>3
<1>5. s \in Seq(T)
  <2> HIDE DEF n
  <2>1. QED
    BY <1>1, <1>4, SeqDef
<1>6. S # {} => s # <<>>
  <2>1. S # {} => n # 0
    BY FS_EmptySet
  <2>2. n # 0 => 1 \in DOMAIN s
    <3> HIDE DEF n
    <3>1. QED
      BY <1>1, <1>3
  <2>3. QED
    BY <2>1, <2>2
<1>7. QED
  BY <1>5, <1>6 DEF s

\* What a worker makes of the best it had and what it found.
LEMMA BestAreOffers ==
    ASSUME NEW path \in Trips, NEW route \in Routes(path), NEW amounts \in Seq(Nat), NEW r, IsState(r),
           NEW old \in Seq(Offers), NEW better,
           \A cand \in better : \E o \in Worthwhile(path, route, amounts, r) : cand = o.cand
    PROVE  (IF better = {} THEN old ELSE SetToSeq(better)) \in Seq(Offers)
<1> DEFINE W == Worthwhile(path, route, amounts, r)
           S == {o.cand : o \in W}
           f == [o \in W |-> o.cand]
<1>1. IsFiniteSet(W) /\ \A o \in W : o.cand \in Offers
  BY WorthwhileAreOffers
<1>2. \A cand \in better : \E o \in W : cand = o.cand
  OBVIOUS
<1> HIDE DEF W
<1>3. IsFiniteSet(S)
  <2>1. f \in Surjection(W, S)
    <3>1. f \in [W -> S] /\ \A t \in S : \E o \in W : f[o] = t
      OBVIOUS
    <3> HIDE DEF f, S
    <3>2. QED
      BY <3>1 DEF Surjection
  <2> HIDE DEF f, S
  <2>2. QED
    BY <1>1, <2>1, FS_Surjection
<1>4. better \subseteq S /\ better \subseteq Offers
  BY <1>1, <1>2
<1>5. IsFiniteSet(better)
  <2> HIDE DEF S
  <2>1. QED
    BY <1>3, <1>4, FS_Subset
<1>6. SetToSeq(better) \in Seq(Offers)
  BY <1>4, <1>5, SetToSeqTyped
<1>7. QED
  BY <1>6

-----------------------------------------------------------------------------
(* The invariant of what is carried.                                           *)

TripTasks == [by : Callers, path : Trips]

\* A worker at its task: its routes fit the trip, what it sends is worth it.
WorkersAtTrips ==
    {x \in [pc : {"size", "try", "send"}, task : TripTasks, routes : Seq(Seq(DOMAIN Pools)),
            amounts : Seq(Nat), best : Seq(Offers)] :
        /\ x.routes \in Seq(Routes(x.task.path))
        /\ x.pc # "send" => x.routes # <<>>
        /\ x.pc = "send" => x.best # <<>> /\ Head(x.best) \in Sold}

\* A call: what it was sent, has received and answers.
CallsOfTrips ==
    {x \in CallRecords(Trips, Sold, SUBSET Sold) : \A cand \in x.answer : cand.net >= MinProfit + Costs}

OfferInv ==
    /\ caller \in [Callers -> CallsOfTrips]
    /\ taskCh \in Seq(TripTasks)
    /\ wk \in [Workers -> WorkersAtTrips \cup {Idle}]
    /\ IsState(res)
    /\ calls \in 0..MaxCalls
    /\ moves \in 0..MaxMoves

\* The tokens of a pair with pools make round trips.
LEMMA PathsAreTrips ==
    ASSUME NEW a, NEW b, PairOf(a, b) # <<>>
    PROVE  Paths(a, b) \in Seq(Trips)
<1>1. a # b /\ a \in Tokens /\ b \in Tokens /\ Anchors \subseteq Tokens
  BY PoolsOfPair DEF Tokens
<1>2. ASSUME NEW x \in Anchors, NEW y \in Tokens, x # y PROVE <<x, y>> \in Trips
  <2> DEFINE s == <<x, y>>
  <2>1. s \in Seq(Tokens) /\ Len(s) = 2 /\ DOMAIN s = 1..2 /\ s[1] = x /\ s[2] = y
    BY <1>1
  <2> HIDE DEF s
  <2>2. \A i, j \in 1..2 : s[i] = s[j] => i = j
    BY <1>2, <2>1
  <2>3. QED
    BY <1>2, <2>1, <2>2 DEF Trips, IsInjective, s
<1>3. ASSUME NEW x \in Anchors, NEW y \in Tokens, NEW z \in Tokens, x # y, y # z, x # z
      PROVE  <<x, y, z>> \in Trips
  <2> DEFINE s == <<x, y, z>>
  <2>1. s \in Seq(Tokens) /\ Len(s) = 3 /\ DOMAIN s = 1..3 /\ s[1] = x /\ s[2] = y /\ s[3] = z
    BY <1>1
  <2> HIDE DEF s
  <2>2. \A i, j \in 1..3 : s[i] = s[j] => i = j
    BY <1>3, <2>1
  <2>3. QED
    BY <1>3, <2>1, <2>2 DEF Trips, IsInjective, s
<1>4. CASE {a, b} \subseteq Anchors
  <2>1. Paths(a, b) = <<>>
    BY <1>4 DEF Paths
  <2>2. QED
    BY <2>1
<1>5. CASE ~ ({a, b} \subseteq Anchors) /\ (a \in Anchors \/ b \in Anchors)
  <2>1. \/ Paths(a, b) = << <<a, b>> >> /\ a \in Anchors
        \/ Paths(a, b) = << <<b, a>> >> /\ b \in Anchors
    BY <1>5 DEF Paths
  <2>2. (a \in Anchors => <<a, b>> \in Trips) /\ (b \in Anchors => <<b, a>> \in Trips)
    BY <1>1, <1>2
  <2> DEFINE u == <<a, b>>  v == <<b, a>>
  <2> HIDE DEF u, v
  <2>3. (a \in Anchors => <<u>> \in Seq(Trips)) /\ (b \in Anchors => <<v>> \in Seq(Trips))
    BY <2>2 DEF u, v
  <2>4. QED
    BY <2>1, <2>3 DEF u, v
<1>6. CASE a \notin Anchors /\ b \notin Anchors
  <2> DEFINE n == 2 * Len(AnchorAssets)
             path(i) == LET anchor == AnchorAssets[(i + 1) \div 2]
                        IN IF i % 2 = 1 THEN <<anchor, a, b>> ELSE <<anchor, b, a>>
  <2>1. Paths(a, b) = [i \in 1..n |-> path(i)]
    BY <1>6 DEF Paths
  <2>2. n \in Nat
    BY Constants
  <2>3. ASSUME NEW i \in 1..n PROVE path(i) \in Trips
    <3> DEFINE anchor == AnchorAssets[(i + 1) \div 2]
    <3>1. (i + 1) \div 2 \in 1..Len(AnchorAssets)
      BY Constants
    <3>2. anchor \in Anchors
      <4>1. DOMAIN AnchorAssets = 1..Len(AnchorAssets)
        BY EvaluationAssumption
      <4>2. QED
        BY <3>1, <4>1 DEF Anchors, ToSet
    <3> HIDE DEF anchor
    <3>3. anchor \in Tokens /\ anchor # a /\ anchor # b
      BY <1>1, <1>6, <3>2
    <3>4. <<anchor, a, b>> \in Trips /\ <<anchor, b, a>> \in Trips
      BY <1>1, <1>3, <3>2, <3>3
    <3>5. QED
      BY <3>4 DEF anchor
  <2> HIDE DEF n, path
  <2>4. Paths(a, b) \in [1..n -> Trips]
    BY <2>1, <2>3
  <2>5. QED
    BY <2>2, <2>4, SeqDef
<1>7. QED
  BY <1>4, <1>5, <1>6

-----------------------------------------------------------------------------
(* The steps keep what is carried.                                             *)

\* A step of one call.
LEMMA CallCarries ==
    ASSUME OfferInv, NEW c \in Callers, NEW r \in CallsOfTrips, caller' = [caller EXCEPT ![c] = r]
    PROVE  caller' \in [Callers -> CallsOfTrips]
  BY DEF OfferInv

LEMMA WorkerCarries ==
    ASSUME OfferInv, NEW w \in Workers, NEW x \in WorkersAtTrips \cup {Idle}, wk' = [wk EXCEPT ![w] = x]
    PROVE  wk' \in [Workers -> WorkersAtTrips \cup {Idle}]
  BY DEF OfferInv

LEMMA OneCallCarries ==
    ASSUME OfferInv, NEW c \in Callers, NEW r \in CallsOfTrips, caller' = [caller EXCEPT ![c] = r],
           taskCh' \in Seq(TripTasks), UNCHANGED <<wk, res, moves>>, calls' \in 0..MaxCalls
    PROVE  OfferInv'
<1>1. caller' \in [Callers -> CallsOfTrips]
  BY CallCarries
<1>2. IsState(res)' /\ wk' = wk /\ moves' = moves
  BY DEF OfferInv, IsState, IsReserves
<1>3. QED
  BY <1>1, <1>2 DEF OfferInv

LEMMA CallFields ==
    ASSUME NEW r \in CallsOfTrips
    PROVE  /\ r \in CallRecords(Trips, Sold, SUBSET Sold)
           /\ r.pc \in {"idle", "enqueue", "sending", "drain"} /\ r.todo \in Seq(Trips) /\ r.wg \in Nat
           /\ r.open \in BOOLEAN /\ r.chan \in Seq(Sold) /\ r.got \subseteq Sold
           /\ r.answer \subseteq Sold /\ \A cand \in r.answer : cand.net >= MinProfit + Costs
  BY DEF CallsOfTrips, CallRecords

LEMMA FreshCall ==
    /\ NotCalled \in CallRecords(Trips, Sold, SUBSET Sold)
    /\ NotCalled.answer = {}
    /\ NotCalled \in CallsOfTrips
<1>1. NotCalled = [pc |-> "idle", todo |-> <<>>, wg |-> 0, open |-> TRUE, chan |-> <<>>,
                   got |-> {}, answer |-> {}]
  BY DEF NotCalled
<1>2. <<>> \in Seq(Trips) /\ <<>> \in Seq(Sold)
  BY EmptySeq
<1>3. NotCalled \in CallRecords(Trips, Sold, SUBSET Sold) /\ NotCalled.answer = {}
  BY <1>1, <1>2 DEF CallRecords
<1>4. QED
  BY <1>3 DEF CallsOfTrips

LEMMA EvaluateEventCarries ==
    ASSUME OfferInv, NEW c \in Callers, EvaluateEvent(c)
    PROVE  OfferInv'
<1>1. /\ calls < MaxCalls /\ calls' = calls + 1 /\ UNCHANGED <<taskCh, wk, res, moves>>
      /\ \E log \in Logs :
            /\ PairOf(log[1], log[2]) # <<>>
            /\ caller' = [caller EXCEPT ![c] = [NotCalled EXCEPT !.pc = "enqueue", !.todo = Paths(log[1], log[2])]]
  BY DEF EvaluateEvent
<1>2. PICK log \in Logs :
        /\ PairOf(log[1], log[2]) # <<>>
        /\ caller' = [caller EXCEPT ![c] = [NotCalled EXCEPT !.pc = "enqueue", !.todo = Paths(log[1], log[2])]]
  BY <1>1
<1> DEFINE todo == Paths(log[1], log[2])
           r == [NotCalled EXCEPT !.pc = "enqueue", !.todo = todo]
<1>3. todo \in Seq(Trips)
  BY <1>2, PathsAreTrips
<1>4. caller' = [caller EXCEPT ![c] = r]
  BY <1>2
<1> HIDE DEF todo
<1>5. r \in CallRecords(Trips, Sold, SUBSET Sold) /\ r.answer = {}
  BY <1>3, FreshCall DEF CallRecords
<1> HIDE DEF r
<1>6. r \in CallsOfTrips
  BY <1>5 DEF CallsOfTrips
<1>7. taskCh' \in Seq(TripTasks) /\ calls' \in 0..MaxCalls
  <2>1. taskCh' = taskCh /\ taskCh \in Seq(TripTasks) /\ calls \in 0..MaxCalls
    BY <1>1 DEF OfferInv
  <2>2. QED
    BY <1>1, <2>1, EvaluationAssumption
<1>8. UNCHANGED <<wk, res, moves>>
  BY <1>1
<1>9. QED
  BY <1>4, <1>6, <1>7, <1>8, OneCallCarries

LEMMA CallStepCarries ==
    ASSUME OfferInv, NEW c \in Callers, Add(c) \/ Collect(c) \/ CloseResults(c)
    PROVE  OfferInv'
<1> DEFINE old == caller[c]
           wg == old.wg + 1
           a == [old EXCEPT !.pc = "sending", !.wg = wg]
           b == [old EXCEPT !.pc = "drain"]
           d == [old EXCEPT !.open = FALSE]
<1>1. old \in CallsOfTrips
  BY DEF OfferInv
<1>2. UNCHANGED <<taskCh, wk, res, calls, moves>>
  BY DEF Add, Collect, CloseResults
<1>3. \E r \in {a, b, d} : caller' = [caller EXCEPT ![c] = r]
  <2>1. CASE Add(c)
    BY <2>1 DEF Add
  <2>2. CASE Collect(c)
    BY <2>2 DEF Collect
  <2>3. CASE CloseResults(c)
    BY <2>3 DEF CloseResults
  <2>4. QED
    BY <2>1, <2>2, <2>3
<1> HIDE DEF old
<1>4. /\ old \in CallRecords(Trips, Sold, SUBSET Sold)
      /\ \A cand \in old.answer : cand.net >= MinProfit + Costs
      /\ old.wg \in Nat
  BY <1>1, CallFields
<1>5. wg \in Nat
  BY <1>4
<1> HIDE DEF wg
<1>6. ASSUME NEW r \in {a, b, d}
      PROVE  r \in CallRecords(Trips, Sold, SUBSET Sold) /\ r.answer = old.answer
  BY <1>4, <1>5 DEF CallRecords
<1> HIDE DEF a, b, d
<1>7. PICK r \in {a, b, d} : caller' = [caller EXCEPT ![c] = r]
  BY <1>3
<1>8. r \in CallsOfTrips
  BY <1>4, <1>6 DEF CallsOfTrips
<1>9. taskCh' \in Seq(TripTasks) /\ calls' \in 0..MaxCalls
  BY <1>2 DEF OfferInv
<1>10. UNCHANGED <<wk, res, moves>>
  BY <1>2
<1>11. QED
  BY <1>7, <1>8, <1>9, <1>10, OneCallCarries

LEMMA EnqueueCarries ==
    ASSUME EvaluationInv, OfferInv, NEW c \in Callers, Enqueue(c)
    PROVE  OfferInv'
<1> DEFINE old == caller[c]
           todo == Tail(old.todo)
           task == [by |-> c, path |-> Head(old.todo)]
           r == [old EXCEPT !.pc = "enqueue", !.todo = todo]
<1>1. /\ old.pc = "sending" /\ taskCh' = Append(taskCh, task)
      /\ caller' = [caller EXCEPT ![c] = r] /\ UNCHANGED <<wk, res, calls, moves>>
  BY DEF Enqueue
<1>2. old \in CallsOfTrips /\ IsSound(old) /\ taskCh \in Seq(TripTasks)
  BY DEF OfferInv, EvaluationInv, StateInv
<1> HIDE DEF old
<1>3. /\ old \in CallRecords(Trips, Sold, SUBSET Sold)
      /\ \A cand \in old.answer : cand.net >= MinProfit + Costs
      /\ old.todo \in Seq(Trips) /\ old.todo # <<>>
  BY <1>1, <1>2, CallFields DEF IsSound
<1>4. todo \in Seq(Trips) /\ Head(old.todo) \in Trips
  BY <1>3
<1>5. task \in TripTasks
  BY <1>4 DEF TripTasks
<1> HIDE DEF todo, task
<1>6. r \in CallRecords(Trips, Sold, SUBSET Sold) /\ r.answer = old.answer
  BY <1>3, <1>4 DEF CallRecords
<1> HIDE DEF r
<1>7. r \in CallsOfTrips
  BY <1>3, <1>6 DEF CallsOfTrips
<1>8. taskCh' \in Seq(TripTasks)
  BY <1>1, <1>2, <1>5, AppendProperties
<1>9. calls' \in 0..MaxCalls
  BY <1>1 DEF OfferInv
<1>10. UNCHANGED <<wk, res, moves>>
  BY <1>1
<1>11. QED
  BY <1>1, <1>7, <1>8, <1>9, <1>10, OneCallCarries

LEMMA ReceiveCarries ==
    ASSUME OfferInv, NEW c \in Callers, Receive(c)
    PROVE  OfferInv'
<1> DEFINE old == caller[c]
           got == old.got \cup {Head(old.chan)}
           chan == Tail(old.chan)
           r == [old EXCEPT !.chan = chan, !.got = got]
<1>1. /\ old.chan # <<>>
      /\ caller' = [caller EXCEPT ![c] = r] /\ UNCHANGED <<taskCh, wk, res, calls, moves>>
  BY DEF Receive
<1>2. old \in CallsOfTrips
  BY DEF OfferInv
<1> HIDE DEF old
<1>3. /\ old \in CallRecords(Trips, Sold, SUBSET Sold)
      /\ \A cand \in old.answer : cand.net >= MinProfit + Costs
      /\ old.chan \in Seq(Sold) /\ old.got \subseteq Sold
  BY <1>2, CallFields
<1>4. chan \in Seq(Sold) /\ Head(old.chan) \in Sold
  BY <1>1, <1>3
<1>5. got \in SUBSET Sold
  BY <1>3, <1>4
<1> HIDE DEF got, chan
<1>6. r \in CallRecords(Trips, Sold, SUBSET Sold) /\ r.answer = old.answer
  BY <1>3, <1>4, <1>5 DEF CallRecords
<1> HIDE DEF r
<1>7. r \in CallsOfTrips
  BY <1>3, <1>6 DEF CallsOfTrips
<1>8. taskCh' \in Seq(TripTasks) /\ calls' \in 0..MaxCalls
  BY <1>1 DEF OfferInv
<1>9. UNCHANGED <<wk, res, moves>>
  BY <1>1
<1>10. QED
  BY <1>1, <1>7, <1>8, <1>9, OneCallCarries

LEMMA AnswerCarries ==
    ASSUME OfferInv, NEW c \in Callers, Answer(c)
    PROVE  OfferInv'
<1>1. /\ UNCHANGED <<taskCh, wk, res, calls, moves>>
      /\ \E avoid : \E answer \in SUBSET Eligible(c, avoid) :
            caller' = [caller EXCEPT ![c] = [NotCalled EXCEPT !.answer = answer]]
  BY DEF Answer
<1>2. PICK avoid : \E answer \in SUBSET Eligible(c, avoid) :
            caller' = [caller EXCEPT ![c] = [NotCalled EXCEPT !.answer = answer]]
  BY <1>1
<1>3. PICK answer \in SUBSET Eligible(c, avoid) :
            caller' = [caller EXCEPT ![c] = [NotCalled EXCEPT !.answer = answer]]
  BY <1>2
<1> DEFINE r == [NotCalled EXCEPT !.answer = answer]
<1>4. caller[c] \in CallsOfTrips
  BY DEF OfferInv
<1>5. caller[c].got \subseteq Sold
  BY <1>4, CallFields
<1>6. answer \in SUBSET Sold /\ \A cand \in answer : cand.net >= MinProfit + Costs
  BY <1>3, <1>5 DEF Eligible
<1>7. r \in CallRecords(Trips, Sold, SUBSET Sold) /\ r.answer = answer
  BY <1>6, FreshCall DEF CallRecords
<1>8. caller' = [caller EXCEPT ![c] = r]
  BY <1>3
<1> HIDE DEF r
<1>9. r \in CallsOfTrips
  BY <1>6, <1>7 DEF CallsOfTrips
<1>10. taskCh' \in Seq(TripTasks) /\ calls' \in 0..MaxCalls
  BY <1>1 DEF OfferInv
<1>11. UNCHANGED <<wk, res, moves>>
  BY <1>1
<1>12. QED
  BY <1>8, <1>9, <1>10, <1>11, OneCallCarries

\* The steps of a worker.
LEMMA WorkerFields ==
    ASSUME OfferInv, NEW w \in Workers, wk[w].pc # "idle"
    PROVE  /\ wk[w] \in WorkersAtTrips
           /\ wk[w] \in [pc : {"size", "try", "send"}, task : TripTasks, routes : Seq(Seq(DOMAIN Pools)),
                         amounts : Seq(Nat), best : Seq(Offers)]
           /\ wk[w].task \in TripTasks /\ wk[w].task.path \in Trips /\ wk[w].task.by \in Callers
           /\ wk[w].routes \in Seq(Routes(wk[w].task.path))
           /\ wk[w].pc # "send" => wk[w].routes # <<>>
           /\ wk[w].amounts \in Seq(Nat) /\ wk[w].best \in Seq(Offers)
           /\ wk[w].pc = "send" => wk[w].best # <<>> /\ Head(wk[w].best) \in Sold
<1>1. wk[w] \in WorkersAtTrips
  <2>1. wk[w] \in WorkersAtTrips \cup {Idle}
    BY DEF OfferInv
  <2>2. QED
    BY <2>1, IdleWorker
<1>2. QED
  BY <1>1 DEF WorkersAtTrips, TripTasks

LEMMA OneWorkerCarries ==
    ASSUME OfferInv, NEW w \in Workers, NEW x \in WorkersAtTrips \cup {Idle}, wk' = [wk EXCEPT ![w] = x],
           caller' \in [Callers -> CallsOfTrips], taskCh' \in Seq(TripTasks),
           UNCHANGED <<res, calls, moves>>
    PROVE  OfferInv'
<1>1. wk' \in [Workers -> WorkersAtTrips \cup {Idle}]
  BY WorkerCarries
<1>2. IsState(res)' /\ calls' = calls /\ moves' = moves
  BY DEF OfferInv, IsState, IsReserves
<1>3. QED
  BY <1>1, <1>2 DEF OfferInv

\* A task less in the wait group of its call.
LEMMA TaskLess ==
    ASSUME OfferInv, EvaluationInv', NEW c \in Callers, NEW r, caller' = [caller EXCEPT ![c] = r],
           NEW chan \in Seq(Sold), NEW wg, r = [caller[c] EXCEPT !.chan = chan, !.wg = wg]
    PROVE  r \in CallsOfTrips
<1> DEFINE old == caller[c]
<1>1. old \in CallsOfTrips /\ caller'[c] = r
  BY DEF OfferInv
<1>2. r.wg \in Nat
  <2>1. IsCall(r)
    BY <1>1 DEF EvaluationInv, StateInv
  <2>2. QED
    BY <2>1 DEF IsCall, CallRecords
<1> HIDE DEF old
<1>3. /\ old \in CallRecords(Trips, Sold, SUBSET Sold)
      /\ \A cand \in old.answer : cand.net >= MinProfit + Costs
  BY <1>1, CallFields
<1>4. r = [old EXCEPT !.chan = chan, !.wg = wg]
  BY DEF old
<1>5. r.wg = wg
  BY <1>3, <1>4 DEF CallRecords
<1>6. r \in CallRecords(Trips, Sold, SUBSET Sold) /\ r.answer = old.answer
  BY <1>2, <1>3, <1>4, <1>5 DEF CallRecords
<1>7. QED
  BY <1>3, <1>6 DEF CallsOfTrips

\* A worker that is done with its task, with or without a candidate.
LEMMA DoneCarries ==
    ASSUME OfferInv, EvaluationInv', NEW c \in Callers,
           caller' = [caller EXCEPT ![c].wg = @ - 1]
    PROVE  caller' \in [Callers -> CallsOfTrips]
<1> DEFINE old == caller[c]
           wg == old.wg - 1
           chan == old.chan
           r == [old EXCEPT !.wg = wg]
           s == [old EXCEPT !.chan = chan, !.wg = wg]
<1>1. caller' = [caller EXCEPT ![c] = r]
  OBVIOUS
<1>2. old \in CallsOfTrips
  BY DEF OfferInv
<1>3. old.chan \in Seq(Sold) /\ old \in CallRecords(Trips, Sold, SUBSET Sold)
  BY <1>2, CallFields
<1>4. r = s
  <2> HIDE DEF old, wg
  <2>1. QED
    BY <1>3 DEF CallRecords
<1>5. caller' = [caller EXCEPT ![c] = s] /\ s = [caller[c] EXCEPT !.chan = chan, !.wg = wg]
  BY <1>1, <1>4
<1>6. chan \in Seq(Sold)
  BY <1>3
<1> HIDE DEF r, s, wg, chan, old
<1>7. s \in CallsOfTrips
  BY <1>5, <1>6, TaskLess
<1>8. QED
  BY <1>5, <1>7, CallCarries

LEMMA SendResultCarries ==
    ASSUME OfferInv, EvaluationInv', NEW w \in Workers, SendResult(w)
    PROVE  OfferInv'
<1> DEFINE c == wk[w].task.by
           old == caller[c]
           wg == old.wg - 1
           chan == Append(old.chan, Head(wk[w].best))
           r == [old EXCEPT !.chan = chan, !.wg = wg]
<1>1. /\ wk[w].pc = "send" /\ wk' = [wk EXCEPT ![w] = Idle] /\ caller' = [caller EXCEPT ![c] = r]
      /\ UNCHANGED <<taskCh, res, calls, moves>>
  BY DEF SendResult
<1>2. c \in Callers /\ Head(wk[w].best) \in Sold
  BY <1>1, WorkerFields
<1>3. old \in CallsOfTrips
  BY <1>2 DEF OfferInv
<1>4. old.chan \in Seq(Sold)
  BY <1>3, CallFields
<1>5. chan \in Seq(Sold)
  BY <1>2, <1>4, AppendProperties
<1>6. r = [caller[c] EXCEPT !.chan = chan, !.wg = wg]
  OBVIOUS
<1> HIDE DEF c, old, wg, chan, r
<1>7. r \in CallsOfTrips
  BY <1>1, <1>2, <1>5, <1>6, TaskLess
<1>8. caller' \in [Callers -> CallsOfTrips]
  BY <1>1, <1>2, <1>7, CallCarries
<1>9. taskCh' \in Seq(TripTasks)
  BY <1>1 DEF OfferInv
<1>10. UNCHANGED <<res, calls, moves>>
  BY <1>1
<1>11. QED
  BY <1>1, <1>8, <1>9, <1>10, OneWorkerCarries

LEMMA TakeTaskCarries ==
    ASSUME OfferInv, EvaluationInv', NEW w \in Workers, TakeTask(w)
    PROVE  OfferInv'
<1> DEFINE task == Head(taskCh)
<1>1. /\ taskCh # <<>> /\ taskCh' = Tail(taskCh) /\ UNCHANGED <<res, calls, moves>>
      /\ \E routes \in RoutesOf(task.path, res) :
            IF routes = <<>>
            THEN caller' = [caller EXCEPT ![task.by].wg = @ - 1] /\ wk' = wk
            ELSE /\ wk' = [wk EXCEPT ![w] = [Idle EXCEPT !.pc = "size", !.task = task, !.routes = routes]]
                 /\ caller' = caller
  BY DEF TakeTask
<1>2. /\ taskCh \in Seq(TripTasks) /\ IsState(res) /\ caller \in [Callers -> CallsOfTrips]
      /\ wk \in [Workers -> WorkersAtTrips \cup {Idle}]
  BY DEF OfferInv
<1>3. task \in TripTasks /\ taskCh' \in Seq(TripTasks)
  BY <1>1, <1>2
<1> HIDE DEF task
<1>4. PICK routes \in RoutesOf(task.path, res) :
            IF routes = <<>>
            THEN caller' = [caller EXCEPT ![task.by].wg = @ - 1] /\ wk' = wk
            ELSE /\ wk' = [wk EXCEPT ![w] = [Idle EXCEPT !.pc = "size", !.task = task, !.routes = routes]]
                 /\ caller' = caller
  BY <1>1
<1>5. task.path \in Trips /\ task.by \in Callers
  BY <1>3 DEF TripTasks
<1>6. UNCHANGED <<res, calls, moves>>
  BY <1>1
<1>7. CASE routes = <<>>
  <2>1. caller' = [caller EXCEPT ![task.by].wg = @ - 1] /\ wk' = wk
    BY <1>4, <1>7
  <2>2. caller' \in [Callers -> CallsOfTrips]
    BY <1>5, <2>1, DoneCarries
  <2>3. wk' = [wk EXCEPT ![w] = wk[w]] /\ wk[w] \in WorkersAtTrips \cup {Idle}
    BY <1>2, <2>1
  <2>4. QED
    BY <1>3, <1>6, <2>2, <2>3, OneWorkerCarries
<1>8. CASE routes # <<>>
  <2> DEFINE x == [Idle EXCEPT !.pc = "size", !.task = task, !.routes = routes]
  <2>1. wk' = [wk EXCEPT ![w] = x] /\ caller' = caller
    BY <1>4, <1>8
  <2>2. routes \in Seq(Routes(task.path))
    BY <1>2, <1>5, RoutesFit
  <2>3. routes \in Seq(Seq(DOMAIN Pools))
    <3>1. Routes(task.path) \subseteq Seq(DOMAIN Pools)
      BY DEF Routes
    <3>2. QED
      BY <2>2, <3>1, SeqWider
  <2>4. <<>> \in Seq(Nat) /\ <<>> \in Seq(Offers)
    BY EmptySeq
  <2>5. Idle \in [pc : {"idle"}, task : {NoTask}, routes : {<<>>}, amounts : Seq(Nat), best : Seq(Offers)]
    BY <2>4 DEF Idle
  <2>6. x \in [pc : {"size", "try", "send"}, task : TripTasks, routes : Seq(Seq(DOMAIN Pools)),
               amounts : Seq(Nat), best : Seq(Offers)]
    BY <1>3, <2>5, <2>3
  <2>7. x.pc = "size" /\ x.task = task /\ x.routes = routes
    BY <2>5
  <2> HIDE DEF x
  <2>8. x \in WorkersAtTrips
    BY <1>8, <2>2, <2>6, <2>7 DEF WorkersAtTrips
  <2>9. caller' \in [Callers -> CallsOfTrips]
    BY <1>2, <2>1
  <2>10. QED
    BY <1>3, <1>6, <2>1, <2>8, <2>9, OneWorkerCarries
<1>9. QED
  BY <1>7, <1>8

\* A worker that goes on with its task.
LEMMA OnwardFits ==
    ASSUME OfferInv, NEW w \in Workers, wk[w].pc # "idle",
           NEW pc \in {"size", "try", "send"}, NEW routes \in Seq(Routes(wk[w].task.path)),
           NEW amounts \in Seq(Nat), NEW best \in Seq(Offers),
           pc # "send" => routes # <<>>, pc = "send" => best # <<>> /\ Head(best) \in Sold
    PROVE  [wk[w] EXCEPT !.pc = pc, !.routes = routes, !.amounts = amounts, !.best = best]
              \in WorkersAtTrips
<1> DEFINE old == wk[w]
           x == [old EXCEPT !.pc = pc, !.routes = routes, !.amounts = amounts, !.best = best]
<1>1. routes \in Seq(Seq(DOMAIN Pools))
  <2>1. Routes(wk[w].task.path) \subseteq Seq(DOMAIN Pools)
    BY DEF Routes
  <2>2. QED
    BY <2>1, SeqWider
<1>2. old \in [pc : {"size", "try", "send"}, task : TripTasks, routes : Seq(Seq(DOMAIN Pools)),
               amounts : Seq(Nat), best : Seq(Offers)]
  BY WorkerFields
<1>0. routes \in Seq(Routes(old.task.path))
  OBVIOUS
<1> HIDE DEF old
<1>3. x \in [pc : {"size", "try", "send"}, task : TripTasks, routes : Seq(Seq(DOMAIN Pools)),
             amounts : Seq(Nat), best : Seq(Offers)]
  BY <1>1, <1>2
<1>4. x.pc = pc /\ x.task = old.task /\ x.routes = routes /\ x.best = best
  BY <1>2
<1> HIDE DEF x
<1>5. x \in WorkersAtTrips
  BY <1>0, <1>3, <1>4 DEF WorkersAtTrips
<1>6. QED
  BY <1>5 DEF x, old

\* The amounts a worker may try.
LEMMA AmountsCount ==
    ASSUME OfferInv, NEW w \in Workers, Size(w)
    PROVE  /\ wk[w].pc = "size" /\ UNCHANGED <<caller, taskCh, res, calls, moves>>
           /\ \E amounts \in Seq(Nat) : wk' = [wk EXCEPT ![w].pc = "try", ![w].amounts = amounts]
<1> DEFINE path == wk[w].task.path
           route == Head(wk[w].routes)
           base == ComputeOptimalInputRaw(route[1], path[1], res)
           hop2 == ComputeOptimalAmount2Hop(route[1], route[2], path[1], res)
<1>1. wk[w].pc = "size" /\ UNCHANGED <<caller, taskCh, res, calls, moves>>
  BY DEF Size
<1>2. \E optimum \in (IF Pools[route[1]].v3 THEN OptimalV3(base) ELSE {hop2}) :
      \E amounts \in
             IF base = 0 THEN {<<>>}
             ELSE IF Len(path) = 3
                  THEN {Scaled(a, AroundAmount3Hop) : a \in Optimal3Hop(base)}
             ELSE {IF optimum > 0 THEN Scaled(optimum, AroundOptimum)
                                  ELSE Scaled(base, AroundBase)} :
             wk' = [wk EXCEPT ![w].pc = "try", ![w].amounts = amounts]
  BY DEF Size
<1>3. /\ path \in Trips /\ route \in Routes(path) /\ IsState(res)
  <2>1. path \in Trips /\ wk[w].routes \in Seq(Routes(path)) /\ wk[w].routes # <<>>
    BY <1>1, WorkerFields
  <2>2. route \in Routes(path)
    <3> HIDE DEF path
    <3>1. QED
      BY <2>1
  <2>3. QED
    BY <2>1, <2>2 DEF OfferInv
<1> HIDE DEF path, route
<1>4. /\ route[1] \in DOMAIN Pools /\ route[2] \in DOMAIN Pools
  <2>1. Len(path) \in {2, 3} /\ Len(route) = Len(path) /\ route \in Seq(DOMAIN Pools)
    BY <1>3, TripFacts DEF Routes
  <2>2. QED
    BY <2>1
<1>5. base \in Nat /\ hop2 \in Nat
  BY <1>3, <1>4, OptimumCounts, Optimum2HopCounts
<1> HIDE DEF base, hop2
<1>6. PICK optimum \in (IF Pools[route[1]].v3 THEN OptimalV3(base) ELSE {hop2}) :
      \E amounts \in
             IF base = 0 THEN {<<>>}
             ELSE IF Len(path) = 3
                  THEN {Scaled(a, AroundAmount3Hop) : a \in Optimal3Hop(base)}
             ELSE {IF optimum > 0 THEN Scaled(optimum, AroundOptimum)
                                  ELSE Scaled(base, AroundBase)} :
             wk' = [wk EXCEPT ![w].pc = "try", ![w].amounts = amounts]
  BY <1>2
<1>7. optimum \in Nat
  BY <1>5, <1>6 DEF OptimalV3
<1>8. PICK amounts \in
             IF base = 0 THEN {<<>>}
             ELSE IF Len(path) = 3
                  THEN {Scaled(a, AroundAmount3Hop) : a \in Optimal3Hop(base)}
             ELSE {IF optimum > 0 THEN Scaled(optimum, AroundOptimum)
                                  ELSE Scaled(base, AroundBase)} :
             wk' = [wk EXCEPT ![w].pc = "try", ![w].amounts = amounts]
  BY <1>6
<1>9. amounts \in Seq(Nat)
  <2>1. CASE base = 0
    BY <1>8, <2>1, EmptySeq
  <2>2. CASE base # 0 /\ Len(path) = 3
    <3>1. PICK a \in Optimal3Hop(base) : amounts = Scaled(a, AroundAmount3Hop)
      BY <1>8, <2>2
    <3>2. a \in Nat
      BY <1>5, <3>1 DEF Optimal3Hop
    <3>3. QED
      BY <3>1, <3>2, ScaledCounts, PercentsTyped
  <2>3. CASE base # 0 /\ Len(path) # 3
    <3>1. amounts = Scaled(optimum, AroundOptimum) \/ amounts = Scaled(base, AroundBase)
      BY <1>8, <2>3
    <3>2. Scaled(optimum, AroundOptimum) \in Seq(Nat)
      BY <1>7, ScaledCounts, PercentsTyped
    <3>3. Scaled(base, AroundBase) \in Seq(Nat)
      BY <1>5, ScaledCounts, PercentsTyped
    <3>4. QED
      BY <3>1, <3>2, <3>3
  <2>4. QED
    BY <2>1, <2>2, <2>3
<1>10. QED
  BY <1>1, <1>8, <1>9

LEMMA SizeCarries ==
    ASSUME OfferInv, NEW w \in Workers, Size(w)
    PROVE  OfferInv'
<1>1. /\ wk[w].pc = "size" /\ UNCHANGED <<caller, taskCh, res, calls, moves>>
      /\ \E amounts \in Seq(Nat) : wk' = [wk EXCEPT ![w].pc = "try", ![w].amounts = amounts]
  BY AmountsCount
<1>2. PICK amounts \in Seq(Nat) : wk' = [wk EXCEPT ![w].pc = "try", ![w].amounts = amounts]
  BY <1>1
<1> DEFINE routes == wk[w].routes
           best == wk[w].best
           x == [wk[w] EXCEPT !.pc = "try", !.routes = routes, !.amounts = amounts, !.best = best]
           y == [wk[w] EXCEPT !.pc = "try", !.amounts = amounts]
<1>3. /\ routes \in Seq(Routes(wk[w].task.path)) /\ routes # <<>> /\ best \in Seq(Offers)
      /\ wk[w] \in [pc : {"size", "try", "send"}, task : TripTasks, routes : Seq(Seq(DOMAIN Pools)),
                    amounts : Seq(Nat), best : Seq(Offers)]
  BY <1>1, WorkerFields
<1>4. x = y
  BY <1>3
<1>5. wk' = [wk EXCEPT ![w] = y]
  BY <1>2
<1>6. wk' = [wk EXCEPT ![w] = x]
  BY <1>4, <1>5
<1>7. x \in WorkersAtTrips
  <2> HIDE DEF routes, best
  <2>1. QED
    BY <1>1, <1>3, OnwardFits
<1> HIDE DEF x
<1>8. caller' \in [Callers -> CallsOfTrips] /\ taskCh' \in Seq(TripTasks)
  BY <1>1 DEF OfferInv
<1>9. UNCHANGED <<res, calls, moves>>
  BY <1>1
<1>10. QED
  BY <1>6, <1>7, <1>8, <1>9, OneWorkerCarries

\* What a worker has when it has tried the amounts of a route.
LEMMA TryFinds ==
    ASSUME OfferInv, NEW w \in Workers, Try(w)
    PROVE  /\ wk[w].pc = "try" /\ UNCHANGED <<taskCh, res, calls, moves>>
           /\ \E best \in Seq(Offers) :
                IF Len(wk[w].routes) = 1 THEN Finish(w, best)
                ELSE /\ wk' = [wk EXCEPT ![w].pc = "size", ![w].routes = Tail(@),
                                         ![w].amounts = <<>>, ![w].best = best]
                     /\ caller' = caller
<1> DEFINE path == wk[w].task.path
           route == Head(wk[w].routes)
           amounts == wk[w].amounts
           old == wk[w].best
           offers == Worthwhile(path, route, amounts, res)
           found == IF Len(path) = 3 THEN Highest(offers) ELSE FirstPeak(offers)
           Better(priced) == {o.cand : o \in {f \in found : priced
                                /\ \A b \in ToSet(old) : f.cand.net > b.net}}
           Next1(best) == IF Len(wk[w].routes) = 1 THEN Finish(w, best)
                ELSE /\ wk' = [wk EXCEPT ![w].pc = "size", ![w].routes = Tail(@),
                                         ![w].amounts = <<>>, ![w].best = best]
                     /\ caller' = caller
<1>1. wk[w].pc = "try" /\ UNCHANGED <<taskCh, res, calls, moves>>
  BY DEF Try
<1>2. \E priced \in BOOLEAN : Next1(IF Better(priced) = {} THEN old ELSE SetToSeq(Better(priced)))
  BY DEF Try
<1> HIDE DEF Next1
<1>3. PICK priced \in BOOLEAN : Next1(IF Better(priced) = {} THEN old ELSE SetToSeq(Better(priced)))
  BY <1>2
<1>4. \A cand \in Better(priced) : \E o \in offers : cand = o.cand
  <2>1. found \subseteq offers
    BY DEF Highest, FirstPeak
  <2> HIDE DEF found, offers
  <2>2. QED
    BY <2>1
<1>5. /\ path \in Trips /\ route \in Routes(path) /\ amounts \in Seq(Nat) /\ old \in Seq(Offers)
      /\ IsState(res)
  <2>1. /\ path \in Trips /\ wk[w].routes \in Seq(Routes(path)) /\ wk[w].routes # <<>>
        /\ amounts \in Seq(Nat) /\ old \in Seq(Offers)
    BY <1>1, WorkerFields
  <2>2. route \in Routes(path)
    <3> HIDE DEF path
    <3>1. QED
      BY <2>1
  <2>3. QED
    BY <2>1, <2>2 DEF OfferInv
<1> DEFINE better == Better(priced)
           best == IF better = {} THEN old ELSE SetToSeq(better)
<1>6. best \in Seq(Offers)
  <2>1. \A cand \in better : \E o \in Worthwhile(path, route, amounts, res) : cand = o.cand
    BY <1>4
  <2> HIDE DEF better, path, route, amounts, old
  <2>2. QED
    BY <1>5, <2>1, BestAreOffers
<1>7. Next1(best)
  BY <1>3
<1> HIDE DEF best
<1>8. QED
  BY <1>1, <1>6, <1>7 DEF Next1

LEMMA TryCarries ==
    ASSUME OfferInv, EvaluationInv', NEW w \in Workers, Try(w)
    PROVE  OfferInv'
<1>1. /\ wk[w].pc = "try" /\ UNCHANGED <<taskCh, res, calls, moves>>
      /\ \E best \in Seq(Offers) :
            IF Len(wk[w].routes) = 1 THEN Finish(w, best)
            ELSE /\ wk' = [wk EXCEPT ![w].pc = "size", ![w].routes = Tail(@),
                                     ![w].amounts = <<>>, ![w].best = best]
                 /\ caller' = caller
  BY TryFinds
<1>2. PICK best \in Seq(Offers) :
            IF Len(wk[w].routes) = 1 THEN Finish(w, best)
            ELSE /\ wk' = [wk EXCEPT ![w].pc = "size", ![w].routes = Tail(@),
                                     ![w].amounts = <<>>, ![w].best = best]
                 /\ caller' = caller
  BY <1>1
<1>3. /\ caller \in [Callers -> CallsOfTrips] /\ taskCh' \in Seq(TripTasks)
      /\ wk[w].pc # "idle"
  BY <1>1 DEF OfferInv
<1>4. /\ wk[w].routes \in Seq(Routes(wk[w].task.path)) /\ wk[w].routes # <<>>
      /\ wk[w].task.by \in Callers
  BY <1>1, <1>3, WorkerFields
<1>5. <<>> \in Seq(Nat) /\ <<>> \in Seq(Routes(wk[w].task.path))
  BY EmptySeq
<1>6. UNCHANGED <<res, calls, moves>>
  BY <1>1
<1>7. CASE Len(wk[w].routes) # 1
  <2> DEFINE R == Routes(wk[w].task.path)
             routes == wk[w].routes
             rest == Tail(routes)
             x == [wk[w] EXCEPT !.pc = "size", !.routes = rest, !.amounts = <<>>, !.best = best]
  <2>1. wk' = [wk EXCEPT ![w] = x] /\ caller' = caller
    BY <1>2, <1>7
  <2>2. rest \in Seq(R) /\ rest # <<>>
    <3>1. routes \in Seq(R) /\ routes # <<>> /\ Len(routes) # 1
      BY <1>4, <1>7
    <3> HIDE DEF routes, R
    <3>2. Len(rest) = Len(routes) - 1 /\ rest \in Seq(R) /\ Len(routes) \in Nat /\ Len(routes) # 0
      BY <3>1
    <3>3. Len(rest) # 0
      BY <3>1, <3>2
    <3> HIDE DEF rest
    <3>4. rest # <<>>
      BY <3>3, EmptySeq
    <3>5. QED
      BY <3>2, <3>4 DEF routes, R
  <2> HIDE DEF rest
  <2>3. x \in WorkersAtTrips
    BY <1>3, <1>5, <2>2, OnwardFits
  <2> HIDE DEF x
  <2>4. caller' \in [Callers -> CallsOfTrips]
    BY <1>3, <2>1
  <2>5. QED
    BY <1>3, <1>6, <2>1, <2>3, <2>4, OneWorkerCarries
<1>8. CASE Len(wk[w].routes) = 1 /\ best # <<>> /\ Head(best).net > MinProfit
  <2> DEFINE x == [wk[w] EXCEPT !.pc = "send", !.routes = <<>>, !.amounts = <<>>, !.best = best]
  <2>1. wk' = [wk EXCEPT ![w] = x] /\ caller' = caller
    BY <1>2, <1>8 DEF Finish
  <2>2. Head(best) \in Sold
    <3>1. Head(best) \in Offers
      BY <1>8
    <3>2. QED
      BY <1>8, <3>1 DEF Sold
  <2>3. x \in WorkersAtTrips
    BY <1>3, <1>5, <1>8, <2>2, OnwardFits
  <2> HIDE DEF x
  <2>4. caller' \in [Callers -> CallsOfTrips]
    BY <1>3, <2>1
  <2>5. QED
    BY <1>3, <1>6, <2>1, <2>3, <2>4, OneWorkerCarries
<1>9. CASE Len(wk[w].routes) = 1 /\ ~ (best # <<>> /\ Head(best).net > MinProfit)
  <2>1. wk' = [wk EXCEPT ![w] = Idle] /\ caller' = [caller EXCEPT ![wk[w].task.by].wg = @ - 1]
    BY <1>2, <1>9 DEF Finish
  <2>2. caller' \in [Callers -> CallsOfTrips]
    BY <1>4, <2>1, DoneCarries
  <2>3. Idle \in WorkersAtTrips \cup {Idle}
    OBVIOUS
  <2>4. QED
    BY <1>3, <1>6, <2>1, <2>2, <2>3, OneWorkerCarries
<1>10. QED
  BY <1>7, <1>8, <1>9

LEMMA MoveCarries ==
    ASSUME OfferInv, Move
    PROVE  OfferInv'
<1>1. /\ moves < MaxMoves /\ moves' = moves + 1 /\ caller' = caller /\ taskCh' = taskCh
      /\ wk' = wk /\ calls' = calls /\ \E m \in Moves : res' = [res EXCEPT ![m[1]] = m[2]]
  BY DEF Move
<1>2. PICK m \in Moves : res' = [res EXCEPT ![m[1]] = m[2]]
  BY <1>1
<1>3. m[1] \in DOMAIN Pools /\ IsReserves(m[1], m[2])
  BY RegistryAssumption
<1>4. IsState(res')
  <2>1. m[2] \in Seq(Nat)
    BY <1>3 DEF IsReserves
  <2>2. res \in [DOMAIN Pools -> Seq(Nat)] /\ \A p \in DOMAIN Pools : IsReserves(p, res[p])
    BY DEF OfferInv, IsState
  <2>3. \A p \in DOMAIN Pools : res'[p] = IF p = m[1] THEN m[2] ELSE res[p]
    BY <1>2, <2>2
  <2>4. \A p \in DOMAIN Pools : IsReserves(p, res'[p])
    BY <1>3, <2>2, <2>3
  <2>5. res' \in [DOMAIN Pools -> Seq(Nat)]
    BY <1>2, <1>3, <2>1, <2>2
  <2>6. QED
    BY <2>4, <2>5 DEF IsState
<1>5. moves' \in 0..MaxMoves
  BY <1>1, EvaluationAssumption DEF OfferInv
<1>6. IsState(res)'
  BY <1>4 DEF IsState, IsReserves
<1>7. QED
  BY <1>1, <1>5, <1>6 DEF OfferInv

LEMMA InitCarries == Init => OfferInv
<1> SUFFICES ASSUME Init PROVE OfferInv
  OBVIOUS
<1>1. /\ caller = [c \in Callers |-> NotCalled] /\ taskCh = <<>> /\ wk = [w \in Workers |-> Idle]
      /\ res = Start /\ calls = 0 /\ moves = 0
  BY DEF Init
<1>2. caller \in [Callers -> CallsOfTrips]
  BY <1>1, FreshCall
<1>3. taskCh \in Seq(TripTasks)
  BY <1>1, EmptySeq
<1>4. IsState(res)
  BY <1>1, RegistryAssumption DEF IsState
<1>5. calls \in 0..MaxCalls /\ moves \in 0..MaxMoves
  BY <1>1, EvaluationAssumption
<1>6. QED
  BY <1>1, <1>2, <1>3, <1>4, <1>5 DEF OfferInv

LEMMA NextCarries == EvaluationInv /\ EvaluationInv' /\ OfferInv /\ [Next]_vars => OfferInv'
<1> SUFFICES ASSUME EvaluationInv, EvaluationInv', OfferInv, [Next]_vars PROVE OfferInv'
  OBVIOUS
<1>1. ASSUME NEW c \in Callers, EvaluateEvent(c) \/ Call(c) PROVE OfferInv'
  BY <1>1, EvaluateEventCarries, CallStepCarries, EnqueueCarries, ReceiveCarries, AnswerCarries DEF Call
<1>2. ASSUME NEW w \in Workers, Worker(w) PROVE OfferInv'
  BY <1>2, TakeTaskCarries, SizeCarries, TryCarries, SendResultCarries DEF Worker
<1>3. CASE UNCHANGED vars
  <2>1. /\ caller' = caller /\ taskCh' = taskCh /\ wk' = wk /\ res' = res /\ calls' = calls
        /\ moves' = moves
    BY <1>3 DEF vars
  <2>2. IsState(res)'
    BY <2>1 DEF OfferInv, IsState, IsReserves
  <2>3. QED
    BY <2>1, <2>2 DEF OfferInv
<1>4. QED
  BY <1>1, <1>2, <1>3, MoveCarries DEF Next

LEMMA SpecCarries == Spec => [](EvaluationInv /\ OfferInv)
<1>1. Init => EvaluationInv /\ OfferInv
  BY InitInv, InitCarries
<1>2. EvaluationInv /\ OfferInv /\ [Next]_vars => (EvaluationInv /\ OfferInv)'
  BY NextKeeps, NextCarries
<1>3. QED
  BY <1>1, <1>2, PTL DEF Spec

-----------------------------------------------------------------------------
(* The theorems about candidates.                                             *)

\* Whatever pools a worker chooses, however the reserves move between its reads and
\* whichever amounts it tries, every route is of pools in the matrix, no amount, minimum
\* output or profit that is passed on is below zero, and no channel is beyond its
\* capacity (simd_solver.go:248-321, 394-695, 744-896).
THEOREM EvaluationIsTyped == Spec => []TypeOK
<1>1. EvaluationInv /\ OfferInv => TypeOK
  <2> SUFFICES ASSUME EvaluationInv, OfferInv PROVE TypeOK
    OBVIOUS
  <2>1. Trips \subseteq Seq(Tokens) /\ Offers \subseteq Candidates /\ Sold \subseteq Candidates
    BY DEF Trips, Offers, Sold
  <2>2. TripTasks \subseteq Tasks
    BY <2>1 DEF TripTasks, Tasks
  <2> DEFINE C == [pc : {"idle", "enqueue", "sending", "drain"}, todo : Seq(Seq(Tokens)), wg : Nat,
                   open : BOOLEAN, chan : Seq(Candidates), got : SUBSET Candidates,
                   answer : SUBSET Candidates]
             W == [pc : {"idle", "size", "try", "send"}, task : Tasks \cup {NoTask},
                   routes : Seq(Seq(DOMAIN Pools)), amounts : Seq(Nat), best : Seq(Candidates)]
  <2>3. CallsOfTrips \subseteq C
    <3>1. SUFFICES ASSUME NEW r \in CallsOfTrips PROVE r \in C
      OBVIOUS
    <3>2. /\ r \in CallRecords(Trips, Sold, SUBSET Sold)
          /\ r.todo \in Seq(Trips) /\ r.chan \in Seq(Sold) /\ r.got \subseteq Sold /\ r.answer \subseteq Sold
      BY CallFields
    <3>3. r.todo \in Seq(Seq(Tokens)) /\ r.chan \in Seq(Candidates)
      BY <2>1, <3>2, SeqWider
    <3>4. QED
      BY <2>1, <3>2, <3>3 DEF CallRecords
  <2>4. WorkersAtTrips \cup {Idle} \subseteq W
    <3>1. SUFFICES ASSUME NEW x \in WorkersAtTrips \cup {Idle} PROVE x \in W
      OBVIOUS
    <3>2. CASE x = Idle
      <4>1. Idle = [pc |-> "idle", task |-> NoTask, routes |-> <<>>, amounts |-> <<>>, best |-> <<>>]
        BY DEF Idle
      <4>2. <<>> \in Seq(Seq(DOMAIN Pools)) /\ <<>> \in Seq(Nat) /\ <<>> \in Seq(Candidates)
        BY EmptySeq
      <4>3. QED
        BY <3>2, <4>1, <4>2
    <3>3. CASE x \in WorkersAtTrips
      <4>1. x \in [pc : {"size", "try", "send"}, task : TripTasks, routes : Seq(Seq(DOMAIN Pools)),
                   amounts : Seq(Nat), best : Seq(Offers)]
        BY <3>3 DEF WorkersAtTrips
      <4>2. x.best \in Seq(Offers)
        BY <4>1
      <4>3. x.best \in Seq(Candidates)
        BY <2>1, <4>2, SeqWider
      <4>4. QED
        BY <2>2, <4>1, <4>3
    <3>4. QED
      BY <3>1, <3>2, <3>3
  <2> HIDE DEF C, W
  <2>5. caller \in [Callers -> C] /\ wk \in [Workers -> W]
    BY <2>3, <2>4 DEF OfferInv
  <2>6. taskCh \in Seq(Tasks) /\ Len(taskCh) <= TaskCap
    BY <2>2, SeqWider DEF OfferInv, EvaluationInv, StateInv
  <2>7. ASSUME NEW c \in Callers PROVE Len(caller[c].chan) <= ResultCap
    <3> DEFINE i == Len(caller[c].chan)  j == caller[c].wg  k == Len(caller[c].todo)
               m == Sending(caller[c])
    <3>1. caller[c] \in CallsOfTrips /\ IsSound(caller[c])
      BY DEF OfferInv, EvaluationInv, StateInv
    <3>2. i \in Nat /\ j \in Nat /\ k \in Nat /\ caller[c].todo \in Seq(Trips)
      <4>1. caller[c].chan \in Seq(Sold) /\ caller[c].todo \in Seq(Trips) /\ caller[c].wg \in Nat
        BY <3>1, CallFields
      <4>2. QED
        BY <4>1
    <3>3. i + j + k - m <= MaxTasks
      BY <3>1 DEF IsSound
    <3>4. m \in {0, 1} /\ (m = 1 => k # 0)
      BY <3>1, <3>2 DEF IsSound, Sending
    <3> HIDE DEF i, j, k, m
    <3>5. i <= ResultCap
      BY <3>2, <3>3, <3>4, Constants
    <3>6. QED
      BY <3>5 DEF i
  <2>8. res \in [DOMAIN Pools -> Seq(Nat)] /\ calls \in 0..MaxCalls /\ moves \in 0..MaxMoves
    BY DEF OfferInv, IsState
  <2>9. QED
    BY <2>5, <2>6, <2>7, <2>8 DEF TypeOK, C, W
<1>2. QED
  BY <1>1, SpecCarries, PTL

\* What a call has and gives was worth sending.
LEMMA OffersOfCalls ==
    ASSUME OfferInv, NEW c \in Callers
    PROVE  /\ caller[c].got \cup ToSet(caller[c].chan) \cup caller[c].answer \subseteq Sold
           /\ \A cand \in caller[c].answer : cand.net >= MinProfit + Costs
<1>1. caller[c] \in CallsOfTrips
  BY DEF OfferInv
<1>2. /\ caller[c].chan \in Seq(Sold) /\ caller[c].got \subseteq Sold /\ caller[c].answer \subseteq Sold
      /\ \A cand \in caller[c].answer : cand.net >= MinProfit + Costs
  BY <1>1, CallFields
<1>3. ToSet(caller[c].chan) \subseteq Sold
  BY <1>2 DEF ToSet
<1>4. QED
  BY <1>2, <1>3

\* For every V2 and V3 pool, fee, price on the scale, liquidity, amount and rounding of
\* float64 within one part in Accuracy, a candidate that is sent, received or returned by
\* the callback is a round trip in the directions it names, each hop clears its minimum
\* output on the reserves it was computed from, and an answer pays the costs, as long as no
\* V3 fee is so high that it is taken for pips (simd_solver.go:616-742, 786-907;
\* v3_math.go:248-340, 570-611; main.go:378-439).
THEOREM OffersAreSound == ASSUME FeesMatch PROVE Spec => []OffersHoldUp
<1>1. OfferInv => OffersHoldUp
  BY OffersOfCalls DEF OffersHoldUp, Sold, Offers
<1>2. QED
  BY <1>1, SpecCarries, PTL

\* Every V3 hop of every candidate whose fee is known and below the limit was computed to
\* the last unit, unless the swap moves the price to the end of its scale, where the solver
\* cuts the amount off (v3_math.go:277-340, 570-611).
V3OffersAreExact ==
    \A c \in Callers :
        \A cand \in caller[c].got \cup ToSet(caller[c].chan) \cup caller[c].answer : V3IsExact(cand)

THEOREM V3HopsAreExact == Spec => []V3OffersAreExact
<1>1. OfferInv => V3OffersAreExact
  BY OffersOfCalls DEF V3OffersAreExact, Sold, Offers
<1>2. QED
  BY <1>1, SpecCarries, PTL
=============================================================================
