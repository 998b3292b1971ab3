---------------------------- MODULE LiveRelayProofs ----------------------------
(* Theorems about LiveRelay, for every number of chunks, relays and workers: its *)
(* bookkeeping, the truth of what it tells its two ends, and that it delivers.   *)
EXTENDS LiveRelay, SumTheorems

USE LiveRelayAssumption

-----------------------------------------------------------------------------
(* The control channel *)

\* One message more in a window: it stays a window of messages, and the number of
\* the last message processed stays a number of it.
LEMMA PushedType ==
  ASSUME NEW S, NEW window \in Seq(S), Len(window) <= Window, NEW m \in S,
         NEW last \in 0 .. Len(window)
  PROVE  /\ Pushed(window, m) \in Seq(S)
         /\ Len(Pushed(window, m)) <= Window
         /\ Shifted(window, last) \in 0 .. Len(Pushed(window, m))
<1>1. CASE Len(window) < Window
  BY <1>1 DEF Pushed, Shifted
<1>2. CASE ~(Len(window) < Window)
  <2>1. window # <<>> /\ Len(window) = Window
    BY <1>2
  <2>2. Tail(window) \in Seq(S) /\ Len(Tail(window)) = Len(window) - 1
    BY <2>1
  <2>3. QED
    BY <1>2, <2>1, <2>2 DEF Pushed, Shifted
<1>3. QED
  BY <1>1, <1>2

LEMMA AppendMessages ==
  ASSUME NEW S, NEW old \in Seq(S), NEW m \in S
  PROVE  \A k \in 1 .. Len(Append(old, m)) :
           Append(old, m)[k] = m \/ \E j \in 1 .. Len(old) : Append(old, m)[k] = old[j]
<1>1. Len(Append(old, m)) = Len(old) + 1
  OBVIOUS
<1>2. SUFFICES ASSUME NEW k \in 1 .. Len(old) + 1, k # Len(old) + 1
               PROVE  k \in 1 .. Len(old) /\ Append(old, m)[k] = old[k]
  BY <1>1
<1>3. QED
  BY <1>2

LEMMA TailMessages ==
  ASSUME NEW S, NEW window \in Seq(S), window # <<>>
  PROVE  \A k \in 1 .. Len(Tail(window)) :
           k + 1 \in 1 .. Len(window) /\ Tail(window)[k] = window[k + 1]
OBVIOUS

\* Every message of the longer window is the new one or one of the old ones.
LEMMA PushedMessages ==
  ASSUME NEW S, NEW window \in Seq(S), NEW m \in S
  PROVE  \A k \in 1 .. Len(Pushed(window, m)) :
           \/ Pushed(window, m)[k] = m
           \/ \E j \in 1 .. Len(window) : Pushed(window, m)[k] = window[j]
<1>1. CASE Len(window) < Window
  <2>1. Pushed(window, m) = Append(window, m)
    BY <1>1 DEF Pushed
  <2>2. QED
    BY <2>1, AppendMessages
<1>2. CASE ~(Len(window) < Window)
  <2>1. window # <<>> /\ Pushed(window, m) = Append(Tail(window), m)
    BY <1>2 DEF Pushed
  <2>2. Tail(window) \in Seq(S)
    BY <2>1
  <2>3. \A k \in 1 .. Len(Append(Tail(window), m)) :
          \/ Append(Tail(window), m)[k] = m
          \/ \E j \in 1 .. Len(Tail(window)) : Append(Tail(window), m)[k] = Tail(window)[j]
    BY <2>2, AppendMessages
  <2>4. \A j \in 1 .. Len(Tail(window)) :
          j + 1 \in 1 .. Len(window) /\ Tail(window)[j] = window[j + 1]
    BY <2>1, TailMessages
  <2>5. QED
    BY <2>1, <2>3, <2>4
<1>3. QED
  BY <1>1, <1>2

\* Remainders by the ring size are ring positions.
LEMMA RingRemainder ==
  ASSUME NEW d \in Int
  PROVE  d % RingSize \in Pos
BY DEF Pos

\* Demoting relays only ever yields a set of relays.
LEMMA DemotingType ==
  ASSUME demoted \subseteq Pos, NEW relays \in SUBSET Pos, NEW D \in Demoting(relays)
  PROVE  D \subseteq Pos
BY DEF Demoting

\* Strikes are numbers: a report names finitely many current placements.
LEMMA StrikesType ==
  ASSUME PlacementTypeOK, NEW missing \in SUBSET Missing, NEW p
  PROVE  Strikes(missing, p) \in Nat
<1> DEFINE Entry(i) == [index |-> i, pos |-> placedPos[i], gen |-> gen[i]]
           Struck == {m \in Handled(missing) : m.pos = p}
           Indices == {i \in Chunks : Entry(i) \in Struck}
           f == [i \in Indices |-> Entry(i)]
<1>1. IsFiniteSet(Indices)
  <2>1. IsFiniteSet(Chunks)
    BY FS_Interval DEF Chunks
  <2>2. QED
    BY <2>1, FS_Subset
<1>2. \A m \in Struck : m.index \in Indices /\ m = Entry(m.index)
  <2>1. SUFFICES ASSUME NEW m \in Struck
                 PROVE  m.index \in Indices /\ m = Entry(m.index)
    OBVIOUS
  <2>2. m \in Missing /\ placedPos[m.index] = m.pos /\ gen[m.index] = m.gen
    BY DEF Handled, Current
  <2>3. m = Entry(m.index) /\ m.index \in Chunks
    BY <2>2 DEF Missing
  <2>4. QED
    BY <2>3
<1>3. f \in Surjection(Indices, Struck)
  BY <1>2 DEF Surjection
<1>4. IsFiniteSet(Struck)
  BY <1>1, <1>3, FS_Surjection
<1>5. Cardinality(Struck) \in Nat
  BY <1>4, FS_CardinalityType
<1>6. QED
  BY <1>5 DEF Strikes

-----------------------------------------------------------------------------
(* Variables that do not change keep their types *)

LEMMA PlacementUnchanged ==
  ASSUME PlacementTypeOK, UNCHANGED placementVars
  PROVE  PlacementTypeOK'
BY DEF PlacementTypeOK, placementVars

LEMMA ControlUnchanged ==
  ASSUME ControlTypeOK, UNCHANGED senderVars
  PROVE  ControlTypeOK'
BY DEF ControlTypeOK, senderVars

LEMMA ChannelUnchanged ==
  ASSUME ChannelTypeOK, UNCHANGED channelVars
  PROVE  ChannelTypeOK'
BY DEF ChannelTypeOK, channelVars

LEMMA CycleUnchanged ==
  ASSUME CycleTypeOK, UNCHANGED cycleVars
  PROVE  CycleTypeOK'
BY DEF CycleTypeOK, cycleVars

LEMMA ReceiverUnchanged ==
  ASSUME ReceiverTypeOK, UNCHANGED receiverVars
  PROVE  ReceiverTypeOK'
BY DEF ReceiverTypeOK, receiverVars

LEMMA LifecycleUnchanged ==
  ASSUME ChunkLifecycle, UNCHANGED placementVars
  PROVE  ChunkLifecycle'
BY DEF ChunkLifecycle, placementVars, Busy

-----------------------------------------------------------------------------
(* Types and the life of a chunk: the actions of the upload *)

StageInv == TypeOK /\ ChunkLifecycle /\ RetryBookkeeping

LEMMA BookkeepingUnchanged ==
  ASSUME RetryBookkeeping, UNCHANGED placementVars, sOutcome' = sOutcome \/ sFinished'
  PROVE  RetryBookkeeping'
BY DEF RetryBookkeeping, placementVars, Busy, Resending, sFinished

\* What a worker's step leaves alone keeps its type.
LEMMA UploadFrame ==
  ASSUME TypeOK, UNCHANGED <<channelVars, cycleVars, receiverVars>>
  PROVE  ChannelTypeOK' /\ CycleTypeOK' /\ ReceiverTypeOK'
BY ChannelUnchanged, CycleUnchanged, ReceiverUnchanged DEF TypeOK

LEMMA IdleType == Idle \in Task
BY DEF Idle, Task, Chunks, Pos

\* A worker gets a task, the others keep theirs.
LEMMA WorkerUpdated ==
  ASSUME PlacementTypeOK, NEW w \in Worker, NEW task \in Task,
         worker' = [worker EXCEPT ![w] = task]
  PROVE  /\ worker' \in [Worker -> Task]
         /\ \A v \in Worker : worker'[v] = IF v = w THEN task ELSE worker[v]
BY DEF PlacementTypeOK

LEMMA TakeRetryStage ==
  ASSUME StageInv, NEW w \in Worker, TakeRetry(w)
  PROVE  StageInv'
<1>1. PICK i \in retryQueue :
        /\ retryQueue' = retryQueue \ {i}
        /\ worker' = [worker EXCEPT ![w] =
                       [Idle EXCEPT !.at = "walk", !.index = i, !.retry = TRUE]]
  BY DEF TakeRetry
<1> DEFINE task == [Idle EXCEPT !.at = "walk", !.index = i, !.retry = TRUE]
<1>2. /\ i \in Chunks /\ i < nextChunk
  BY DEF StageInv, TypeOK, PlacementTypeOK, ChunkLifecycle, Chunks
<1>3. task \in Task /\ task.index = i /\ task.retry
  BY <1>2, IdleType DEF Idle, Task
<1>4. /\ worker' \in [Worker -> Task]
      /\ \A v \in Worker : worker'[v] = IF v = w THEN task ELSE worker[v]
  BY <1>1, <1>3, WorkerUpdated DEF StageInv, TypeOK
<1>5. UNCHANGED <<placedPos, gen, nextOffset, misses, giveUps, demoted, upto,
                  nextChunk, pendingRetry>>
  BY DEF TakeRetry
<1>6. PlacementTypeOK'
  BY <1>1, <1>4, <1>5 DEF StageInv, TypeOK, PlacementTypeOK
<1>7. ControlTypeOK' /\ ChannelTypeOK' /\ CycleTypeOK' /\ ReceiverTypeOK'
  BY UploadFrame, ControlUnchanged DEF TakeRetry, StageInv, TypeOK
<1>8. ChunkLifecycle'
  BY <1>1, <1>2, <1>3, <1>4, <1>5 DEF StageInv, ChunkLifecycle, Busy
<1>9. RetryBookkeeping'
  <2>1. /\ worker[w].at = "idle" /\ ~sFinished /\ sOutcome' = sOutcome
    BY DEF TakeRetry, senderVars
  <2>2. \A j \in Chunks : j \in pendingRetry <=>
          j \in retryQueue \/ \E v \in Worker : Resending(v) /\ worker[v].index = j
    BY <2>1 DEF StageInv, RetryBookkeeping
  <2>3. \A v \in Worker : Busy(v)' <=> v = w \/ Busy(v)
    BY <1>3, <1>4 DEF Busy, Idle
  <2>4. \A v \in Worker : Resending(v)' <=> v = w \/ (v # w /\ Resending(v))
    BY <1>3, <1>4, <2>3 DEF Resending
  <2>5. ~Busy(w)
    BY <2>1 DEF Busy
  <2>6. \A v \in Worker : Busy(v) => worker[v].index # i
    BY <1>1 DEF StageInv, RetryBookkeeping
  <2>7. \A j \in Chunks : j \in pendingRetry' <=>
          j \in retryQueue' \/ \E v \in Worker : Resending(v)' /\ worker'[v].index = j
    <3>1. ASSUME NEW j \in Chunks, j = i
          PROVE  /\ j \in pendingRetry'
                 /\ \E v \in Worker : Resending(v)' /\ worker'[v].index = j
      BY <1>1, <1>3, <1>4, <1>5, <2>2, <2>4, <3>1
    <3>2. ASSUME NEW j \in Chunks, j # i
          PROVE  /\ j \in retryQueue' <=> j \in retryQueue
                 /\ (\E v \in Worker : Resending(v)' /\ worker'[v].index = j)
                      <=> (\E v \in Worker : Resending(v) /\ worker[v].index = j)
      <4>1. \A v \in Worker : Resending(v) => v # w
        BY <2>5 DEF Resending
      <4>2. QED
        BY <1>1, <1>3, <1>4, <2>4, <3>2, <4>1
    <3>3. pendingRetry' = pendingRetry
      BY <1>5
    <3>4. QED
      BY <2>2, <3>1, <3>2, <3>3
  <2>8. \A v \in Worker : Busy(v)' => worker'[v].index \notin retryQueue'
    BY <1>1, <1>3, <1>4, <2>3 DEF StageInv, RetryBookkeeping
  <2>9. \A u, v \in Worker : Busy(u)' /\ Busy(v)' /\ u # v
                               => worker'[u].index # worker'[v].index
    <3>1. SUFFICES ASSUME NEW u \in Worker, NEW v \in Worker,
                          Busy(u)', Busy(v)', u # v
                   PROVE  worker'[u].index # worker'[v].index
      OBVIOUS
    <3>2. CASE u # w /\ v # w
      BY <1>4, <2>3, <3>1, <3>2 DEF StageInv, RetryBookkeeping
    <3>3. CASE u = w \/ v = w
      BY <1>3, <1>4, <2>3, <2>6, <3>1, <3>3
    <3>4. QED
      BY <3>2, <3>3
  <2>10. QED
    BY <2>7, <2>8, <2>9 DEF RetryBookkeeping
<1>10. QED
  BY <1>6, <1>7, <1>8, <1>9 DEF StageInv, TypeOK

LEMMA TakeNextStage ==
  ASSUME StageInv, NEW w \in Worker, TakeNext(w)
  PROVE  StageInv'
<1> DEFINE task == [Idle EXCEPT !.at = "walk", !.index = nextChunk]
<1>1. /\ nextChunk < Total /\ nextChunk' = nextChunk + 1
      /\ worker' = [worker EXCEPT ![w] = task]
      /\ UNCHANGED <<placedPos, gen, nextOffset, misses, giveUps, demoted, upto,
                     retryQueue, pendingRetry>>
  BY DEF TakeNext
<1>2. /\ nextChunk \in Chunks /\ nextChunk' \in 0 .. Total
      /\ placedPos[nextChunk] = -1
  BY <1>1 DEF StageInv, TypeOK, PlacementTypeOK, ChunkLifecycle, Chunks
<1>3. task \in Task /\ task.index = nextChunk
  BY <1>2, IdleType DEF Idle, Task
<1>4. /\ worker' \in [Worker -> Task]
      /\ \A v \in Worker : worker'[v] = IF v = w THEN task ELSE worker[v]
  BY <1>1, <1>3, WorkerUpdated DEF StageInv, TypeOK
<1>5. PlacementTypeOK'
  BY <1>1, <1>2, <1>4 DEF StageInv, TypeOK, PlacementTypeOK
<1>6. ControlTypeOK' /\ ChannelTypeOK' /\ CycleTypeOK' /\ ReceiverTypeOK'
  BY UploadFrame, ControlUnchanged DEF TakeNext, StageInv, TypeOK
<1>7. ChunkLifecycle'
  <2>1. \A j \in Chunks : j >= nextChunk' => placedPos'[j] = -1
    BY <1>1, <1>2 DEF StageInv, ChunkLifecycle, Chunks
  <2>2. ASSUME NEW v \in Worker, Busy(v)'
        PROVE  /\ worker'[v].index < nextChunk'
               /\ ~worker'[v].retry => placedPos'[worker'[v].index] = -1
    <3>1. CASE v = w
      BY <1>1, <1>2, <1>3, <1>4, <3>1 DEF Chunks
    <3>2. CASE v # w
      <4>1. worker'[v] = worker[v] /\ worker[v].index \in Chunks
        BY <1>4, <3>2 DEF StageInv, TypeOK, PlacementTypeOK, Task
      <4>2. /\ worker[v].index < nextChunk
            /\ ~worker[v].retry => placedPos[worker[v].index] = -1
        BY <2>2, <4>1 DEF StageInv, ChunkLifecycle, Busy
      <4>3. QED
        BY <1>1, <1>2, <4>1, <4>2 DEF Chunks
    <3>3. QED
      BY <3>1, <3>2
  <2>3. QED
    BY <1>1, <2>1, <2>2 DEF StageInv, ChunkLifecycle
<1>8. RetryBookkeeping'
  <2>1. worker[w].at = "idle" /\ ~sFinished /\ sOutcome' = sOutcome
    BY DEF TakeNext, senderVars
  <2>2. \A v \in Worker : Busy(v)' <=> v = w \/ Busy(v)
    BY <1>3, <1>4 DEF Busy, Idle
  <2>3. \A v \in Worker : Resending(v)' <=> Resending(v)
    BY <1>3, <1>4, <2>1 DEF Resending, Busy, Idle
  <2>4. \A v \in Worker : Busy(v) => worker[v].index < nextChunk /\ worker[v].index \in Chunks
    BY DEF StageInv, ChunkLifecycle, TypeOK, PlacementTypeOK, Task
  <2>5. \A v \in Worker : Busy(v) => worker[v].index # nextChunk
    BY <1>2, <2>4 DEF Chunks
  <2>6. nextChunk \notin retryQueue
    BY <1>2 DEF StageInv, ChunkLifecycle
  <2>7. ~Busy(w)
    BY <2>1 DEF Busy
  <2>8. \A v \in Worker : Resending(v) => v # w
    BY <2>7 DEF Resending
  <2>9. \A j \in Chunks : j \in pendingRetry' <=>
          j \in retryQueue' \/ \E v \in Worker : Resending(v)' /\ worker'[v].index = j
    BY <1>1, <1>4, <2>1, <2>3, <2>8 DEF StageInv, RetryBookkeeping
  <2>10. \A v \in Worker : Busy(v)' => worker'[v].index \notin retryQueue'
    BY <1>1, <1>3, <1>4, <2>2, <2>6 DEF StageInv, RetryBookkeeping
  <2>11. \A u, v \in Worker : Busy(u)' /\ Busy(v)' /\ u # v
                                => worker'[u].index # worker'[v].index
    BY <1>3, <1>4, <2>2, <2>5 DEF StageInv, RetryBookkeeping
  <2>12. QED
    BY <2>9, <2>10, <2>11 DEF RetryBookkeeping
<1>9. QED
  BY <1>5, <1>6, <1>7, <1>8 DEF StageInv, TypeOK

LEMMA TryRelayStage ==
  ASSUME StageInv, NEW w \in Worker, TryRelay(w)
  PROVE  StageInv'
<1>1. PICK pos \in Pos :
        /\ worker' = [worker EXCEPT ![w] =
                       [worker[w] EXCEPT !.at = "publish", !.pos = pos,
                                         !.tried = worker[w].tried \cup {pos}]]
        /\ nextOffset' = [nextOffset EXCEPT ![worker[w].index] =
                           NextOffset(worker[w].index, pos)]
  BY DEF TryRelay
<1> DEFINE task == [worker[w] EXCEPT !.at = "publish", !.pos = pos,
                                     !.tried = worker[w].tried \cup {pos}]
<1>2. worker[w] \in Task
  BY DEF StageInv, TypeOK, PlacementTypeOK
<1>3. /\ task \in Task /\ task.at = "publish"
      /\ task.index = worker[w].index /\ task.retry = worker[w].retry
  BY <1>2 DEF Task
<1>4. /\ worker' \in [Worker -> Task]
      /\ \A v \in Worker : worker'[v] = IF v = w THEN task ELSE worker[v]
  BY <1>1, <1>3, WorkerUpdated DEF StageInv, TypeOK
<1>5. /\ UNCHANGED <<placedPos, gen, misses, giveUps, demoted, upto, nextChunk,
                     retryQueue, pendingRetry, sOutcome>>
      /\ worker[w].at = "walk"
  BY DEF TryRelay, senderVars
<1>6. nextOffset' \in [Chunks -> Pos]
  <2>1. Distance(worker[w].index, pos) + 1 \in Int
    <3>1. pos - worker[w].index \in Int
      BY <1>2 DEF Task, Chunks, Pos
    <3>2. Distance(worker[w].index, pos) \in Pos
      BY <3>1, RingRemainder DEF Distance
    <3>3. QED
      BY <3>2 DEF Pos
  <2>2. NextOffset(worker[w].index, pos) \in Pos
    BY <2>1, RingRemainder DEF NextOffset
  <2>3. QED
    BY <1>1, <2>2 DEF StageInv, TypeOK, PlacementTypeOK
<1>7. PlacementTypeOK'
  BY <1>4, <1>5, <1>6 DEF StageInv, TypeOK, PlacementTypeOK
<1>8. ControlTypeOK' /\ ChannelTypeOK' /\ CycleTypeOK' /\ ReceiverTypeOK'
  BY UploadFrame, ControlUnchanged DEF TryRelay, StageInv, TypeOK
<1>9. \A v \in Worker : /\ Busy(v)' <=> Busy(v)
                        /\ Resending(v)' <=> Resending(v)
                        /\ worker'[v].index = worker[v].index
                        /\ worker'[v].retry = worker[v].retry
  BY <1>3, <1>4, <1>5 DEF Busy, Resending
<1>10. ChunkLifecycle' /\ RetryBookkeeping'
  <2>1. ChunkLifecycle'
    BY <1>5, <1>9 DEF StageInv, ChunkLifecycle
  <2>2. RetryBookkeeping'
    BY <1>5, <1>9 DEF StageInv, RetryBookkeeping, sFinished
  <2>3. QED
    BY <2>1, <2>2
<1>11. QED
  BY <1>7, <1>8, <1>10 DEF StageInv, TypeOK

\* A worker that drops its chunk.
LEMMA WorkerFreed ==
  ASSUME PlacementTypeOK, NEW w \in Worker, worker' = [worker EXCEPT ![w] = Idle]
  PROVE  /\ worker' \in [Worker -> Task]
         /\ \A v \in Worker : /\ v # w => worker'[v] = worker[v]
                              /\ Busy(v)' <=> v # w /\ Busy(v)
                              /\ Resending(v)' <=> v # w /\ Resending(v)
<1>1. /\ worker' \in [Worker -> Task]
      /\ \A v \in Worker : worker'[v] = IF v = w THEN Idle ELSE worker[v]
  BY IdleType, WorkerUpdated
<1>2. QED
  BY <1>1 DEF Busy, Resending, Idle

LEMMA PlacedStage ==
  ASSUME StageInv, NEW w \in Worker, Placed(w)
  PROVE  StageInv'
<1> DEFINE i == worker[w].index
<1>1. /\ worker[w].at = "publish"
      /\ worker' = [worker EXCEPT ![w] = Idle]
      /\ placedPos' = [placedPos EXCEPT ![i] = worker[w].pos]
      /\ gen' = [gen EXCEPT ![i] = GenOf(worker[w])]
      /\ pendingRetry' = IF worker[w].retry THEN pendingRetry \ {i} ELSE pendingRetry
      /\ upto' \in PlacedPrefixes(placedPos')
      /\ UNCHANGED <<nextOffset, misses, giveUps, demoted, nextChunk, retryQueue,
                     ring, loop, heard, sOutcome, sGone>>
  BY DEF Placed
<1>2. /\ worker[w] \in Task /\ i \in Chunks /\ worker[w].pos \in Pos
      /\ worker[w].retry \in BOOLEAN /\ gen[i] \in Nat
  BY DEF StageInv, TypeOK, PlacementTypeOK, Task
<1>3. /\ worker' \in [Worker -> Task]
      /\ \A v \in Worker : /\ v # w => worker'[v] = worker[v]
                           /\ Busy(v)' <=> v # w /\ Busy(v)
                           /\ Resending(v)' <=> v # w /\ Resending(v)
  BY <1>1, WorkerFreed DEF StageInv, TypeOK
<1>4. /\ placedPos' \in [Chunks -> Pos \cup {-1}] /\ placedPos'[i] # -1
      /\ \A j \in Chunks : j # i => placedPos'[j] = placedPos[j]
  BY <1>1, <1>2 DEF StageInv, TypeOK, PlacementTypeOK, Pos
<1>5. /\ gen' \in [Chunks -> Nat]
      /\ \A j \in Chunks : j # i => gen'[j] = gen[j]
  <2>1. GenOf(worker[w]) \in Nat
    BY <1>2 DEF GenOf
  <2>2. QED
    BY <1>1, <1>2, <2>1 DEF StageInv, TypeOK, PlacementTypeOK
<1>6. upto' \in 0 .. Total /\ \A j \in Chunks : j < upto' => placedPos'[j] # -1
  BY <1>1 DEF PlacedPrefixes
<1>7. PlacementTypeOK'
  BY <1>1, <1>3, <1>4, <1>5, <1>6 DEF StageInv, TypeOK, PlacementTypeOK
<1>8. ControlTypeOK' /\ ChannelTypeOK' /\ CycleTypeOK' /\ ReceiverTypeOK'
  <2>1. availDirty' \in BOOLEAN
    <3>1. \/ availDirty' = TRUE \/ availDirty' = FALSE
      BY <1>2 DEF Placed, StageInv, TypeOK, ControlTypeOK
    <3>2. QED
      BY <3>1
  <2>2. QED
    BY <1>1, <2>1, UploadFrame DEF Placed, StageInv, TypeOK, ControlTypeOK
<1>9. Busy(w) /\ i \notin retryQueue
  BY <1>1 DEF Busy, StageInv, RetryBookkeeping
<1>10. \A v \in Worker : Busy(v) /\ v # w => worker[v].index # i
  BY <1>9 DEF StageInv, RetryBookkeeping
<1>11. ChunkLifecycle'
  <2>1. \A j \in Chunks : /\ placedPos'[j] = -1 => gen'[j] = 0
                          /\ j >= nextChunk' => placedPos'[j] = -1
                          /\ j \in retryQueue' => placedPos'[j] # -1
    <3>1. i < nextChunk
      BY <1>9 DEF StageInv, ChunkLifecycle
    <3>2. ~(i >= nextChunk)
      BY <1>2, <3>1 DEF StageInv, TypeOK, PlacementTypeOK, Chunks
    <3>3. QED
      BY <1>1, <1>4, <1>5, <1>9, <3>2 DEF StageInv, ChunkLifecycle
  <2>2. \A v \in Worker : Busy(v)' =>
          /\ worker'[v].index < nextChunk'
          /\ ~worker'[v].retry => placedPos'[worker'[v].index] = -1
    <3>1. SUFFICES ASSUME NEW v \in Worker, Busy(v)'
                   PROVE  /\ worker'[v].index < nextChunk'
                          /\ ~worker'[v].retry => placedPos'[worker'[v].index] = -1
      OBVIOUS
    <3>2. v # w /\ Busy(v) /\ worker'[v] = worker[v]
      BY <1>3, <3>1
    <3>3. worker[v].index \in Chunks /\ worker[v].index # i
      BY <1>10, <3>2 DEF StageInv, TypeOK, PlacementTypeOK, Task
    <3>4. QED
      BY <1>1, <1>4, <3>2, <3>3 DEF StageInv, ChunkLifecycle
  <2>3. QED
    BY <1>6, <2>1, <2>2 DEF ChunkLifecycle
<1>12. RetryBookkeeping'
  <2>1. ~sFinished' => \A j \in Chunks : j \in pendingRetry' <=>
          j \in retryQueue' \/ \E v \in Worker : Resending(v)' /\ worker'[v].index = j
    <3>1. SUFFICES ASSUME ~sFinished', NEW j \in Chunks
                   PROVE  j \in pendingRetry' <=> \/ j \in retryQueue'
                            \/ \E v \in Worker : Resending(v)' /\ worker'[v].index = j
      OBVIOUS
    <3>2. j \in pendingRetry <=>
            j \in retryQueue \/ \E v \in Worker : Resending(v) /\ worker[v].index = j
      BY <1>1, <3>1 DEF StageInv, RetryBookkeeping, sFinished
    <3>3. (\E v \in Worker : Resending(v)' /\ worker'[v].index = j)
            <=> \E v \in Worker : v # w /\ Resending(v) /\ worker[v].index = j
      BY <1>3
    <3>4. Resending(w) <=> worker[w].retry
      BY <1>9 DEF Resending
    <3>5. \A v \in Worker : Resending(v) /\ v # w => worker[v].index # i
      BY <1>10 DEF Resending
    <3>6. CASE j = i
      BY <1>1, <1>9, <3>2, <3>3, <3>4, <3>5, <3>6
    <3>7. CASE j # i
      BY <1>1, <3>2, <3>3, <3>7
    <3>8. QED
      BY <3>6, <3>7
  <2>2. \A v \in Worker : Busy(v)' => worker'[v].index \notin retryQueue'
    BY <1>1, <1>3 DEF StageInv, RetryBookkeeping
  <2>3. \A u, v \in Worker : Busy(u)' /\ Busy(v)' /\ u # v
                               => worker'[u].index # worker'[v].index
    BY <1>3 DEF StageInv, RetryBookkeeping
  <2>4. QED
    BY <2>1, <2>2, <2>3 DEF RetryBookkeeping
<1>13. QED
  BY <1>7, <1>8, <1>11, <1>12 DEF StageInv, TypeOK

LEMMA RejectedStage ==
  ASSUME StageInv, NEW w \in Worker, Rejected(w)
  PROVE  StageInv'
<1> DEFINE task == [worker[w] EXCEPT !.at = "walk"]
<1>1. /\ worker[w].at = "publish"
      /\ giveUps' = [giveUps EXCEPT ![worker[w].pos] = giveUps[worker[w].pos] + 1]
      /\ worker' = [worker EXCEPT ![w] = task]
      /\ UNCHANGED <<placedPos, gen, nextOffset, misses, upto, nextChunk, retryQueue,
                     pendingRetry, sOutcome>>
  BY DEF Rejected, senderVars
<1>2. worker[w] \in Task /\ worker[w].pos \in Pos
  BY DEF StageInv, TypeOK, PlacementTypeOK, Task
<1>3. task \in Task /\ task.at = "walk" /\ task.index = worker[w].index
      /\ task.retry = worker[w].retry
  BY <1>2 DEF Task
<1>4. /\ worker' \in [Worker -> Task]
      /\ \A v \in Worker : worker'[v] = IF v = w THEN task ELSE worker[v]
  BY <1>1, <1>3, WorkerUpdated DEF StageInv, TypeOK
<1>5. giveUps' \in [Pos -> Nat] /\ demoted' \subseteq Pos
  <2>1. demoted \subseteq Pos /\ giveUps \in [Pos -> Nat]
    BY DEF StageInv, TypeOK, PlacementTypeOK
  <2>2. demoted' \in Demoting({worker[w].pos}) \/ demoted' = demoted
    BY DEF Rejected
  <2>3. demoted' \subseteq Pos
    BY <1>2, <2>1, <2>2, DemotingType
  <2>4. QED
    BY <1>1, <1>2, <2>1, <2>3
<1>6. PlacementTypeOK'
  BY <1>1, <1>4, <1>5 DEF StageInv, TypeOK, PlacementTypeOK
<1>7. ControlTypeOK' /\ ChannelTypeOK' /\ CycleTypeOK' /\ ReceiverTypeOK'
  BY UploadFrame, ControlUnchanged DEF Rejected, StageInv, TypeOK
<1>8. \A v \in Worker : /\ Busy(v)' <=> Busy(v)
                        /\ Resending(v)' <=> Resending(v)
                        /\ worker'[v].index = worker[v].index
                        /\ worker'[v].retry = worker[v].retry
  BY <1>1, <1>3, <1>4 DEF Busy, Resending
<1>9. ChunkLifecycle'
  BY <1>1, <1>8 DEF StageInv, ChunkLifecycle
<1>10. RetryBookkeeping'
  BY <1>1, <1>8 DEF StageInv, RetryBookkeeping, sFinished
<1>11. QED
  BY <1>6, <1>7, <1>9, <1>10 DEF StageInv, TypeOK

LEMMA WalkEndsStage ==
  ASSUME StageInv, NEW w \in Worker, WalkEnds(w) \/ WorkerCancelled(w)
  PROVE  StageInv'
<1>1. /\ worker' = [worker EXCEPT ![w] = Idle]
      /\ sOutcome' = Failing("unplaceable") \/ sOutcome' = Failing("stopped")
      /\ UNCHANGED <<placedPos, gen, nextOffset, misses, giveUps, demoted, upto,
                     nextChunk, retryQueue, pendingRetry, ring, availDirty, loop,
                     heard, sGone>>
  BY DEF WalkEnds, WorkerCancelled
<1>2. /\ worker' \in [Worker -> Task]
      /\ \A v \in Worker : /\ v # w => worker'[v] = worker[v]
                           /\ Busy(v)' <=> v # w /\ Busy(v)
                           /\ Resending(v)' <=> v # w /\ Resending(v)
  BY <1>1, WorkerFreed DEF StageInv, TypeOK
<1>3. PlacementTypeOK'
  BY <1>1, <1>2 DEF StageInv, TypeOK, PlacementTypeOK
<1>4. ControlTypeOK'
  BY <1>1 DEF StageInv, TypeOK, ControlTypeOK, Failing
<1>5. ChannelTypeOK' /\ CycleTypeOK' /\ ReceiverTypeOK'
  BY UploadFrame DEF WalkEnds, WorkerCancelled, StageInv
<1>6. ChunkLifecycle'
  BY <1>1, <1>2 DEF StageInv, ChunkLifecycle
<1>7. RetryBookkeeping'
  <2>1. sFinished'
    BY <1>1 DEF Failing, sFinished
  <2>2. QED
    BY <1>1, <1>2, <2>1 DEF StageInv, RetryBookkeeping
<1>8. QED
  BY <1>3, <1>4, <1>5, <1>6, <1>7 DEF StageInv, TypeOK

-----------------------------------------------------------------------------
(* Types: the control channel *)

\* Every message sent is a message.
LEMMA MessageTypes ==
  /\ SenderCancel \in SenderMessage
  /\ \A t \in {"hello", "done", "cancel"} : Plain(t) \in ReceiverMessage
  /\ EmptyView \in View
<1>1. EmptyView \in View
  BY DEF EmptyView, View, Places
<1>2. SenderCancel \in SenderMessage
  BY DEF SenderCancel, SenderMessage
<1>3. \A t \in {"hello", "done", "cancel"} : Plain(t) \in ReceiverMessage
  BY DEF Plain, ReceiverMessage
<1>4. QED
  BY <1>1, <1>2, <1>3

\* An announcement says where every chunk below upto is: none of them is unplaced.
LEMMA AnnouncementType ==
  ASSUME StageInv
  PROVE  Announcement \in SenderMessage
<1> DEFINE place == [i \in Chunks |->
                       IF i < upto THEN [pos |-> placedPos[i], gen |-> gen[i]]
                                   ELSE NoPlacement]
<1>1. \A i \in Chunks : i < upto => [pos |-> placedPos[i], gen |-> gen[i]] \in Placement
  BY DEF StageInv, TypeOK, PlacementTypeOK, ChunkLifecycle, Placement
<1>2. place \in Places
  BY <1>1 DEF Places
<1>3. [upto |-> upto, place |-> place] \in View
  BY <1>2 DEF View, StageInv, TypeOK, PlacementTypeOK
<1>4. (ring = "ready") \in BOOLEAN
  OBVIOUS
<1>5. QED
  BY <1>3, <1>4 DEF Announcement, SenderMessage

LEMMA SenderSendsType ==
  ASSUME ChannelTypeOK, NEW m \in SenderMessage, SenderSends(m)
  PROVE  ChannelTypeOK'
<1>1. /\ s2r \in Seq(SenderMessage) /\ Len(s2r) <= Window /\ lastSenderN \in 0 .. Len(s2r)
  BY DEF ChannelTypeOK
<1>2. /\ Pushed(s2r, m) \in Seq(SenderMessage) /\ Len(Pushed(s2r, m)) <= Window
      /\ Shifted(s2r, lastSenderN) \in 0 .. Len(Pushed(s2r, m))
  BY <1>1, PushedType
<1>3. QED
  BY <1>2 DEF ChannelTypeOK, SenderSends

LEMMA ReceiverSendsType ==
  ASSUME ChannelTypeOK, NEW m \in ReceiverMessage, ReceiverSends(m)
  PROVE  ChannelTypeOK'
<1>1. /\ r2s \in Seq(ReceiverMessage) /\ Len(r2s) <= Window /\ lastPeerN \in 0 .. Len(r2s)
  BY DEF ChannelTypeOK
<1>2. /\ Pushed(r2s, m) \in Seq(ReceiverMessage) /\ Len(Pushed(r2s, m)) <= Window
      /\ Shifted(r2s, lastPeerN) \in 0 .. Len(Pushed(r2s, m))
  BY <1>1, PushedType
<1>3. QED
  BY <1>2 DEF ChannelTypeOK, ReceiverSends

\* Steps that leave the placement of chunks alone.
LEMMA StageFrame ==
  ASSUME StageInv, UNCHANGED placementVars, sOutcome' = sOutcome \/ sFinished'
  PROVE  PlacementTypeOK' /\ ChunkLifecycle' /\ RetryBookkeeping'
BY PlacementUnchanged, LifecycleUnchanged, BookkeepingUnchanged DEF StageInv, TypeOK

-----------------------------------------------------------------------------
(* Types: the sender's control actions *)

LEMMA SenderControlStage ==
  ASSUME StageInv,
         \/ ManifestPublished \/ ManifestAccepted \/ ManifestRefused
         \/ RingArrives \/ RingFails
         \/ Announce \/ AnnounceAccepted \/ AnnounceRefused \/ LoopEnds
         \/ SenderStops \/ SenderIdleTimeout \/ SenderLeaves
  PROVE  StageInv'
<1> USE DEF senderVars
<1>1. CASE ManifestPublished
  <2>1. ControlTypeOK' /\ ChannelTypeOK'
    BY <1>1 DEF ManifestPublished, StageInv, TypeOK, ControlTypeOK, ChannelTypeOK
  <2>2. QED
    BY <1>1, <2>1, StageFrame, CycleUnchanged, ReceiverUnchanged
       DEF ManifestPublished, StageInv, TypeOK
<1>2. CASE ManifestAccepted
  <2>1. ControlTypeOK'
    BY <1>2 DEF ManifestAccepted, StageInv, TypeOK, ControlTypeOK
  <2>2. QED
    BY <1>2, <2>1, StageFrame, UploadFrame DEF ManifestAccepted, StageInv, TypeOK
<1>3. CASE ManifestRefused
  <2>1. ControlTypeOK' /\ sFinished'
    BY <1>3 DEF ManifestRefused, StageInv, TypeOK, ControlTypeOK, Failing, sFinished
  <2>2. QED
    BY <1>3, <2>1, StageFrame, UploadFrame DEF ManifestRefused, StageInv, TypeOK
<1>4. CASE RingArrives
  <2>1. ControlTypeOK'
    BY <1>4 DEF RingArrives, StageInv, TypeOK, ControlTypeOK, sFinished
  <2>2. QED
    BY <1>4, <2>1, StageFrame, UploadFrame DEF RingArrives, StageInv, TypeOK
<1>5. CASE RingFails
  <2>1. ControlTypeOK' /\ sFinished'
    BY <1>5 DEF RingFails, StageInv, TypeOK, ControlTypeOK, Failing, sFinished
  <2>2. QED
    BY <1>5, <2>1, StageFrame, UploadFrame DEF RingFails, StageInv, TypeOK
<1>6. CASE Announce
  <2>1. ControlTypeOK'
    BY <1>6 DEF Announce, StageInv, TypeOK, ControlTypeOK
  <2>2. ChannelTypeOK'
    BY <1>6, AnnouncementType, SenderSendsType DEF Announce, StageInv, TypeOK
  <2>3. QED
    BY <1>6, <2>1, <2>2, StageFrame, CycleUnchanged, ReceiverUnchanged
       DEF Announce, StageInv, TypeOK
<1>7. CASE AnnounceAccepted
  <2>1. ControlTypeOK'
    BY <1>7 DEF AnnounceAccepted, StageInv, TypeOK, ControlTypeOK
  <2>2. QED
    BY <1>7, <2>1, StageFrame, UploadFrame DEF AnnounceAccepted, StageInv, TypeOK
<1>8. CASE AnnounceRefused
  <2>1. ControlTypeOK' /\ sFinished'
    BY <1>8 DEF AnnounceRefused, StageInv, TypeOK, ControlTypeOK, Failing, sFinished
  <2>2. QED
    BY <1>8, <2>1, StageFrame, UploadFrame DEF AnnounceRefused, StageInv, TypeOK
<1>9. CASE LoopEnds
  <2>1. ControlTypeOK'
    BY <1>9 DEF LoopEnds, StageInv, TypeOK, ControlTypeOK
  <2>2. QED
    BY <1>9, <2>1, StageFrame, UploadFrame DEF LoopEnds, StageInv, TypeOK
<1>10. CASE SenderStops
  <2>1. ControlTypeOK' /\ sFinished'
    BY <1>10 DEF SenderStops, StageInv, TypeOK, ControlTypeOK, sFinished
  <2>2. QED
    BY <1>10, <2>1, StageFrame, UploadFrame DEF SenderStops, StageInv, TypeOK
<1>11. CASE SenderIdleTimeout
  <2>1. ControlTypeOK' /\ sFinished'
    BY <1>11 DEF SenderIdleTimeout, StageInv, TypeOK, ControlTypeOK, sFinished
  <2>2. QED
    BY <1>11, <2>1, StageFrame, UploadFrame DEF SenderIdleTimeout, StageInv, TypeOK
<1>12. CASE SenderLeaves
  <2>1. ControlTypeOK'
    BY <1>12 DEF SenderLeaves, StageInv, TypeOK, ControlTypeOK
  <2>2. ChannelTypeOK'
    <3>1. UNCHANGED channelVars \/ SenderSends(SenderCancel)
      BY <1>12 DEF SenderLeaves
    <3>2. QED
      BY <3>1, MessageTypes, SenderSendsType, ChannelUnchanged DEF StageInv, TypeOK
  <2>3. QED
    BY <1>12, <2>1, <2>2, StageFrame, CycleUnchanged, ReceiverUnchanged
       DEF SenderLeaves, StageInv, TypeOK
<1>13. QED
  BY <1>1, <1>2, <1>3, <1>4, <1>5, <1>6, <1>7, <1>8, <1>9, <1>10, <1>11, <1>12

\* A report moves chunks from placed to queued; the sender was running, so exactly
\* the chunks in pendingRetry were on their way already.
LEMMA HandleAckStage ==
  ASSUME StageInv, ~sFinished, NEW missing \in SUBSET Missing, HandleAck(missing)
  PROVE  PlacementTypeOK' /\ ChunkLifecycle' /\ RetryBookkeeping'
<1>1. /\ retryQueue' = retryQueue \cup Requeued(missing)
      /\ pendingRetry' = pendingRetry \cup Requeued(missing)
      /\ UNCHANGED <<placedPos, gen, nextOffset, giveUps, upto, nextChunk, worker>>
  BY DEF HandleAck
<1>2. \A i \in Requeued(missing) : i \in Chunks /\ placedPos[i] # -1 /\ i \notin pendingRetry
  BY DEF Requeued, Handled, Current, Missing, Pos
<1>3. misses' \in [Pos -> Nat]
  <2>1. misses' = [p \in Pos |-> misses[p] + Strikes(missing, p)]
    BY DEF HandleAck
  <2>2. \A p \in Pos : misses[p] \in Nat /\ Strikes(missing, p) \in Nat
    BY StrikesType DEF StageInv, TypeOK, PlacementTypeOK
  <2>3. QED
    BY <2>1, <2>2
<1>4. demoted' \subseteq Pos
  <2> DEFINE condemned == {p \in Pos : Strikes(missing, p) > 0 /\ misses'[p] >= DemoteMisses}
  <2>1. demoted' \in Demoting(condemned)
    BY DEF HandleAck
  <2>2. condemned \in SUBSET Pos
    OBVIOUS
  <2>3. QED
    BY <2>1, <2>2, DemotingType DEF StageInv, TypeOK, PlacementTypeOK
<1>5. PlacementTypeOK'
  BY <1>1, <1>2, <1>3, <1>4 DEF StageInv, TypeOK, PlacementTypeOK
<1>6. ChunkLifecycle'
  BY <1>1, <1>2 DEF StageInv, ChunkLifecycle, Busy
<1>7. RetryBookkeeping'
  <2>1. \A j \in Chunks : j \in pendingRetry <=>
          j \in retryQueue \/ \E v \in Worker : Resending(v) /\ worker[v].index = j
    BY DEF StageInv, RetryBookkeeping
  <2>2. \A v \in Worker : (Busy(v)' <=> Busy(v)) /\ (Resending(v)' <=> Resending(v))
    BY <1>1 DEF Busy, Resending
  <2>3. \A j \in Chunks : j \in pendingRetry' <=>
          j \in retryQueue' \/ \E v \in Worker : Resending(v)' /\ worker'[v].index = j
    BY <1>1, <2>1, <2>2
  <2>4. ASSUME NEW v \in Worker, Busy(v)
        PROVE  worker[v].index \notin Requeued(missing)
    <3>1. worker[v].index \in Chunks /\ worker[v].retry \in BOOLEAN
      BY DEF StageInv, TypeOK, PlacementTypeOK, Task
    <3>2. CASE worker[v].retry
      BY <1>2, <2>1, <2>4, <3>1, <3>2 DEF Resending
    <3>3. CASE ~worker[v].retry
      BY <1>2, <2>4, <3>3 DEF StageInv, ChunkLifecycle
    <3>4. QED
      BY <3>2, <3>3
  <2>5. \A v \in Worker : Busy(v)' => worker'[v].index \notin retryQueue'
    BY <1>1, <2>2, <2>4 DEF StageInv, RetryBookkeeping
  <2>6. QED
    BY <1>1, <2>2, <2>3, <2>5 DEF StageInv, RetryBookkeeping
<1>8. QED
  BY <1>5, <1>6, <1>7

LEMMA SenderHearsStage ==
  ASSUME StageInv, SenderHears
  PROVE  StageInv'
<1>1. PICK k \in FreshForSender :
        /\ lastPeerN' = k
        /\ \/ /\ r2s[k].t = "hello"
              /\ availDirty' = TRUE
              /\ UNCHANGED <<placementVars, sOutcome>>
           \/ /\ r2s[k].t = "ack"
              /\ HandleAck(r2s[k].missing)
           \/ /\ r2s[k].t = "done"
              /\ sOutcome' = "ok"
              /\ UNCHANGED <<placementVars, availDirty>>
           \/ /\ r2s[k].t = "cancel"
              /\ sOutcome' = "peer cancelled"
              /\ UNCHANGED <<placementVars, availDirty>>
  BY DEF SenderHears
<1>2. /\ ~sFinished /\ heard' = TRUE
      /\ UNCHANGED <<ring, loop, sGone, manifest, s2r, lastSenderN, r2s>>
      /\ UNCHANGED <<cycleVars, receiverVars>>
  BY DEF SenderHears
<1>3. k \in 1 .. Len(r2s) /\ r2s[k] \in ReceiverMessage
  BY DEF FreshForSender, StageInv, TypeOK, ChannelTypeOK
<1>4. ChannelTypeOK' /\ CycleTypeOK' /\ ReceiverTypeOK'
  <2>1. lastPeerN' = k
    BY <1>1
  <2>2. k \in 0 .. Len(r2s)
    BY <1>3 DEF StageInv, TypeOK, ChannelTypeOK
  <2>3. ChannelTypeOK'
    BY <1>2, <2>1, <2>2 DEF StageInv, TypeOK, ChannelTypeOK
  <2>4. QED
    BY <1>2, <2>3, CycleUnchanged, ReceiverUnchanged DEF StageInv, TypeOK
<1>5. PlacementTypeOK' /\ ChunkLifecycle' /\ RetryBookkeeping'
  <2>1. CASE r2s[k].t = "ack" /\ HandleAck(r2s[k].missing)
    <3>1. r2s[k].missing \in SUBSET Missing
      BY <1>3 DEF ReceiverMessage
    <3>2. QED
      BY <1>2, <2>1, <3>1, HandleAckStage
  <2>2. CASE UNCHANGED placementVars /\ (sOutcome' = sOutcome \/ sFinished')
    BY <2>2, StageFrame
  <2>3. QED
    BY <1>1, <2>1, <2>2 DEF sFinished
<1>6. ControlTypeOK'
  BY <1>1, <1>2 DEF StageInv, TypeOK, ControlTypeOK, HandleAck
<1>7. QED
  BY <1>4, <1>5, <1>6 DEF StageInv, TypeOK

LEMMA LoseStage ==
  ASSUME StageInv, Lose
  PROVE  StageInv'
<1>1. ChannelTypeOK'
  <2>1. ChannelTypeOK
    BY DEF StageInv, TypeOK
  <2>2. \A S : <<>> \in Seq(S) /\ Len(<<>>) = 0 /\ Len(<<>>) <= Window
    OBVIOUS
  <2>3. CASE s2r' = <<>> /\ lastSenderN' = 0 /\ UNCHANGED <<manifest, r2s, lastPeerN>>
    BY <2>1, <2>2, <2>3 DEF ChannelTypeOK
  <2>4. CASE r2s' = <<>> /\ lastPeerN' = 0 /\ UNCHANGED <<manifest, s2r, lastSenderN>>
    BY <2>1, <2>2, <2>4 DEF ChannelTypeOK
  <2>5. CASE manifest' = "lost" /\ UNCHANGED <<s2r, lastSenderN, r2s, lastPeerN>>
    BY <2>1, <2>5 DEF ChannelTypeOK
  <2>6. QED
    BY <2>3, <2>4, <2>5 DEF Lose
<1>2. PlacementTypeOK' /\ ChunkLifecycle' /\ RetryBookkeeping'
  BY StageFrame DEF Lose, senderVars
<1>3. QED
  BY <1>1, <1>2, ControlUnchanged, CycleUnchanged, ReceiverUnchanged DEF Lose, StageInv, TypeOK

-----------------------------------------------------------------------------
(* Types: the receiver's actions *)

LEMMA BeginCycleType ==
  ASSUME CycleTypeOK, NEW v \in View, BeginCycle(v)
  PROVE  CycleTypeOK'
<1>1. \A i \in Chunks : v.place[i] \in Placement \cup {NoPlacement}
  BY DEF View, Places
<1>2. tried' \in Places
  BY <1>1 DEF BeginCycle, Places
<1>3. QED
  BY <1>2 DEF BeginCycle, CycleTypeOK

LEMMA ScheduleCycleType ==
  ASSUME CycleTypeOK, NEW v \in View, ScheduleCycle(v)
  PROVE  CycleTypeOK'
<1>1. CASE cycle = "idle"
  BY <1>1, BeginCycleType DEF ScheduleCycle
<1>2. CASE cycle # "idle"
  BY <1>2 DEF ScheduleCycle, CycleTypeOK
<1>3. QED
  BY <1>1, <1>2

\* A report names placements: what was last tried and is not blank.
LEMMA FetchEndsReport ==
  ASSUME TypeOK, FetchEnds
  PROVE  /\ lastTried' \in Places /\ got' \subseteq Chunks
         /\ \/ UNCHANGED channelVars
            \/ \E report \in SUBSET Missing : ReceiverSends([t |-> "ack", missing |-> report])
<1>1. PICK read \in SUBSET {i \in Chunks : tried[i] # NoPlacement} :
        /\ got' = got \cup read
        /\ lastTried' = [i \in Chunks |->
                           IF tried[i] # NoPlacement /\ i \notin got'
                             THEN tried[i] ELSE lastTried[i]]
  BY DEF FetchEnds
<1>2. lastTried' \in Places /\ got' \subseteq Chunks
  BY <1>1 DEF TypeOK, CycleTypeOK, Places
<1> DEFINE Entry(i) == [index |-> i, pos |-> BlameTried(lastTried', i).pos,
                        gen |-> BlameTried(lastTried', i).gen]
           report == {Entry(i) : i \in {j \in Chunks : /\ j < view.upto /\ j \notin got'
                                                       /\ lastTried'[j] # NoPlacement}}
<1>3. UNCHANGED channelVars \/ ReceiverSends([t |-> "ack", missing |-> report])
  BY DEF FetchEnds
<1>4. \A i \in Chunks : lastTried'[i] # NoPlacement => Entry(i) \in Missing
  <2>1. \A i \in Chunks : lastTried'[i] # NoPlacement => lastTried'[i] \in Placement
    BY <1>2 DEF Places
  <2>2. QED
    BY <2>1 DEF Placement, Missing, BlameTried
<1>5. report \in SUBSET Missing
  BY <1>4
<1> HIDE DEF report
<1>6. QED
  BY <1>2, <1>3, <1>5

LEMMA FetchEndsType ==
  ASSUME TypeOK, FetchEnds
  PROVE  CycleTypeOK' /\ ChannelTypeOK'
<1>1. CycleTypeOK'
  BY FetchEndsReport DEF FetchEnds, TypeOK, CycleTypeOK, Places
<1>2. ChannelTypeOK'
  <2>1. \A report \in SUBSET Missing : [t |-> "ack", missing |-> report] \in ReceiverMessage
    BY DEF ReceiverMessage
  <2>2. QED
    BY <2>1, FetchEndsReport, ReceiverSendsType, ChannelUnchanged DEF TypeOK
<1>3. QED
  BY <1>1, <1>2

LEMMA ReceiverStage ==
  ASSUME StageInv, Receiver
  PROVE  StageInv'
<1> USE DEF receiverVars
<1>1. UNCHANGED <<placementVars, senderVars>>
  BY DEF Receiver, HelloAccepted, HelloRefused, ReadManifest, ReceiverHears,
         RetryClock, FetchEnds, AckAccepted, AckRefused, DoneSettles,
         ReceiverStops, ReceiverLeaves
<1>2. PlacementTypeOK' /\ ControlTypeOK' /\ ChunkLifecycle' /\ RetryBookkeeping'
  BY <1>1, StageFrame, ControlUnchanged DEF StageInv, TypeOK, senderVars
<1>3. CASE HelloAccepted \/ HelloRefused \/ ReceiverStops
  <2>1. ReceiverTypeOK'
    BY <1>3 DEF HelloAccepted, HelloRefused, ReceiverStops, StageInv, TypeOK, ReceiverTypeOK
  <2>2. ChannelTypeOK' /\ CycleTypeOK'
    BY <1>3, ChannelUnchanged, CycleUnchanged
       DEF HelloAccepted, HelloRefused, ReceiverStops, StageInv, TypeOK
  <2>3. QED
    BY <1>2, <2>1, <2>2 DEF StageInv, TypeOK
<1>4. CASE ReadManifest
  <2>1. ChannelTypeOK'
    BY <1>4 DEF ReadManifest, StageInv, TypeOK, ChannelTypeOK
  <2>2. QED
    BY <1>2, <1>4, <2>1, CycleUnchanged, ReceiverUnchanged DEF ReadManifest, StageInv, TypeOK
<1>5. CASE ReceiverHears
  <2>1. PICK k \in FreshForReceiver :
          /\ lastSenderN' = k
          /\ \/ /\ s2r[k].t = "avail" /\ manifest = "read"
                /\ view' = s2r[k].view
                /\ ringKnown' = (ringKnown \/ s2r[k].ring)
                /\ IF ringKnown' /\ s2r[k].view.upto > 0
                     THEN ScheduleCycle(s2r[k].view) ELSE UNCHANGED cycleVars
                /\ UNCHANGED rOutcome
             \/ /\ s2r[k].t = "cancel"
                /\ rOutcome' = "failed"
                /\ UNCHANGED <<view, ringKnown, cycleVars>>
    BY <1>5 DEF ReceiverHears
  <2>2. s2r[k] \in SenderMessage /\ k \in 0 .. Len(s2r)
    BY DEF FreshForReceiver, StageInv, TypeOK, ChannelTypeOK
  <2>3. s2r[k].view \in View /\ s2r[k].ring \in BOOLEAN
    BY <2>2, MessageTypes DEF SenderMessage
  <2>4. ChannelTypeOK'
    BY <1>5, <2>1, <2>2 DEF ReceiverHears, StageInv, TypeOK, ChannelTypeOK
  <2>5. CycleTypeOK'
    BY <2>1, <2>3, ScheduleCycleType, CycleUnchanged DEF StageInv, TypeOK
  <2>6. ringKnown' \in BOOLEAN /\ view' \in View /\ rOutcome' \in {"open", "ok", "failed"}
    BY <2>1, <2>3 DEF StageInv, TypeOK, ReceiverTypeOK
  <2>7. rMain' = rMain
    BY <1>5 DEF ReceiverHears
  <2>8. ReceiverTypeOK'
    BY <2>6, <2>7 DEF StageInv, TypeOK, ReceiverTypeOK
  <2>9. QED
    BY <1>2, <2>4, <2>5, <2>8 DEF StageInv, TypeOK
<1>6. CASE RetryClock
  <2>1. CycleTypeOK'
    BY <1>6, BeginCycleType DEF RetryClock, StageInv, TypeOK, ReceiverTypeOK
  <2>2. QED
    BY <1>2, <1>6, <2>1, ChannelUnchanged, ReceiverUnchanged DEF RetryClock, StageInv, TypeOK
<1>7. CASE FetchEnds
  <2>1. CycleTypeOK' /\ ChannelTypeOK'
    BY <1>7, FetchEndsType DEF StageInv
  <2>2. QED
    BY <1>2, <1>7, <2>1, ReceiverUnchanged DEF FetchEnds, StageInv, TypeOK
<1>8. CASE AckAccepted
  <2>1. ReceiverTypeOK'
    <3>1. rOutcome' \in {"open", "ok", "failed"}
      BY <1>8 DEF AckAccepted, Settling, StageInv, TypeOK, ReceiverTypeOK
    <3>2. UNCHANGED <<ringKnown, view, rMain>>
      BY <1>8 DEF AckAccepted
    <3>3. QED
      BY <3>1, <3>2 DEF StageInv, TypeOK, ReceiverTypeOK
  <2>2. CASE /\ cycle' = "finishing" /\ ReceiverSends(Plain("done"))
             /\ UNCHANGED <<lastTried, tried, got, cyclePending>>
    <3>1. ChannelTypeOK' /\ CycleTypeOK'
      BY <2>2, MessageTypes, ReceiverSendsType DEF StageInv, TypeOK, CycleTypeOK
    <3>2. QED
      BY <1>2, <2>1, <3>1 DEF StageInv, TypeOK
  <2>3. CASE BeginCycle(view) /\ UNCHANGED channelVars
    <3>1. ChannelTypeOK' /\ CycleTypeOK'
      BY <2>3, BeginCycleType, ChannelUnchanged DEF StageInv, TypeOK, ReceiverTypeOK
    <3>2. QED
      BY <1>2, <2>1, <3>1 DEF StageInv, TypeOK
  <2>4. CASE /\ cycle' = "idle" /\ UNCHANGED channelVars
             /\ UNCHANGED <<lastTried, tried, got, cyclePending>>
    <3>1. ChannelTypeOK' /\ CycleTypeOK'
      BY <2>4, ChannelUnchanged DEF StageInv, TypeOK, CycleTypeOK
    <3>2. QED
      BY <1>2, <2>1, <3>1 DEF StageInv, TypeOK
  <2>5. QED
    BY <1>8, <2>2, <2>3, <2>4 DEF AckAccepted
<1>9. CASE AckRefused
  <2>1. CycleTypeOK' /\ ReceiverTypeOK'
    BY <1>9 DEF AckRefused, Settling, StageInv, TypeOK, CycleTypeOK, ReceiverTypeOK
  <2>2. QED
    BY <1>2, <1>9, <2>1, ChannelUnchanged DEF AckRefused, StageInv, TypeOK
<1>10. CASE DoneSettles
  <2>1. CycleTypeOK'
    BY <1>10 DEF DoneSettles, StageInv, TypeOK, CycleTypeOK
  <2>2. QED
    BY <1>2, <1>10, <2>1, ChannelUnchanged, ReceiverUnchanged DEF DoneSettles, StageInv, TypeOK
<1>11. CASE ReceiverLeaves
  <2>1. ReceiverTypeOK'
    BY <1>11 DEF ReceiverLeaves, StageInv, TypeOK, ReceiverTypeOK
  <2>2. UNCHANGED channelVars \/ ReceiverSends(Plain("cancel"))
    BY <1>11 DEF ReceiverLeaves
  <2>3. ChannelTypeOK'
    BY <2>2, MessageTypes, ReceiverSendsType, ChannelUnchanged DEF StageInv, TypeOK
  <2>4. QED
    BY <1>2, <1>11, <2>1, <2>3, CycleUnchanged DEF ReceiverLeaves, StageInv, TypeOK
<1>12. QED
  BY <1>3, <1>4, <1>5, <1>6, <1>7, <1>8, <1>9, <1>10, <1>11 DEF Receiver

-----------------------------------------------------------------------------
(* Types and the life of a chunk: the theorem *)

LEMMA StageInit == Init => StageInv
<1> SUFFICES ASSUME Init PROVE StageInv
  OBVIOUS
<1>1. PlacementTypeOK
  BY IdleType DEF Init, PlacementTypeOK, Chunks, Pos
<1>2. ControlTypeOK
  BY DEF Init, ControlTypeOK
<1>3. ChannelTypeOK
  <2>1. Plain("hello") \in ReceiverMessage
    BY MessageTypes
  <2>2. r2s = <<Plain("hello")>> /\ Len(r2s) = 1 /\ r2s \in Seq(ReceiverMessage)
    BY <2>1 DEF Init
  <2>3. QED
    BY <2>2 DEF Init, ChannelTypeOK
<1>4. CycleTypeOK /\ ReceiverTypeOK
  BY MessageTypes DEF Init, CycleTypeOK, ReceiverTypeOK, Places
<1>5. ChunkLifecycle /\ RetryBookkeeping
  BY DEF Init, ChunkLifecycle, RetryBookkeeping, Busy, Resending, Idle, Chunks
<1>6. QED
  BY <1>1, <1>2, <1>3, <1>4, <1>5 DEF StageInv, TypeOK

LEMMA StageNext == StageInv /\ [Next]_vars => StageInv'
<1> SUFFICES ASSUME StageInv, [Next]_vars PROVE StageInv'
  OBVIOUS
<1>1. CASE Upload
  BY <1>1, TakeRetryStage, TakeNextStage, TryRelayStage, PlacedStage, RejectedStage,
     WalkEndsStage DEF Upload
<1>2. CASE SenderControl
  BY <1>2, SenderControlStage, SenderHearsStage DEF SenderControl
<1>3. CASE Receiver
  BY <1>3, ReceiverStage
<1>4. CASE Lose
  BY <1>4, LoseStage
<1>5. CASE UNCHANGED vars
  BY <1>5, StageFrame, ControlUnchanged, ChannelUnchanged, CycleUnchanged,
     ReceiverUnchanged DEF vars, senderVars, StageInv, TypeOK
<1>6. QED
  BY <1>1, <1>2, <1>3, <1>4, <1>5 DEF Next, Over

\* Every reachable state is well typed, whatever the number of chunks, relays and
\* workers; chunks are placed in order and for good; and a chunk reported missing
\* is queued once and carried by one worker.
THEOREM StageCorrect == Spec => []StageInv
<1>1. QED
  BY StageInit, StageNext, PTL DEF Spec

\* Every variable of both sides and of the channel between them has its type.
THEOREM TypeCorrect == Spec => []TypeOK
<1>1. StageInv => TypeOK
  BY DEF StageInv
<1>2. QED
  BY <1>1, StageCorrect, PTL

\* A placed prefix has no holes, and a first upload's chunk was never placed.
THEOREM LifecycleCorrect == Spec => []ChunkLifecycle
<1>1. StageInv => ChunkLifecycle
  BY DEF StageInv
<1>2. QED
  BY <1>1, StageCorrect, PTL

\* However reports and re-sends cross, a chunk is being re-sent at most once.
THEOREM RetriesCorrect == Spec => []RetryBookkeeping
<1>1. StageInv => RetryBookkeeping
  BY DEF StageInv
<1>2. QED
  BY <1>1, StageCorrect, PTL

-----------------------------------------------------------------------------
(* What a step does to the two windows *)

LEMMA SenderWindowStep ==
  ASSUME [Next]_vars
  PROVE  \/ UNCHANGED s2r \/ s2r' = <<>>
         \/ s2r' = Pushed(s2r, Announcement) \/ s2r' = Pushed(s2r, SenderCancel)
<1>1. CASE Upload
  BY <1>1 DEF Upload, TakeRetry, TakeNext, TryRelay, Placed, Rejected, WalkEnds, WorkerCancelled,
     channelVars
<1>2. CASE SenderControl
  BY <1>2 DEF SenderControl, ManifestPublished, ManifestAccepted, ManifestRefused,
     RingArrives, RingFails, Announce, AnnounceAccepted, AnnounceRefused, LoopEnds,
     SenderHears, SenderStops, SenderIdleTimeout, SenderLeaves, SenderSends, channelVars
<1>3. CASE Receiver
  <2>1. FetchEnds \/ AckAccepted \/ ReceiverLeaves => UNCHANGED s2r
    BY DEF FetchEnds, AckAccepted, ReceiverLeaves, ReceiverSends, channelVars
  <2>2. QED
    BY <1>3, <2>1 DEF Receiver, HelloAccepted, HelloRefused, ReadManifest, ReceiverHears,
       RetryClock, AckRefused, DoneSettles, ReceiverStops, channelVars
<1>4. CASE Lose \/ UNCHANGED vars
  BY <1>4 DEF Lose, vars, channelVars
<1>5. QED
  BY <1>1, <1>2, <1>3, <1>4 DEF Next, Over

LEMMA ReceiverWindowStep ==
  ASSUME [Next]_vars
  PROVE  \/ FetchEnds \/ UNCHANGED r2s \/ r2s' = <<>>
         \/ r2s' = Pushed(r2s, Plain("done")) /\ got = Chunks /\ UNCHANGED got
         \/ r2s' = Pushed(r2s, Plain("cancel"))
<1>1. CASE Upload
  BY <1>1 DEF Upload, TakeRetry, TakeNext, TryRelay, Placed, Rejected, WalkEnds, WorkerCancelled,
     channelVars
<1>2. CASE SenderControl
  BY <1>2 DEF SenderControl, ManifestPublished, ManifestAccepted, ManifestRefused,
     RingArrives, RingFails, Announce, AnnounceAccepted, AnnounceRefused, LoopEnds,
     SenderHears, SenderStops, SenderIdleTimeout, SenderLeaves, SenderSends, channelVars
<1>3. CASE AckAccepted \/ ReceiverLeaves
  BY <1>3 DEF AckAccepted, ReceiverLeaves, HoldsAll, ReceiverSends, channelVars
<1>4. CASE HelloAccepted \/ HelloRefused \/ ReadManifest \/ ReceiverHears \/ RetryClock
           \/ AckRefused \/ DoneSettles \/ ReceiverStops
  BY <1>4 DEF HelloAccepted, HelloRefused, ReadManifest, ReceiverHears, RetryClock,
     AckRefused, DoneSettles, ReceiverStops, channelVars
<1>5. CASE Lose \/ UNCHANGED vars
  BY <1>5 DEF Lose, vars, channelVars
<1>6. QED
  BY <1>1, <1>2, <1>3, <1>4, <1>5 DEF Next, Over, Receiver

\* What is sent without a report.
LEMMA PlainMessages ==
  \A t \in {"done", "cancel"} :
    Plain(t) \in ReceiverMessage /\ Plain(t).t = t /\ Plain(t).missing = {}
BY MessageTypes DEF Plain

-----------------------------------------------------------------------------
(* Reports of placements *)

\* The four places a placement is known, apart from the announcements.
Announced == \A k \in 1 .. Len(s2r) : Knowledge(s2r[k].view.place)
Reported == \A k \in 1 .. Len(r2s) : \A m \in r2s[k].missing : IsOrWas(m.index, m)
Believed == Knowledge(view.place) /\ Knowledge(tried) /\ Knowledge(lastTried)

LEMMA WereTrueParts == PlacementsWereTrue <=> Announced /\ Reported /\ Believed
BY DEF PlacementsWereTrue, Announced, Reported, Believed

\* IsOrWas and Knowledge, of the placements and generations given: at, g.
Truth(i, place, at, g) ==
  place.gen <= g[i] /\ (place.gen = g[i] => place.pos = at[i])
Truths(places, at, g) ==
  \A i \in Chunks : places[i] # NoPlacement => Truth(i, places[i], at, g)

LEMMA KnowledgeIsTruth ==
  /\ Announced <=> \A k \in 1 .. Len(s2r) : Truths(s2r[k].view.place, placedPos, gen)
  /\ Reported <=> \A k \in 1 .. Len(r2s) : \A m \in r2s[k].missing :
                    Truth(m.index, m, placedPos, gen)
  /\ Believed <=> /\ Truths(view.place, placedPos, gen)
                  /\ Truths(tried, placedPos, gen)
                  /\ Truths(lastTried, placedPos, gen)
BY DEF Announced, Reported, Believed, Knowledge, IsOrWas, Truth, Truths

\* A placement that was true stays true or becomes the past when a chunk is placed:
\* a re-send starts a new generation, and a first upload follows none.
LEMMA PlacedKeepsTruth ==
  ASSUME StageInv, NEW w \in Worker, Placed(w), NEW i \in Chunks,
         NEW place, place.pos \in Pos, place.gen \in Nat, Truth(i, place, placedPos, gen)
  PROVE  Truth(i, place, placedPos', gen')
<1> DEFINE task == worker[w]
<1>1. /\ placedPos' = [placedPos EXCEPT ![task.index] = task.pos]
      /\ gen' = [gen EXCEPT ![task.index] = GenOf(task)]
      /\ task.at = "publish"
  BY DEF Placed
<1>2. /\ task.index \in Chunks /\ task.retry \in BOOLEAN
      /\ gen \in [Chunks -> Nat] /\ placedPos \in [Chunks -> Pos \cup {-1}]
  BY DEF StageInv, TypeOK, PlacementTypeOK, Task
<1>3. CASE i # task.index
  BY <1>1, <1>2, <1>3 DEF Truth
<1>4. CASE i = task.index /\ task.retry
  <2>1. gen'[i] = gen[i] + 1
    BY <1>1, <1>2, <1>4 DEF GenOf
  <2>2. QED
    BY <1>2, <2>1 DEF Truth
<1>5. CASE i = task.index /\ ~task.retry
  <2>1. placedPos[i] = -1 /\ gen[i] = 0
    BY <1>1, <1>5 DEF StageInv, ChunkLifecycle, Busy
  <2>2. place.pos # -1
    BY DEF Pos
  <2>3. QED
    BY <2>1, <2>2 DEF Truth
<1>6. QED
  BY <1>2, <1>3, <1>4, <1>5

\* Placing chunks, and nothing else, changes what is true of placements.
LEMMA TruthKept ==
  ASSUME StageInv, [Next]_vars, NEW i \in Chunks,
         NEW place, place.pos \in Pos, place.gen \in Nat, Truth(i, place, placedPos, gen)
  PROVE  Truth(i, place, placedPos', gen')
<1>1. (\E w \in Worker : Placed(w)) \/ UNCHANGED <<placedPos, gen>>
  <2>1. ASSUME NEW w \in Worker,
               TakeRetry(w) \/ TakeNext(w) \/ TryRelay(w) \/ Rejected(w) \/ WalkEnds(w)
                 \/ WorkerCancelled(w)
        PROVE  UNCHANGED <<placedPos, gen>>
    BY <2>1 DEF TakeRetry, TakeNext, TryRelay, Rejected, WalkEnds, WorkerCancelled
  <2>2. CASE Upload
    BY <2>1, <2>2 DEF Upload
  <2>3. CASE SenderControl
    <3>1. SenderHears => UNCHANGED <<placedPos, gen>>
      BY DEF SenderHears, HandleAck, placementVars
    <3>2. QED
      BY <2>3, <3>1 DEF SenderControl, ManifestPublished, ManifestAccepted, ManifestRefused,
         RingArrives, RingFails, Announce, AnnounceAccepted, AnnounceRefused, LoopEnds,
         SenderStops, SenderIdleTimeout, SenderLeaves, placementVars
  <2>4. CASE Receiver
    BY <2>4 DEF Receiver, HelloAccepted, HelloRefused, ReadManifest, ReceiverHears,
       RetryClock, FetchEnds, AckAccepted, AckRefused, DoneSettles, ReceiverStops,
       ReceiverLeaves, placementVars
  <2>5. CASE Lose \/ UNCHANGED vars
    BY <2>5 DEF Lose, vars, placementVars
  <2>6. QED
    BY <2>2, <2>3, <2>4, <2>5 DEF Next, Over
<1>2. CASE \E w \in Worker : Placed(w)
  BY <1>2, PlacedKeepsTruth
<1>3. CASE UNCHANGED <<placedPos, gen>>
  BY <1>3 DEF Truth
<1>4. QED
  BY <1>1, <1>2, <1>3

\* So a whole map of placements stays true.
LEMMA TruthsKept ==
  ASSUME StageInv, [Next]_vars, NEW places \in Places, Truths(places, placedPos, gen)
  PROVE  Truths(places, placedPos', gen')
<1>1. ASSUME NEW i \in Chunks, places[i] # NoPlacement
      PROVE  Truth(i, places[i], placedPos', gen')
  <2>1. places[i].pos \in Pos /\ places[i].gen \in Nat
    BY <1>1 DEF Places, Placement
  <2>2. Truth(i, places[i], placedPos, gen)
    BY <1>1 DEF Truths
  <2>3. QED
    BY <2>1, <2>2, TruthKept
<1>2. QED
  BY <1>1 DEF Truths

\* A message sent by the sender speaks of placements that are true when it is sent.
LEMMA SaidBySender ==
  ASSUME StageInv
  PROVE  /\ Truths(Announcement.view.place, placedPos, gen)
         /\ Truths(SenderCancel.view.place, placedPos, gen)
<1>1. ASSUME NEW i \in Chunks, Announcement.view.place[i] # NoPlacement
      PROVE  Truth(i, Announcement.view.place[i], placedPos, gen)
  <2>1. Announcement.view.place[i] = [pos |-> placedPos[i], gen |-> gen[i]]
    BY <1>1 DEF Announcement
  <2>2. gen[i] \in Nat
    BY DEF StageInv, TypeOK, PlacementTypeOK
  <2>3. QED
    BY <2>1, <2>2 DEF Truth
<1>2. \A i \in Chunks : SenderCancel.view.place[i] = NoPlacement
  BY DEF SenderCancel, EmptyView
<1>3. QED
  BY <1>1, <1>2 DEF Truths

\* The sender's window, before and after a step.
LEMMA AnnouncedNext ==
  ASSUME StageInv, [Next]_vars, Announced
  PROVE  Announced'
<1>1. \/ UNCHANGED s2r \/ s2r' = <<>>
      \/ s2r' = Pushed(s2r, Announcement) \/ s2r' = Pushed(s2r, SenderCancel)
  BY SenderWindowStep
<1> DEFINE Fits(m) == m.view.place \in Places /\ Truths(m.view.place, placedPos, gen)
<1>2. /\ s2r \in Seq(SenderMessage)
      /\ Announcement \in SenderMessage /\ SenderCancel \in SenderMessage
  BY AnnouncementType, MessageTypes DEF StageInv, TypeOK, ChannelTypeOK
<1>3. \A m \in SenderMessage : m.view.place \in Places
  BY MessageTypes DEF SenderMessage, View
<1>4. \A j \in 1 .. Len(s2r) : Fits(s2r[j])
  BY <1>2, <1>3, KnowledgeIsTruth
<1>5. Fits(Announcement) /\ Fits(SenderCancel)
  BY <1>2, <1>3, SaidBySender
<1>6. \A k \in 1 .. Len(s2r') : Fits(s2r'[k])
  <2> HIDE DEF Fits
  <2>1. ASSUME NEW m \in SenderMessage, Fits(m), s2r' = Pushed(s2r, m)
        PROVE  \A k \in 1 .. Len(s2r') : Fits(s2r'[k])
    <3>1. \A k \in 1 .. Len(Pushed(s2r, m)) :
            \/ Pushed(s2r, m)[k] = m
            \/ \E j \in 1 .. Len(s2r) : Pushed(s2r, m)[k] = s2r[j]
      BY <1>2, PushedMessages
    <3>2. QED
      BY <1>4, <2>1, <3>1
  <2>2. CASE s2r' = <<>>
    BY <2>2
  <2>3. QED
    BY <1>1, <1>2, <1>4, <1>5, <2>1, <2>2
<1>7. \A k \in 1 .. Len(s2r') : Truths(s2r'[k].view.place, placedPos', gen')
  BY <1>6, TruthsKept
<1>8. QED
  BY <1>7 DEF Announced, Knowledge, IsOrWas, Truths, Truth

\* What a fetch cycle learns and reports was announced to it.
LEMMA FetchEndsTruth ==
  ASSUME StageInv, FetchEnds, Believed
  PROVE  /\ Truths(lastTried', placedPos, gen) /\ lastTried' \in Places
         /\ Truths(tried', placedPos, gen)
         /\ \/ UNCHANGED r2s
            \/ \E report \in SUBSET Missing :
                 /\ r2s' = Pushed(r2s, [t |-> "ack", missing |-> report])
                 /\ \A m \in report : Truth(m.index, m, placedPos, gen)
<1>1. PICK read \in SUBSET {i \in Chunks : tried[i] # NoPlacement} :
        /\ got' = got \cup read
        /\ lastTried' = [i \in Chunks |->
                           IF tried[i] # NoPlacement /\ i \notin got'
                             THEN tried[i] ELSE lastTried[i]]
  BY DEF FetchEnds
<1>2. Truths(tried, placedPos, gen) /\ Truths(lastTried, placedPos, gen)
  BY KnowledgeIsTruth
<1>3. Truths(lastTried', placedPos, gen)
  BY <1>1, <1>2 DEF Truths
<1>4. lastTried' \in Places
  BY <1>1 DEF StageInv, TypeOK, CycleTypeOK, Places
<1>5. Truths(tried', placedPos, gen)
  BY DEF FetchEnds, Truths
<1>6. \/ UNCHANGED r2s
      \/ \E report \in SUBSET Missing :
           /\ r2s' = Pushed(r2s, [t |-> "ack", missing |-> report])
           /\ \A m \in report : Truth(m.index, m, placedPos, gen)
  <2> DEFINE Entry(i) == [index |-> i, pos |-> BlameTried(lastTried', i).pos,
                          gen |-> BlameTried(lastTried', i).gen]
             report == {Entry(i) : i \in {j \in Chunks : /\ j < view.upto /\ j \notin got'
                                                         /\ lastTried'[j] # NoPlacement}}
  <2>1. UNCHANGED r2s \/ r2s' = Pushed(r2s, [t |-> "ack", missing |-> report])
    BY DEF FetchEnds, ReceiverSends, channelVars
  <2>2. ASSUME NEW i \in Chunks, lastTried'[i] # NoPlacement
        PROVE  Entry(i) \in Missing /\ Truth(i, Entry(i), placedPos, gen)
    <3>1. lastTried'[i] \in Placement /\ Truth(i, lastTried'[i], placedPos, gen)
      BY <1>3, <1>4, <2>2 DEF Places, Truths
    <3>2. QED
      BY <3>1 DEF Placement, Missing, BlameTried, Truth
  <2>3. report \in SUBSET Missing /\ \A m \in report : Truth(m.index, m, placedPos, gen)
    BY <2>2
  <2> HIDE DEF report
  <2>4. QED
    BY <2>1, <2>3
<1>7. QED
  BY <1>3, <1>4, <1>5, <1>6

\* The receiver's window, before and after a step.
LEMMA ReportedNext ==
  ASSUME StageInv, [Next]_vars, Reported, Believed
  PROVE  Reported'
<1> DEFINE Fits(m) == m.missing \in SUBSET Missing
                      /\ \A e \in m.missing : Truth(e.index, e, placedPos, gen)
<1>1. \/ UNCHANGED r2s \/ r2s' = <<>>
      \/ \E m \in ReceiverMessage : Fits(m) /\ r2s' = Pushed(r2s, m)
  <2>1. CASE FetchEnds
    <3>1. ASSUME NEW report \in SUBSET Missing
          PROVE  [t |-> "ack", missing |-> report] \in ReceiverMessage
      BY DEF ReceiverMessage
    <3>2. QED
      BY <2>1, <3>1, FetchEndsTruth
  <2>2. QED
    BY <2>1, ReceiverWindowStep, PlainMessages
<1>2. r2s \in Seq(ReceiverMessage)
  BY DEF StageInv, TypeOK, ChannelTypeOK
<1>3. \A j \in 1 .. Len(r2s) : Fits(r2s[j])
  <2>1. \A m \in ReceiverMessage : m.missing \in SUBSET Missing
    BY DEF ReceiverMessage
  <2>2. \A j \in 1 .. Len(r2s) : r2s[j].missing \in SUBSET Missing
    BY <1>2, <2>1
  <2>3. \A j \in 1 .. Len(r2s) : \A e \in r2s[j].missing : Truth(e.index, e, placedPos, gen)
    BY KnowledgeIsTruth
  <2>4. QED
    BY <2>2, <2>3
<1>4. \A k \in 1 .. Len(r2s') : Fits(r2s'[k])
  <2> HIDE DEF Fits
  <2>1. ASSUME NEW m \in ReceiverMessage, Fits(m), r2s' = Pushed(r2s, m)
        PROVE  \A k \in 1 .. Len(r2s') : Fits(r2s'[k])
    <3>1. \A k \in 1 .. Len(Pushed(r2s, m)) :
            \/ Pushed(r2s, m)[k] = m
            \/ \E j \in 1 .. Len(r2s) : Pushed(r2s, m)[k] = r2s[j]
      BY <1>2, PushedMessages
    <3>2. QED
      BY <1>3, <2>1, <3>1
  <2>2. CASE r2s' = <<>>
    BY <2>2
  <2>3. QED
    BY <1>1, <1>3, <2>1, <2>2
<1>5. \A k \in 1 .. Len(r2s') : \A m \in r2s'[k].missing : Truth(m.index, m, placedPos', gen')
  <2>1. ASSUME NEW m \in Missing, Truth(m.index, m, placedPos, gen)
        PROVE  Truth(m.index, m, placedPos', gen')
    BY <2>1, TruthKept DEF Missing
  <2>2. QED
    BY <1>4, <2>1
<1>6. QED
  BY <1>5 DEF Reported, IsOrWas, Truth

\* What the receiver itself believes, before and after a step.
LEMMA BelievedNext ==
  ASSUME StageInv, StageInv', [Next]_vars, Announced, Believed
  PROVE  Believed'
<1> DEFINE Fits(p) == Truths(p, placedPos, gen)
<1>1. Fits(view.place) /\ Fits(tried) /\ Fits(lastTried)
  BY KnowledgeIsTruth
<1>2. ASSUME NEW v, Fits(v.place), BeginCycle(v)
      PROVE  Fits(tried') /\ UNCHANGED lastTried
  BY <1>2 DEF BeginCycle, Truths
<1>3. Fits(view'.place) /\ Fits(tried') /\ Fits(lastTried')
  <2>1. CASE Upload \/ SenderControl
    <3>1. UNCHANGED <<view, tried, lastTried>>
      BY <2>1 DEF Upload, TakeRetry, TakeNext, TryRelay, Placed, Rejected, WalkEnds,
         WorkerCancelled, SenderControl, ManifestPublished, ManifestAccepted, ManifestRefused,
       RingArrives, RingFails, Announce, AnnounceAccepted, AnnounceRefused, LoopEnds,
       SenderHears, SenderStops, SenderIdleTimeout, SenderLeaves, cycleVars, receiverVars
    <3>2. QED
      BY <1>1, <3>1
  <2>2. CASE FetchEnds
    <3>1. view' = view
      BY <2>2 DEF FetchEnds, receiverVars
    <3>2. QED
      BY <1>1, <2>2, <3>1, FetchEndsTruth
  <2>3. CASE RetryClock \/ AckAccepted
    <3>1. /\ view' = view
          /\ BeginCycle(view) \/ UNCHANGED <<tried, lastTried>>
      BY <2>3 DEF RetryClock, AckAccepted, receiverVars
    <3>2. QED
      BY <1>1, <1>2, <3>1
  <2>4. CASE ReceiverHears
    <3>1. PICK k \in FreshForReceiver :
            \/ /\ view' = s2r[k].view
               /\ ScheduleCycle(s2r[k].view) \/ UNCHANGED cycleVars
            \/ UNCHANGED <<view, cycleVars>>
      BY <2>4 DEF ReceiverHears
    <3>2. Fits(s2r[k].view.place)
      BY KnowledgeIsTruth DEF FreshForReceiver
    <3>3. UNCHANGED cycleVars => UNCHANGED <<tried, lastTried>>
      BY DEF cycleVars
    <3>4. ScheduleCycle(s2r[k].view) =>
            BeginCycle(s2r[k].view) \/ UNCHANGED <<tried, lastTried>>
      BY DEF ScheduleCycle
    <3> HIDE DEF Fits
    <3>5. QED
      BY <1>1, <1>2, <3>1, <3>2, <3>3, <3>4
  <2>5. CASE HelloAccepted \/ HelloRefused \/ ReadManifest \/ AckRefused \/ DoneSettles
             \/ ReceiverStops \/ ReceiverLeaves
    <3>1. UNCHANGED <<view, tried, lastTried>>
      BY <2>5 DEF HelloAccepted, HelloRefused, ReadManifest, AckRefused, DoneSettles,
         ReceiverStops, ReceiverLeaves, cycleVars, receiverVars
    <3>2. QED
      BY <1>1, <3>1
  <2>6. CASE Lose \/ UNCHANGED vars
    <3>1. UNCHANGED <<view, tried, lastTried>>
      BY <2>6 DEF Lose, vars, cycleVars, receiverVars
    <3>2. QED
      BY <1>1, <3>1
  <2>7. QED
    BY <2>1, <2>2, <2>3, <2>4, <2>5, <2>6 DEF Next, Over, Receiver
<1>4. view'.place \in Places /\ tried' \in Places /\ lastTried' \in Places
  BY DEF StageInv, TypeOK, ReceiverTypeOK, CycleTypeOK, View
<1>5. /\ Truths(view'.place, placedPos', gen') /\ Truths(tried', placedPos', gen')
      /\ Truths(lastTried', placedPos', gen')
  BY <1>3, <1>4, TruthsKept
<1>6. QED
  BY <1>5 DEF Believed, Knowledge, IsOrWas, Truths, Truth

\* Every placement known, tried or reported is the chunk's, or was before a re-send,
\* for every number of chunks, relays, workers and messages under way: so a report
\* whose placement and generation match strikes the relay that failed the receiver.
THEOREM ReportsTrue == Spec => []PlacementsWereTrue
<1>1. Init => PlacementsWereTrue
  BY DEF Init, PlacementsWereTrue, Knowledge, EmptyView, Plain
<1>2. StageInv /\ StageInv' /\ PlacementsWereTrue /\ [Next]_vars => PlacementsWereTrue'
  <2>1. ASSUME StageInv, StageInv', PlacementsWereTrue, [Next]_vars
        PROVE  Announced' /\ Reported' /\ Believed'
    BY <2>1, WereTrueParts, AnnouncedNext, ReportedNext, BelievedNext
  <2>2. QED
    BY <2>1 DEF PlacementsWereTrue, Announced, Reported, Believed
<1>3. QED
  BY <1>1, <1>2, StageCorrect, PTL DEF Spec

-----------------------------------------------------------------------------
(* Outcomes *)

DoneSaid == \E k \in 1 .. Len(r2s) : r2s[k].t = "done"

\* What is said and settled is said and settled of a file that is held.
OutcomeInv ==
  /\ DoneSaid => got = Chunks
  /\ sOutcome = "ok" => got = Chunks
  /\ rOutcome = "ok" => got = Chunks

\* A step that matters to the promise does one thing: chunks arrive, or one side
\* settles, the sender with success only when it was told.
Arrives == got \subseteq got' /\ UNCHANGED <<sOutcome, rOutcome>>
ReceiverEnds ==
  /\ rOutcome = "open" /\ rOutcome' \in {"ok", "failed"}
  /\ rOutcome' = "ok" => got = Chunks
  /\ UNCHANGED <<sOutcome, got>>
SenderEnds ==
  /\ sOutcome = "running" /\ sOutcome' # "running"
  /\ sOutcome' = "ok" => DoneSaid
  /\ UNCHANGED <<rOutcome, got>>

LEMMA OutcomeStep ==
  ASSUME StageInv, [Next]_vars
  PROVE  Arrives \/ ReceiverEnds \/ SenderEnds
<1> USE DEF Arrives, ReceiverEnds, SenderEnds
<1>1. CASE Upload
  <2>1. UNCHANGED <<rOutcome, got>>
    BY <1>1 DEF Upload, TakeRetry, TakeNext, TryRelay, Placed, Rejected, WalkEnds, WorkerCancelled,
       cycleVars, receiverVars
  <2>2. sOutcome' = sOutcome \/ \E why \in {"unplaceable", "stopped"} : sOutcome' = Failing(why)
    BY <1>1 DEF Upload, TakeRetry, TakeNext, TryRelay, Placed, Rejected, WalkEnds, WorkerCancelled,
       senderVars
  <2>3. QED
    BY <2>1, <2>2 DEF Failing, sFinished
<1>2. CASE SenderControl
  <2>1. UNCHANGED <<rOutcome, got>>
    BY <1>2 DEF SenderControl, ManifestPublished, ManifestAccepted, ManifestRefused,
       RingArrives, RingFails, Announce, AnnounceAccepted, AnnounceRefused, LoopEnds,
       SenderHears, SenderStops, SenderIdleTimeout, SenderLeaves, cycleVars, receiverVars
  <2>2. CASE SenderHears
    <3>1. ~sFinished /\ \/ sOutcome' = sOutcome
                        \/ sOutcome' \in {"undeliverable", "peer cancelled"}
                        \/ sOutcome' = "ok" /\ DoneSaid
      BY <2>2 DEF SenderHears, HandleAck, FreshForSender, DoneSaid
    <3>2. QED
      BY <2>1, <3>1 DEF sFinished
  <2>3. CASE ~SenderHears
    <3>1. \/ sOutcome' = sOutcome
          \/ \E why \in {"refused", "no ring"} : sOutcome' = Failing(why)
          \/ ~sFinished /\ sOutcome' \in {"stopped", "idle"}
      BY <1>2, <2>3 DEF SenderControl, ManifestPublished, ManifestAccepted, ManifestRefused,
         RingArrives, RingFails, Announce, AnnounceAccepted, AnnounceRefused, LoopEnds,
         SenderStops, SenderIdleTimeout, SenderLeaves, senderVars
    <3>2. QED
      BY <2>1, <3>1 DEF Failing, sFinished
  <2>4. QED
    BY <2>2, <2>3
<1>3. CASE FetchEnds
  BY <1>3 DEF FetchEnds, senderVars, receiverVars
<1>4. CASE Receiver /\ ~FetchEnds
  <2>1. UNCHANGED sOutcome
    BY <1>4 DEF Receiver, HelloAccepted, HelloRefused, ReadManifest, ReceiverHears,
       RetryClock, AckAccepted, AckRefused, DoneSettles, ReceiverStops, ReceiverLeaves, senderVars
  <2>2. UNCHANGED got
    BY <1>4 DEF Receiver, HelloAccepted, HelloRefused, ReadManifest, ReceiverHears,
       RetryClock, AckAccepted, AckRefused, DoneSettles, ReceiverStops, ReceiverLeaves,
       ScheduleCycle, BeginCycle, cycleVars
  <2>3. \/ UNCHANGED rOutcome
        \/ rOutcome' = Settling("ok") /\ got = Chunks
        \/ rOutcome' = Settling("failed")
        \/ ~rFinished /\ rOutcome' = "failed"
    BY <1>4 DEF Receiver, HelloAccepted, HelloRefused, ReadManifest, ReceiverHears,
       RetryClock, AckAccepted, AckRefused, DoneSettles, ReceiverStops, ReceiverLeaves,
       HoldsAll, receiverVars
  <2>4. QED
    BY <2>1, <2>2, <2>3 DEF Settling, rFinished
<1>5. CASE Lose \/ UNCHANGED vars
  BY <1>5 DEF Lose, vars, senderVars, cycleVars, receiverVars
<1>6. QED
  BY <1>1, <1>2, <1>3, <1>4, <1>5 DEF Next, Over

\* `done` is said by a receiver that holds the file.
LEMMA DoneStep ==
  ASSUME StageInv, [Next]_vars, DoneSaid'
  PROVE  DoneSaid \/ got' = Chunks
<1>1. \/ UNCHANGED r2s \/ r2s' = <<>>
      \/ \E m \in ReceiverMessage : r2s' = Pushed(r2s, m) /\ (m.t = "done" => got' = Chunks)
  <2>1. CASE FetchEnds
    <3>1. ASSUME NEW report \in SUBSET Missing
          PROVE  /\ [t |-> "ack", missing |-> report] \in ReceiverMessage
                 /\ [t |-> "ack", missing |-> report].t # "done"
      BY DEF ReceiverMessage
    <3>2. \/ UNCHANGED r2s
          \/ \E report \in SUBSET Missing :
               r2s' = Pushed(r2s, [t |-> "ack", missing |-> report])
      BY <2>1, FetchEndsReport DEF ReceiverSends, channelVars, StageInv
    <3>3. QED
      BY <3>1, <3>2
  <2>2. QED
    BY <2>1, ReceiverWindowStep, PlainMessages
<1>2. PICK k \in 1 .. Len(r2s') : r2s'[k].t = "done"
  BY DEF DoneSaid
<1>3. r2s \in Seq(ReceiverMessage)
  BY DEF StageInv, TypeOK, ChannelTypeOK
<1>4. CASE UNCHANGED r2s \/ r2s' = <<>>
  BY <1>2, <1>4 DEF DoneSaid
<1>5. ASSUME NEW m \in ReceiverMessage, r2s' = Pushed(r2s, m), m.t = "done" => got' = Chunks
      PROVE  DoneSaid \/ got' = Chunks
  <2>1. r2s'[k] = m \/ \E j \in 1 .. Len(r2s) : r2s'[k] = r2s[j]
    BY <1>2, <1>3, <1>5, PushedMessages
  <2>2. QED
    BY <1>2, <1>5, <2>1 DEF DoneSaid
<1>6. QED
  BY <1>1, <1>4, <1>5

LEMMA OutcomeNext ==
  ASSUME StageInv, StageInv', [Next]_vars, OutcomeInv
  PROVE  OutcomeInv'
<1>1. got \subseteq got' /\ got' \subseteq Chunks
  BY OutcomeStep DEF Arrives, ReceiverEnds, SenderEnds, StageInv, TypeOK, CycleTypeOK
<1>2. DoneSaid' => got' = Chunks
  BY <1>1, DoneStep DEF OutcomeInv
<1>3. (sOutcome' = "ok" => got' = Chunks) /\ (rOutcome' = "ok" => got' = Chunks)
  BY <1>1, OutcomeStep DEF OutcomeInv, Arrives, ReceiverEnds, SenderEnds
<1>4. QED
  BY <1>2, <1>3 DEF OutcomeInv

LEMMA OutcomeInit == Init => OutcomeInv
<1>1. ASSUME Init PROVE ~DoneSaid
  <2>1. r2s = <<Plain("hello")>>
    BY <1>1 DEF Init
  <2>2. \A k \in 1 .. Len(r2s) : r2s[k].t = "hello"
    BY <2>1 DEF Plain
  <2>3. QED
    BY <2>2 DEF DoneSaid
<1>2. QED
  BY <1>1 DEF Init, OutcomeInv

LEMMA OutcomesTrue == Spec => [](StageInv /\ OutcomeInv)
<1>1. Init => OutcomeInv
  BY OutcomeInit
<1>2. StageInv /\ StageInv' /\ [Next]_vars /\ OutcomeInv => OutcomeInv'
  BY OutcomeNext
<1>3. QED
  BY <1>1, <1>2, StageCorrect, PTL DEF Spec

\* A sender reports success, and a receiver tells it to, only with the whole file in
\* the receiver's hands, whatever was lost, skipped or cancelled on the way.
THEOREM SuccessIsHeld == Spec => []DoneMeansHeld
<1>1. OutcomeInv => DoneMeansHeld
  BY DEF OutcomeInv, DoneMeansHeld, DoneSaid
<1>2. QED
  BY <1>1, OutcomesTrue, PTL

\* The live transfer implements the promise of FileDelivery: each outcome is settled
\* once, and either success only with the file held.
THEOREM PromiseKept == Spec => DeliversFile
<1> DEFINE sender == IF sOutcome \in {"running", "ok"} THEN sOutcome ELSE "failed"
<1>1. Init => Promise!Init
  <2> SUFFICES ASSUME Init PROVE Promise!Init
    OBVIOUS
  <2>1. (got = Chunks) = FALSE
    <3>1. 0 \in Chunks /\ 0 \notin got
      BY LiveRelayAssumption DEF Init, Chunks
    <3>2. QED
      BY <3>1
  <2>2. sOutcome = "running" /\ rOutcome = "open"
    BY DEF Init
  <2>3. QED
    BY <2>1, <2>2 DEF Promise!Init
<1>2. StageInv /\ StageInv' /\ OutcomeInv /\ [Next]_vars => [Promise!Next]_(Promise!vars)
  <2> SUFFICES ASSUME StageInv, StageInv', OutcomeInv, [Next]_vars
               PROVE  [Promise!Next]_(Promise!vars)
    OBVIOUS
  <2>1. CASE Arrives
    <3>1. got' \subseteq Chunks /\ got \subseteq got' /\ UNCHANGED <<sender, rOutcome>>
      BY <2>1 DEF Arrives, StageInv, TypeOK, CycleTypeOK
    <3>2. got = Chunks => (got = Chunks)'
      BY <3>1 DEF Chunks
    <3>3. Promise!Progress
      BY <3>1, <3>2 DEF Promise!Progress
    <3>4. QED
      BY <3>3 DEF Promise!Next
  <2>2. CASE ReceiverEnds
    <3>1. Promise!ReceiverSettles(rOutcome')
      BY <2>2 DEF ReceiverEnds, Promise!ReceiverSettles
    <3>2. QED
      BY <2>2, <3>1 DEF ReceiverEnds, Promise!Next
  <2>3. CASE SenderEnds
    <3>1. Promise!SenderSettles(sender')
      BY <2>3 DEF SenderEnds, Promise!SenderSettles, OutcomeInv
    <3>2. QED
      BY <2>3, <3>1 DEF SenderEnds, Promise!Next
  <2>4. QED
    BY <2>1, <2>2, <2>3, OutcomeStep
<1>3. QED
  BY <1>1, <1>2, OutcomesTrue, PTL DEF Spec, DeliversFile, Promise!Spec

-----------------------------------------------------------------------------
(* Announcements are of placed chunks *)

\* Only a message heard changes what the receiver knows was announced.
LEMMA ViewStep ==
  ASSUME [Next]_vars
  PROVE  ReceiverHears \/ (UNCHANGED view /\ (ringKnown' = ringKnown))
<1>1. CASE Upload \/ SenderControl
  BY <1>1 DEF Upload, TakeRetry, TakeNext, TryRelay, Placed, Rejected, WalkEnds,
     WorkerCancelled, SenderControl, ManifestPublished, ManifestAccepted, ManifestRefused,
     RingArrives, RingFails, Announce, AnnounceAccepted, AnnounceRefused, LoopEnds,
     SenderHears, SenderStops, SenderIdleTimeout, SenderLeaves, receiverVars
<1>2. CASE Receiver
  BY <1>2 DEF Receiver, HelloAccepted, HelloRefused, ReadManifest, RetryClock, FetchEnds,
     AckAccepted, AckRefused, DoneSettles, ReceiverStops, ReceiverLeaves, receiverVars
<1>3. CASE Lose \/ UNCHANGED vars
  BY <1>3 DEF Lose, vars, receiverVars
<1>4. QED
  BY <1>1, <1>2, <1>3 DEF Next, Over

\* An announcement has a place for every chunk it counts.
WellPlaced(v) == \A i \in Chunks : i < v.upto => v.place[i] \in Placement
PlacedInv == WellPlaced(view) /\ \A k \in 1 .. Len(s2r) : WellPlaced(s2r[k].view)

LEMMA SaidIsPlaced ==
  ASSUME StageInv
  PROVE  WellPlaced(Announcement.view) /\ WellPlaced(SenderCancel.view)
<1>1. ASSUME NEW i \in Chunks, i < upto
      PROVE  [pos |-> placedPos[i], gen |-> gen[i]] \in Placement
  BY <1>1 DEF StageInv, TypeOK, PlacementTypeOK, ChunkLifecycle, Placement
<1>2. WellPlaced(Announcement.view)
  BY <1>1 DEF WellPlaced, Announcement
<1>3. WellPlaced(SenderCancel.view)
  BY DEF WellPlaced, SenderCancel, EmptyView, Chunks
<1>4. QED
  BY <1>2, <1>3

LEMMA PlacedInvNext ==
  ASSUME StageInv, [Next]_vars, PlacedInv
  PROVE  PlacedInv'
<1>1. WellPlaced(view')
  <2>1. CASE ReceiverHears
    <3>1. PICK k \in FreshForReceiver : view' = s2r[k].view \/ view' = view
      BY <2>1 DEF ReceiverHears
    <3>2. QED
      BY <3>1 DEF PlacedInv, FreshForReceiver
  <2>2. CASE view' = view
    BY <2>2 DEF PlacedInv
  <2>3. QED
    BY <2>1, <2>2, ViewStep
<1>2. /\ s2r \in Seq(SenderMessage)
      /\ Announcement \in SenderMessage /\ SenderCancel \in SenderMessage
  BY AnnouncementType, MessageTypes DEF StageInv, TypeOK, ChannelTypeOK
<1>3. ASSUME NEW m \in SenderMessage, WellPlaced(m.view), s2r' = Pushed(s2r, m)
      PROVE  \A k \in 1 .. Len(s2r') : WellPlaced(s2r'[k].view)
  <2>1. \A k \in 1 .. Len(Pushed(s2r, m)) :
          \/ Pushed(s2r, m)[k] = m
          \/ \E j \in 1 .. Len(s2r) : Pushed(s2r, m)[k] = s2r[j]
    BY <1>2, PushedMessages
  <2>2. QED
    BY <1>3, <2>1 DEF PlacedInv
<1>4. \A k \in 1 .. Len(s2r') : WellPlaced(s2r'[k].view)
  <2>1. CASE UNCHANGED s2r \/ s2r' = <<>>
    BY <2>1 DEF PlacedInv
  <2>2. QED
    BY <1>2, <1>3, <2>1, SenderWindowStep, SaidIsPlaced
<1>5. QED
  BY <1>1, <1>4 DEF PlacedInv, WellPlaced

LEMMA AnnouncedArePlaced == Spec => [](StageInv /\ PlacedInv)
<1>1. Init => PlacedInv
  BY DEF Init, PlacedInv, WellPlaced, EmptyView, Chunks
<1>2. StageInv /\ [Next]_vars /\ PlacedInv => PlacedInv'
  BY PlacedInvNext
<1>3. QED
  BY <1>1, <1>2, StageCorrect, PTL DEF Spec

-----------------------------------------------------------------------------
(* No announcement is forgotten *)

\* A chunk needs no fetch, or the running cycle sees to it.
Settled(i) == i \in got \/ lastTried[i] = view.place[i]
SeenTo(i) ==
  \/ i \in got \/ tried[i] = view.place[i]
  \/ tried[i] = NoPlacement /\ lastTried[i] = view.place[i]

\* A receiver at rest has tried what was announced last; a cycle under way is
\* about to, or an announcement came meanwhile and another pass follows.
RestInv ==
  /\ cycle = "finishing" => rFinished
  /\ ~rFinished /\ ringKnown => \A i \in Chunks : i < view.upto =>
       /\ cycle = "idle" => Settled(i)
       /\ cycle = "acking" => cyclePending \/ Settled(i)
       /\ cycle = "fetching" => cyclePending \/ SeenTo(i)

\* The first outcome stays: a receiver that has finished has for good.
LEMMA FinishedStays ==
  ASSUME StageInv, [Next]_vars, rFinished
  PROVE  rFinished'
<1>1. CASE rOutcome # "open"
  BY <1>1, OutcomeStep DEF Arrives, ReceiverEnds, SenderEnds, rFinished
<1>2. CASE rMain \notin {"hello", "wait"}
  <2>1. CASE Upload \/ SenderControl
    BY <1>2, <2>1 DEF Upload, TakeRetry, TakeNext, TryRelay, Placed, Rejected, WalkEnds,
       WorkerCancelled, SenderControl, ManifestPublished, ManifestAccepted, ManifestRefused,
       RingArrives, RingFails, Announce, AnnounceAccepted, AnnounceRefused, LoopEnds,
       SenderHears, SenderStops, SenderIdleTimeout, SenderLeaves, receiverVars, rFinished
  <2>2. CASE Receiver
    BY <1>2, <2>2 DEF Receiver, HelloAccepted, HelloRefused, ReadManifest, ReceiverHears,
       RetryClock, FetchEnds, AckAccepted, AckRefused, DoneSettles, ReceiverStops,
       ReceiverLeaves, receiverVars, rFinished
  <2>3. CASE Lose \/ UNCHANGED vars
    BY <1>2, <2>3 DEF Lose, vars, receiverVars, rFinished
  <2>4. QED
    BY <2>1, <2>2, <2>3 DEF Next, Over
<1>3. QED
  BY <1>1, <1>2 DEF rFinished

\* A cycle that starts sees to every chunk of the announcement it starts on.
LEMMA CycleSeesTo ==
  ASSUME NEW v, BeginCycle(v), view' = v
  PROVE  cycle' = "fetching" /\ \A i \in Chunks : i < v.upto => SeenTo(i)'
<1>1. PICK cooled \in SUBSET Chunks :
        tried' = [i \in Chunks |->
                    IF /\ i < v.upto /\ i \notin got
                       /\ Untried(i, v.place[i], cooled)
                      THEN v.place[i] ELSE NoPlacement]
  BY DEF BeginCycle
<1>2. cycle' = "fetching" /\ got' = got /\ lastTried' = lastTried
  BY DEF BeginCycle
<1>3. QED
  BY <1>1, <1>2 DEF SeenTo, Untried

LEMMA CycleBegins ==
  ASSUME BeginCycle(view'), rFinished => rFinished'
  PROVE  RestInv'
BY CycleSeesTo DEF RestInv

\* What the cycle saw to is settled when its fetches have ended.
LEMMA FetchSettles ==
  ASSUME FetchEnds, PlacedInv, NEW i \in Chunks, i < view.upto, SeenTo(i)
  PROVE  Settled(i)'
<1>1. PICK read \in SUBSET {j \in Chunks : tried[j] # NoPlacement} :
        /\ got' = got \cup read
        /\ lastTried' = [j \in Chunks |->
                           IF tried[j] # NoPlacement /\ j \notin got'
                             THEN tried[j] ELSE lastTried[j]]
  BY DEF FetchEnds
<1>2. view' = view
  BY DEF FetchEnds, receiverVars
<1>3. view.place[i] # NoPlacement
  BY DEF PlacedInv, WellPlaced, Placement, NoPlacement, Pos
<1>4. QED
  BY <1>1, <1>2, <1>3 DEF SeenTo, Settled

LEMMA RestStutter ==
  ASSUME RestInv, UNCHANGED <<cycleVars, view, ringKnown>>, rFinished => rFinished'
  PROVE  RestInv'
BY DEF RestInv, cycleVars, Settled, SeenTo

LEMMA RestNext ==
  ASSUME StageInv, PlacedInv, [Next]_vars, RestInv
  PROVE  RestInv'
<1>1. rFinished => rFinished'
  BY FinishedStays
<1>2. CASE UNCHANGED <<cycleVars, view, ringKnown>>
  BY <1>1, <1>2, RestStutter
<1>3. CASE Upload \/ SenderControl \/ Lose
  <2>1. UNCHANGED <<cycleVars, view, ringKnown>>
    BY <1>3 DEF Upload, TakeRetry, TakeNext, TryRelay, Placed, Rejected, WalkEnds,
       WorkerCancelled, SenderControl, ManifestPublished, ManifestAccepted, ManifestRefused,
       RingArrives, RingFails, Announce, AnnounceAccepted, AnnounceRefused, LoopEnds,
       SenderHears, SenderStops, SenderIdleTimeout, SenderLeaves, Lose, receiverVars
  <2>2. QED
    BY <1>2, <2>1
<1>4. CASE ReceiverHears
  <2>1. PICK k \in FreshForReceiver :
          \/ /\ view' = s2r[k].view
             /\ ringKnown' = (ringKnown \/ s2r[k].ring)
             /\ IF ringKnown' /\ s2r[k].view.upto > 0
                  THEN ScheduleCycle(s2r[k].view) ELSE UNCHANGED cycleVars
          \/ rOutcome' = "failed" /\ UNCHANGED <<view, ringKnown, cycleVars>>
    BY <1>4 DEF ReceiverHears
  <2>2. CASE UNCHANGED <<view, ringKnown, cycleVars>>
    BY <1>2, <2>2
  <2>3. CASE /\ view' = s2r[k].view
             /\ ~(ringKnown' /\ s2r[k].view.upto > 0) /\ UNCHANGED cycleVars
    <3>1. view'.upto \in Nat
      <4>1. s2r[k] \in SenderMessage
        BY DEF FreshForReceiver, StageInv, TypeOK, ChannelTypeOK
      <4>2. s2r[k].view \in View
        BY <4>1, MessageTypes DEF SenderMessage
      <4>3. QED
        BY <2>3, <4>2 DEF View
    <3>2. \A i \in Chunks : ringKnown' => ~(i < view'.upto)
      BY <2>3, <3>1 DEF Chunks
    <3>3. cycle' = "finishing" => rFinished'
      BY <1>1, <2>3 DEF RestInv, cycleVars
    <3>4. QED
      BY <3>2, <3>3 DEF RestInv
  <2>4. CASE view' = s2r[k].view /\ ScheduleCycle(s2r[k].view) /\ cycle = "idle"
    BY <1>1, <2>4, CycleBegins DEF ScheduleCycle
  <2>5. CASE view' = s2r[k].view /\ ScheduleCycle(s2r[k].view) /\ cycle # "idle"
    BY <1>1, <2>5 DEF ScheduleCycle, RestInv
  <2>6. QED
    BY <2>1, <2>2, <2>3, <2>4, <2>5
<1>5. CASE RetryClock
  <2>1. view' = view /\ BeginCycle(view)
    BY <1>5 DEF RetryClock, receiverVars
  <2>2. QED
    BY <1>1, <2>1, CycleBegins
<1>6. CASE FetchEnds
  <2>1. /\ cycle = "fetching" /\ UNCHANGED <<view, ringKnown, cyclePending>>
        /\ cycle' = "acking" \/ (rFinished /\ cycle' = "idle")
    BY <1>6 DEF FetchEnds, receiverVars
  <2>2. rFinished' => rFinished
    BY <1>6 DEF FetchEnds, receiverVars, rFinished
  <2>3. \A i \in Chunks : i < view.upto /\ SeenTo(i) => Settled(i)'
    BY <1>6, FetchSettles
  <2>4. QED
    BY <1>1, <2>1, <2>2, <2>3 DEF RestInv
<1>7. CASE AckAccepted
  <2>1. CASE cycle' = "finishing" /\ rOutcome' = Settling("ok")
    <3>1. rFinished'
      BY <1>1, <2>1 DEF Settling, rFinished
    <3>2. QED
      BY <3>1 DEF RestInv
  <2>2. CASE BeginCycle(view) /\ UNCHANGED view
    BY <1>1, <2>2, CycleBegins
  <2>3. CASE /\ cycle = "acking" /\ cycle' = "idle" /\ (~cyclePending \/ rFinished)
             /\ UNCHANGED <<lastTried, tried, got, cyclePending, ringKnown, view>>
    BY <1>1, <2>3 DEF RestInv, Settled
  <2>4. QED
    BY <1>7, <2>1, <2>2, <2>3 DEF AckAccepted
<1>8. CASE AckRefused \/ DoneSettles
  <2>1. rFinished'
    BY <1>1, <1>8 DEF AckRefused, DoneSettles, Settling, rFinished, RestInv
  <2>2. QED
    BY <2>1 DEF RestInv
<1>9. CASE HelloAccepted \/ HelloRefused \/ ReadManifest \/ ReceiverStops \/ ReceiverLeaves
  <2>1. UNCHANGED <<cycleVars, view, ringKnown>>
    BY <1>9 DEF HelloAccepted, HelloRefused, ReadManifest, ReceiverStops, ReceiverLeaves,
       receiverVars
  <2>2. QED
    BY <1>2, <2>1
<1>10. CASE UNCHANGED vars
  BY <1>2, <1>10 DEF vars, receiverVars
<1>11. QED
  BY <1>3, <1>4, <1>5, <1>6, <1>7, <1>8, <1>9, <1>10 DEF Next, Over, Receiver

\* However announcements cross with a fetch cycle, a receiver that rests has tried
\* every announced chunk it misses at the placement announced last.
THEOREM NothingForgottenCorrect == Spec => []NothingForgotten
<1>1. Init => RestInv
  BY DEF Init, RestInv
<1>2. StageInv /\ PlacedInv /\ [Next]_vars /\ RestInv => RestInv'
  BY RestNext
<1>3. RestInv => NothingForgotten
  BY DEF RestInv, NothingForgotten, Settled
<1>4. QED
  BY <1>1, <1>2, <1>3, AnnouncedArePlaced, PTL DEF Spec

-----------------------------------------------------------------------------
(* Nothing placed is left unannounced *)

\* The announcement m says what the sender has to say now.
Describes(m) ==
  /\ m.ring = (ring = "ready")
  /\ m.view.upto \div Batch = upto \div Batch
  /\ upto = Total => m.view.upto = Total
  /\ \A i \in Chunks : i < m.view.upto =>
       m.view.place[i] = [pos |-> placedPos[i], gen |-> gen[i]]

\* While the control loop runs, the last announcement is up to date or the loop
\* knows that another is due; that holds while one is being sent, too.
LoopInv ==
  loop \in {"wait", "sending"} /\ ~availDirty /\ ~sFinished /\ s2r # <<>> =>
    Describes(s2r[Len(s2r)])

\* The message pushed is the last of the window.
LEMMA PushedLast ==
  ASSUME NEW S, NEW window \in Seq(S), NEW m \in S
  PROVE  Pushed(window, m)[Len(Pushed(window, m))] = m
<1>1. ASSUME NEW old \in Seq(S)
      PROVE  Append(old, m)[Len(Append(old, m))] = m
  BY <1>1
<1>2. CASE Len(window) < Window
  BY <1>1, <1>2 DEF Pushed
<1>3. CASE ~(Len(window) < Window)
  <2>1. window # <<>> /\ Pushed(window, m) = Append(Tail(window), m)
    BY <1>3 DEF Pushed
  <2>2. Tail(window) \in Seq(S)
    BY <2>1
  <2>3. QED
    BY <1>1, <2>1, <2>2
<1>4. QED
  BY <1>2, <1>3

\* An announcement describes the state it is built in.
LEMMA AnnouncementDescribes == Describes(Announcement)
BY DEF Describes, Announcement

\* A placement that raises no flag changes nothing an announcement speaks of.
LEMMA PlacedQuietly ==
  ASSUME StageInv, NEW w \in Worker, Placed(w), ~availDirty',
         NEW m, WellPlaced(m.view), m.view.place \in Places, Describes(m)
  PROVE  Describes(m)'
<1> DEFINE i == worker[w].index
<1>1. /\ worker[w].at = "publish" /\ ~worker[w].retry
      /\ upto' # Total /\ upto' \div Batch = upto \div Batch
      /\ placedPos' = [placedPos EXCEPT ![i] = worker[w].pos]
      /\ gen' = [gen EXCEPT ![i] = GenOf(worker[w])]
      /\ ring' = ring
  BY DEF Placed
<1>2. i \in Chunks /\ placedPos[i] = -1
  BY <1>1 DEF StageInv, TypeOK, PlacementTypeOK, Task, ChunkLifecycle, Busy
<1>3. /\ placedPos \in [Chunks -> Pos \cup {-1}] /\ gen \in [Chunks -> Nat]
      /\ upto \in 0 .. Total
  BY DEF StageInv, TypeOK, PlacementTypeOK
<1>4. ~(i < m.view.upto)
  <2> SUFFICES ASSUME i < m.view.upto
               PROVE  FALSE
    OBVIOUS
  <2>1. m.view.place[i] = [pos |-> placedPos[i], gen |-> gen[i]]
    BY <1>2 DEF Describes
  <2>2. m.view.place[i].pos \in Pos
    BY <1>2 DEF WellPlaced, Placement
  <2>3. QED
    BY <1>2, <2>1, <2>2 DEF Pos
<1>5. \A j \in Chunks : j < m.view.upto =>
        m.view.place[j] = [pos |-> placedPos'[j], gen |-> gen'[j]]
  <2>1. \A j \in Chunks : j # i => placedPos'[j] = placedPos[j] /\ gen'[j] = gen[j]
    BY <1>1, <1>3
  <2>2. QED
    BY <1>4, <2>1 DEF Describes
<1>6. m.ring = (ring' = "ready") /\ m.view.upto \div Batch = upto' \div Batch
  BY <1>1 DEF Describes
<1>7. QED
  BY <1>1, <1>5, <1>6 DEF Describes

LEMMA LoopStutter ==
  ASSUME LoopInv, UNCHANGED <<placedPos, gen, upto, ring, s2r>>,
         loop' \in {"wait", "sending"} => loop \in {"wait", "sending"},
         availDirty => availDirty', sFinished => sFinished'
  PROVE  LoopInv'
BY DEF LoopInv, Describes

LEMMA LoopNext ==
  ASSUME StageInv, PlacedInv, [Next]_vars, LoopInv
  PROVE  LoopInv'
<1>1. sFinished => sFinished'
  BY OutcomeStep DEF Arrives, ReceiverEnds, SenderEnds, sFinished
<1>2. s2r \in Seq(SenderMessage) /\ Announcement \in SenderMessage
  BY AnnouncementType DEF StageInv, TypeOK, ChannelTypeOK
<1>3. CASE Upload
  <2>1. UNCHANGED <<ring, loop, s2r>>
    BY <1>3 DEF Upload, TakeRetry, TakeNext, TryRelay, Placed, Rejected, WalkEnds,
       WorkerCancelled, senderVars, channelVars
  <2>2. CASE \E w \in Worker : Placed(w)
    <3>1. PICK w \in Worker : Placed(w)
      BY <2>2
    <3>2. SUFFICES ASSUME loop' \in {"wait", "sending"}, ~availDirty', ~sFinished', s2r' # <<>>
                   PROVE  Describes(s2r[Len(s2r)])'
      BY <2>1 DEF LoopInv
    <3>3. PICK m : m = s2r[Len(s2r)]
      OBVIOUS
    <3>4. s2r # <<>> /\ Len(s2r) \in 1 .. Len(s2r) /\ m \in SenderMessage
      BY <1>2, <2>1, <3>2, <3>3
    <3>5. WellPlaced(m.view)
      BY <3>4, <3>3 DEF PlacedInv
    <3>6. m.view.place \in Places
      BY <3>4, MessageTypes DEF SenderMessage, View
    <3>7. ~availDirty
      BY <3>1, <3>2 DEF Placed
    <3>8. Describes(m)
      BY <1>1, <2>1, <3>2, <3>4, <3>7, <3>3 DEF LoopInv
    <3>9. Describes(m)'
      BY <3>1, <3>2, <3>5, <3>6, <3>8, PlacedQuietly
    <3>10. s2r'[Len(s2r')] = m
      BY <2>1, <3>3
    <3>11. QED
      BY <3>9, <3>10 DEF Describes
  <2>3. CASE ~(\E w \in Worker : Placed(w))
    <3>1. UNCHANGED <<placedPos, gen, upto, availDirty>>
      BY <1>3, <2>3 DEF Upload, TakeRetry, TakeNext, TryRelay, Rejected, WalkEnds,
         WorkerCancelled, senderVars
    <3>2. QED
      BY <1>1, <2>1, <3>1, LoopStutter
  <2>4. QED
    BY <2>2, <2>3
<1>4. CASE Announce
  <2>1. s2r' = Pushed(s2r, Announcement)
    BY <1>4 DEF Announce, SenderSends
  <2>2. s2r'[Len(s2r')] = Announcement
    BY <1>2, <2>1, PushedLast
  <2>3. UNCHANGED <<placedPos, gen, upto, ring>>
    BY <1>4 DEF Announce, placementVars
  <2>4. Describes(s2r[Len(s2r)])'
    BY <2>2, <2>3, AnnouncementDescribes DEF Describes
  <2>5. QED
    BY <2>4 DEF LoopInv
<1>5. CASE ManifestAccepted
  BY <1>5 DEF ManifestAccepted, LoopInv
<1>6. CASE RingArrives
  BY <1>1, <1>6 DEF RingArrives, LoopInv
<1>7. CASE SenderLeaves
  BY <1>1, <1>7 DEF SenderLeaves, LoopInv
<1>8. CASE RingFails \/ ManifestRefused \/ AnnounceRefused \/ SenderStops \/ SenderIdleTimeout
  <2>1. sFinished'
    BY <1>8 DEF RingFails, ManifestRefused, AnnounceRefused, SenderStops,
       SenderIdleTimeout, Failing, sFinished
  <2>2. QED
    BY <2>1 DEF LoopInv
<1>9. CASE ManifestPublished \/ AnnounceAccepted \/ LoopEnds
  <2>1. /\ UNCHANGED <<placedPos, gen, upto, ring, s2r, availDirty>>
        /\ loop' \in {"wait", "sending"} => loop \in {"wait", "sending"}
    BY <1>9 DEF ManifestPublished, AnnounceAccepted, LoopEnds, placementVars, senderVars,
       channelVars
  <2>2. QED
    BY <1>1, <2>1, LoopStutter
<1>10. CASE SenderHears
  <2>1. UNCHANGED <<placedPos, gen, upto, ring, s2r, loop>>
    BY <1>10 DEF SenderHears, HandleAck, placementVars
  <2>2. availDirty' = TRUE \/ availDirty' = availDirty
    BY <1>10 DEF SenderHears, HandleAck
  <2>3. QED
    BY <1>1, <2>1, <2>2, LoopStutter
<1>11. CASE Receiver
  <2>1. UNCHANGED <<placementVars, senderVars, s2r>>
    <3>1. FetchEnds \/ AckAccepted \/ ReceiverLeaves => UNCHANGED <<placementVars, senderVars, s2r>>
      BY DEF FetchEnds, AckAccepted, ReceiverLeaves, ReceiverSends, channelVars
    <3>2. QED
      BY <1>11, <3>1 DEF Receiver, HelloAccepted, HelloRefused, ReadManifest, ReceiverHears,
         RetryClock, AckRefused, DoneSettles, ReceiverStops, channelVars
  <2>2. QED
    BY <1>1, <2>1, LoopStutter DEF placementVars, senderVars
<1>12. CASE Lose
  <2>1. UNCHANGED <<placedPos, gen, upto, ring, loop, availDirty>>
    BY <1>12 DEF Lose, placementVars, senderVars
  <2>2. s2r' = s2r \/ s2r' = <<>>
    BY <1>12 DEF Lose
  <2>3. CASE s2r' = <<>>
    BY <2>3 DEF LoopInv
  <2>4. QED
    BY <1>1, <2>1, <2>2, <2>3, LoopStutter
<1>13. CASE UNCHANGED vars
  BY <1>1, <1>13, LoopStutter DEF vars, placementVars, senderVars, channelVars
<1>14. QED
  BY <1>3, <1>4, <1>5, <1>6, <1>7, <1>8, <1>9, <1>10, <1>11, <1>12, <1>13
     DEF Next, Over, SenderControl

\* A control loop that rests with nothing to announce has announced the ring, every
\* re-send, and every full batch or the whole file, whatever was placed, re-sent or
\* asked for while an announcement was on its way.
THEOREM NothingUnannouncedCorrect == Spec => []NothingUnannounced
<1>1. Init => LoopInv
  BY DEF Init, LoopInv
<1>2. StageInv /\ PlacedInv /\ [Next]_vars /\ LoopInv => LoopInv'
  BY LoopNext
<1>3. LoopInv => NothingUnannounced
  BY DEF LoopInv, NothingUnannounced, Describes
<1>4. QED
  BY <1>1, <1>2, <1>3, AnnouncedArePlaced, PTL DEF Spec

-----------------------------------------------------------------------------
(* A good relay is not blamed *)

\* No chunk is remembered as unreadable on a good relay, and no report says so.
NotTriedInVain == \A i \in Chunks : lastTried[i].pos \notin Good
NotReported == \A k \in 1 .. Len(r2s) : \A m \in r2s[k].missing : m.pos \notin Good
BlamelessInv == GoodRelayBlameless /\ NotTriedInVain /\ NotReported

\* Demoting others spares a good relay: the last one standing is not demoted.
LEMMA DemotingSpares ==
  ASSUME NEW relays, NEW D \in Demoting(relays), NEW p \in Good,
         p \notin demoted, p \notin relays
  PROVE  p \notin D
<1>1. p \in Pos /\ demoted \cup relays # Pos
  OBVIOUS
<1>2. QED
  BY <1>1 DEF Demoting

\* A report that blames no good relay strikes none.
LEMMA ReportSpares ==
  ASSUME StageInv, GoodRelayBlameless, NEW missing \in SUBSET Missing, HandleAck(missing),
         \A m \in missing : m.pos \notin Good
  PROVE  GoodRelayBlameless'
<1> SUFFICES ASSUME NEW p \in Good
             PROVE  misses'[p] = 0 /\ giveUps'[p] = 0 /\ p \notin demoted'
  BY DEF GoodRelayBlameless
<1>1. p \in Pos /\ misses[p] = 0 /\ giveUps[p] = 0 /\ p \notin demoted
  BY DEF GoodRelayBlameless
<1>2. Strikes(missing, p) = 0
  <2>1. {m \in Handled(missing) : m.pos = p} = {}
    BY DEF Handled, Current
  <2>2. QED
    BY <2>1, FS_EmptySet DEF Strikes
<1>3. misses'[p] = 0
  BY <1>1, <1>2 DEF HandleAck
<1>4. p \notin demoted'
  <2> DEFINE condemned == {q \in Pos : Strikes(missing, q) > 0 /\ misses'[q] >= DemoteMisses}
  <2>1. demoted' \in Demoting(condemned)
    BY DEF HandleAck
  <2>2. p \notin condemned
    BY <1>2
  <2> HIDE DEF condemned
  <2>3. QED
    BY <1>1, <2>1, <2>2, DemotingSpares
<1>5. QED
  BY <1>1, <1>3, <1>4 DEF HandleAck

\* What a fetch cycle remembers and reports of a good relay: nothing, as whatever
\* it was asked for was read.
LEMMA FetchEndsBlame ==
  ASSUME StageInv, FetchEnds, NotTriedInVain
  PROVE  /\ NotTriedInVain'
         /\ \/ UNCHANGED r2s
            \/ \E report \in SUBSET Missing :
                 /\ r2s' = Pushed(r2s, [t |-> "ack", missing |-> report])
                 /\ \A m \in report : m.pos \notin Good
<1>1. PICK read \in SUBSET {i \in Chunks : tried[i] # NoPlacement} :
        /\ \A i \in Chunks : tried[i].pos \in Good => i \in read
        /\ got' = got \cup read
        /\ lastTried' = [i \in Chunks |->
                           IF tried[i] # NoPlacement /\ i \notin got'
                             THEN tried[i] ELSE lastTried[i]]
  BY DEF FetchEnds
<1>2. NotTriedInVain'
  BY <1>1 DEF NotTriedInVain
<1>3. lastTried' \in Places
  BY <1>1 DEF StageInv, TypeOK, CycleTypeOK, Places
<1> DEFINE Entry(i) == [index |-> i, pos |-> BlameTried(lastTried', i).pos,
                        gen |-> BlameTried(lastTried', i).gen]
           report == {Entry(i) : i \in {j \in Chunks : /\ j < view.upto /\ j \notin got'
                                                       /\ lastTried'[j] # NoPlacement}}
<1>4. UNCHANGED r2s \/ r2s' = Pushed(r2s, [t |-> "ack", missing |-> report])
  BY DEF FetchEnds, ReceiverSends, channelVars
<1>5. ASSUME NEW i \in Chunks, lastTried'[i] # NoPlacement
      PROVE  Entry(i) \in Missing /\ Entry(i).pos \notin Good
  <2>1. lastTried'[i] \in Placement /\ lastTried'[i].pos \notin Good
    BY <1>2, <1>3, <1>5 DEF Places, NotTriedInVain
  <2>2. QED
    BY <2>1 DEF Placement, Missing, BlameTried
<1>6. report \in SUBSET Missing /\ \A m \in report : m.pos \notin Good
  BY <1>5
<1> HIDE DEF report
<1>7. QED
  BY <1>2, <1>4, <1>6

LEMMA NotReportedNext ==
  ASSUME StageInv, [Next]_vars, NotTriedInVain, NotReported
  PROVE  NotReported'
<1>1. r2s \in Seq(ReceiverMessage)
  BY DEF StageInv, TypeOK, ChannelTypeOK
<1>2. ASSUME NEW m \in ReceiverMessage, \A e \in m.missing : e.pos \notin Good,
             r2s' = Pushed(r2s, m)
      PROVE  NotReported'
  <2>1. \A k \in 1 .. Len(Pushed(r2s, m)) :
          \/ Pushed(r2s, m)[k] = m
          \/ \E j \in 1 .. Len(r2s) : Pushed(r2s, m)[k] = r2s[j]
    BY <1>1, PushedMessages
  <2>2. QED
    BY <1>2, <2>1 DEF NotReported
<1>3. CASE FetchEnds
  <2>1. ASSUME NEW report \in SUBSET Missing
        PROVE  [t |-> "ack", missing |-> report] \in ReceiverMessage
    BY DEF ReceiverMessage
  <2>2. CASE UNCHANGED r2s
    BY <2>2 DEF NotReported
  <2>3. QED
    BY <1>2, <1>3, <2>1, <2>2, FetchEndsBlame
<1>4. CASE UNCHANGED r2s \/ r2s' = <<>>
  BY <1>4 DEF NotReported
<1>5. ASSUME NEW t \in {"done", "cancel"}, r2s' = Pushed(r2s, Plain(t))
      PROVE  NotReported'
  BY <1>2, <1>5, PlainMessages
<1>6. QED
  BY <1>3, <1>4, <1>5, ReceiverWindowStep

LEMMA NotTriedInVainNext ==
  ASSUME StageInv, [Next]_vars, NotTriedInVain
  PROVE  NotTriedInVain'
<1>1. CASE FetchEnds
  BY <1>1, FetchEndsBlame
<1>2. CASE ~FetchEnds
  <2>1. UNCHANGED lastTried
    <3>1. CASE Upload \/ SenderControl \/ Lose \/ UNCHANGED vars
      BY <3>1 DEF Upload, TakeRetry, TakeNext, TryRelay, Placed, Rejected, WalkEnds,
         WorkerCancelled, SenderControl, ManifestPublished, ManifestAccepted, ManifestRefused,
         RingArrives, RingFails, Announce, AnnounceAccepted, AnnounceRefused, LoopEnds,
         SenderHears, SenderStops, SenderIdleTimeout, SenderLeaves, Lose, vars, cycleVars
    <3>2. CASE Receiver
      BY <1>2, <3>2 DEF Receiver, HelloAccepted, HelloRefused, ReadManifest, ReceiverHears,
         RetryClock, AckAccepted, AckRefused, DoneSettles, ReceiverStops, ReceiverLeaves,
         ScheduleCycle, BeginCycle, cycleVars
    <3>3. QED
      BY <3>1, <3>2 DEF Next, Over
  <2>2. QED
    BY <2>1 DEF NotTriedInVain
<1>3. QED
  BY <1>1, <1>2

LEMMA GoodRelayBlamelessNext ==
  ASSUME StageInv, [Next]_vars, GoodRelayBlameless, NotReported
  PROVE  GoodRelayBlameless'
<1>1. CASE UNCHANGED <<misses, giveUps, demoted>>
  BY <1>1 DEF GoodRelayBlameless
<1>2. CASE SenderHears
  <2>1. PICK k \in FreshForSender : HandleAck(r2s[k].missing) \/ UNCHANGED placementVars
    BY <1>2 DEF SenderHears
  <2>2. CASE UNCHANGED placementVars
    BY <1>1, <2>2 DEF placementVars
  <2>3. CASE HandleAck(r2s[k].missing)
    <3>1. k \in 1 .. Len(r2s) /\ r2s[k] \in ReceiverMessage
      BY DEF FreshForSender, StageInv, TypeOK, ChannelTypeOK
    <3>2. r2s[k].missing \in SUBSET Missing
      BY <3>1 DEF ReceiverMessage
    <3>3. \A m \in r2s[k].missing : m.pos \notin Good
      BY <3>1 DEF NotReported
    <3>4. QED
      BY <2>3, <3>2, <3>3, ReportSpares
  <2>4. QED
    BY <2>1, <2>2, <2>3
<1>3. ASSUME NEW w \in Worker, Rejected(w)
      PROVE  GoodRelayBlameless'
  <2>1. /\ worker[w].pos \notin Good
        /\ giveUps' = [giveUps EXCEPT ![worker[w].pos] = giveUps[worker[w].pos] + 1]
        /\ demoted' = demoted \/ demoted' \in Demoting({worker[w].pos})
        /\ misses' = misses
    BY <1>3 DEF Rejected
  <2>2. ASSUME NEW p \in Good
        PROVE  misses'[p] = 0 /\ giveUps'[p] = 0 /\ p \notin demoted'
    <3>1. p \notin demoted /\ misses[p] = 0 /\ giveUps[p] = 0 /\ p \in Pos /\ p # worker[w].pos
      BY <2>1 DEF GoodRelayBlameless
    <3>2. giveUps'[p] = 0
      BY <2>1, <3>1 DEF StageInv, TypeOK, PlacementTypeOK
    <3>3. QED
      BY <2>1, <3>1, <3>2, DemotingSpares
  <2>3. QED
    BY <2>2 DEF GoodRelayBlameless
<1>4. CASE Upload /\ ~(\E w \in Worker : Rejected(w))
  BY <1>1, <1>4 DEF Upload, TakeRetry, TakeNext, TryRelay, Placed, WalkEnds, WorkerCancelled
<1>5. CASE SenderControl /\ ~SenderHears
  BY <1>1, <1>5 DEF SenderControl, ManifestPublished, ManifestAccepted, ManifestRefused,
     RingArrives, RingFails, Announce, AnnounceAccepted, AnnounceRefused, LoopEnds,
     SenderStops, SenderIdleTimeout, SenderLeaves, placementVars
<1>6. CASE Receiver \/ Lose \/ UNCHANGED vars
  BY <1>1, <1>6 DEF Receiver, HelloAccepted, HelloRefused, ReadManifest, ReceiverHears,
     RetryClock, FetchEnds, AckAccepted, AckRefused, DoneSettles, ReceiverStops,
     ReceiverLeaves, Lose, vars, placementVars
<1>7. QED
  BY <1>2, <1>3, <1>4, <1>5, <1>6 DEF Next, Over

LEMMA BlamelessCorrect == Spec => [](StageInv /\ BlamelessInv)
<1>1. Init => BlamelessInv
  <2> SUFFICES ASSUME Init PROVE BlamelessInv
    OBVIOUS
  <2>1. GoodRelayBlameless
    BY DEF Init, GoodRelayBlameless
  <2>2. NotTriedInVain
    BY DEF Init, NotTriedInVain, NoPlacement, Pos
  <2>3. NotReported
    BY DEF Init, NotReported, Plain
  <2>4. QED
    BY <2>1, <2>2, <2>3 DEF BlamelessInv
<1>2. StageInv /\ [Next]_vars /\ BlamelessInv => BlamelessInv'
  BY GoodRelayBlamelessNext, NotTriedInVainNext, NotReportedNext DEF BlamelessInv
<1>3. QED
  BY <1>1, <1>2, StageCorrect, PTL DEF Spec

\* A relay that takes and serves every chunk is never struck or demoted, in a ring
\* of any size and however stale the reports are.
THEOREM GoodRelayBlamelessCorrect == Spec => []GoodRelayBlameless
<1>1. BlamelessInv => GoodRelayBlameless
  BY DEF BlamelessInv
<1>2. QED
  BY <1>1, BlamelessCorrect, PTL

-----------------------------------------------------------------------------
(* Walking the ring *)

\* What division with remainder is.
LEMMA Division ==
  ASSUME NEW n \in Nat \ {0}, NEW d \in Int
  PROVE  d = n * (d \div n) + (d % n) /\ d \div n \in Int /\ d % n \in 0 .. n - 1
OBVIOUS

\* Numbers less than n apart with the same remainder are the same.
LEMMA SameRemainder ==
  ASSUME NEW n \in Nat \ {0}, NEW a \in Int, NEW b \in Int,
         a % n = b % n, a - b < n, b - a < n
  PROVE  a = b
<1> DEFINE p == a \div n
           q == b \div n
<1>1. p \in Int /\ q \in Int /\ a = n * p + (a % n) /\ b = n * q + (b % n)
  BY Division
<1>2. a % n \in Int /\ b % n \in Int
  BY Division
<1> HIDE DEF p, q
<1>3. a - b = n * (p - q) /\ p - q \in Int
  BY <1>1, <1>2
<1>4. p - q >= 1 => n * (p - q) >= n
  BY <1>3
<1>5. p - q <= -1 => n * (p - q) <= -n
  BY <1>3
<1>6. p - q = 0
  BY <1>3, <1>4, <1>5
<1>7. QED
  BY <1>3, <1>6

\* Different relays are at different distances from a chunk's home position.
LEMMA DistancesDiffer ==
  ASSUME NEW i \in Chunks, NEW p \in Pos, NEW g \in Pos, p # g
  PROVE  /\ Distance(i, p) \in Pos /\ Distance(i, g) \in Pos
         /\ Distance(i, p) # Distance(i, g)
<1>1. p - i \in Int /\ g - i \in Int
  BY DEF Chunks, Pos
<1>2. (p - i) - (g - i) < RingSize /\ (g - i) - (p - i) < RingSize
  BY DEF Chunks, Pos
<1>3. Distance(i, p) = Distance(i, g) => p - i = g - i
  BY <1>1, <1>2, SameRemainder DEF Distance
<1>4. p - i # g - i
  BY DEF Chunks, Pos
<1>5. QED
  BY <1>1, <1>3, <1>4, RingRemainder DEF Distance

\* Steps around the ring, without remainders.
LEMMA RingSteps ==
  ASSUME NEW d \in Pos, NEW o \in Pos
  PROVE  /\ (d - o) % RingSize = IF d >= o THEN d - o ELSE (d - o) + RingSize
         /\ (d + 1) % RingSize = IF d + 1 = RingSize THEN 0 ELSE d + 1
BY DEF Pos

\* A relay's place in the walk is a position.
LEMMA WalkOrderType ==
  ASSUME PlacementTypeOK, NEW i \in Chunks, NEW p \in Pos
  PROVE  WalkOrder(i, p) \in Pos
<1>1. p - i \in Int
  BY DEF Chunks, Pos
<1>2. Distance(i, p) \in Pos /\ nextOffset[i] \in Pos
  BY <1>1, RingRemainder DEF Distance, PlacementTypeOK
<1>3. Distance(i, p) - nextOffset[i] \in Int
  BY <1>2 DEF Pos
<1>4. QED
  BY <1>3, RingRemainder DEF WalkOrder

\* Trying a relay brings every relay behind it in the walk nearer: the next walk
\* starts past the one tried now.
LEMMA WalkAdvances ==
  ASSUME PlacementTypeOK, NEW i \in Chunks, NEW p \in Pos, NEW g \in Pos, p # g,
         WalkOrder(i, p) <= WalkOrder(i, g),
         nextOffset' = [nextOffset EXCEPT ![i] = NextOffset(i, p)]
  PROVE  WalkOrder(i, g)' < WalkOrder(i, g)
<1> DEFINE dp == Distance(i, p)
           dg == Distance(i, g)
           o  == nextOffset[i]
           n  == NextOffset(i, p)
<1>1. dp \in Pos /\ dg \in Pos /\ dp # dg /\ o \in Pos
  BY DistancesDiffer DEF PlacementTypeOK
<1>2. n = IF dp + 1 = RingSize THEN 0 ELSE dp + 1
  BY <1>1, RingSteps DEF NextOffset
<1>3. n \in Pos
  BY <1>1, <1>2 DEF Pos
<1>4. nextOffset'[i] = n
  BY DEF PlacementTypeOK
<1>5. WalkOrder(i, g)' = (dg - n) % RingSize
  BY <1>4 DEF WalkOrder, Distance
<1>6. /\ WalkOrder(i, p) = (dp - o) % RingSize
      /\ WalkOrder(i, g) = (dg - o) % RingSize
  BY DEF WalkOrder
<1> HIDE DEF dp, dg, o, n
<1>7. /\ WalkOrder(i, p) = IF dp >= o THEN dp - o ELSE (dp - o) + RingSize
      /\ WalkOrder(i, g) = IF dg >= o THEN dg - o ELSE (dg - o) + RingSize
      /\ WalkOrder(i, g)' = IF dg >= n THEN dg - n ELSE (dg - n) + RingSize
  BY <1>1, <1>3, <1>5, <1>6, RingSteps
<1>8. QED
  BY <1>1, <1>2, <1>7 DEF Pos

-----------------------------------------------------------------------------
(* A good relay delivers *)

\* A walk under way has not passed a good relay: it stops there.
WalksInv == \A w \in Worker :
  /\ worker[w].at = "walk" => worker[w].tried \cap Good = {}
  /\ worker[w].at = "publish" => worker[w].tried \cap Good \subseteq {worker[w].pos}

Carried(i) == \E w \in Worker : Busy(w) /\ worker[w].index = i

\* The relays still in front of the good relay g in a chunk's walk are no more than
\* the re-sends left: every failure of another relay has used one up.
Reach(g) == \A i \in Chunks :
  /\ i \in retryQueue => placedPos[i] \notin Good
  /\ placedPos[i] \notin Good \cup {-1} /\ ~Carried(i) =>
       gen[i] + 1 + WalkOrder(i, g) < RingSize
  /\ \A w \in Worker : worker[w].index = i =>
       /\ worker[w].at = "walk" => GenOf(worker[w]) + WalkOrder(i, g) < RingSize
       /\ worker[w].at = "publish" /\ worker[w].pos \notin Good =>
            GenOf(worker[w]) + 1 + WalkOrder(i, g) < RingSize

DeliverInv == GoodRelayDelivers /\ WalksInv /\ (~sFinished => \A g \in Good : Reach(g))

LEMMA WalksNext ==
  ASSUME StageInv, [Next]_vars, WalksInv
  PROVE  WalksInv'
<1>1. CASE UNCHANGED worker
  BY <1>1 DEF WalksInv
<1>2. ASSUME NEW w \in Worker, NEW task \in Task, worker' = [worker EXCEPT ![w] = task],
             task.at = "walk" => task.tried \cap Good = {},
             task.at = "publish" => task.tried \cap Good \subseteq {task.pos}
      PROVE  WalksInv'
  <2>1. \A v \in Worker : worker'[v] = IF v = w THEN task ELSE worker[v]
    BY <1>2, WorkerUpdated DEF StageInv, TypeOK
  <2>2. QED
    BY <1>2, <2>1 DEF WalksInv
<1>3. ASSUME NEW w \in Worker, worker[w] \in Task,
             TakeRetry(w) \/ TakeNext(w) \/ TryRelay(w) \/ Placed(w) \/ Rejected(w)
               \/ WalkEnds(w) \/ WorkerCancelled(w)
      PROVE  WalksInv'
  <2>1. CASE Placed(w) \/ WalkEnds(w) \/ WorkerCancelled(w)
    <3>1. worker' = [worker EXCEPT ![w] = Idle] /\ Idle.at = "idle"
      BY <2>1 DEF Placed, WalkEnds, WorkerCancelled, Idle
    <3>2. QED
      BY <1>2, <3>1, IdleType
  <2>2. CASE TakeRetry(w)
    <3>1. PICK i \in retryQueue :
            worker' = [worker EXCEPT ![w] =
                        [Idle EXCEPT !.at = "walk", !.index = i, !.retry = TRUE]]
      BY <2>2 DEF TakeRetry
    <3> DEFINE task == [Idle EXCEPT !.at = "walk", !.index = i, !.retry = TRUE]
    <3>2. i \in Chunks
      BY DEF StageInv, TypeOK, PlacementTypeOK
    <3>3. task \in Task /\ task.at = "walk" /\ task.tried = {}
      BY <3>2, IdleType DEF Idle, Task
    <3> HIDE DEF task
    <3>4. QED
      BY <1>2, <3>1, <3>3 DEF task
  <2>3. CASE TakeNext(w)
    <3> DEFINE task == [Idle EXCEPT !.at = "walk", !.index = nextChunk]
    <3>1. worker' = [worker EXCEPT ![w] = task] /\ nextChunk \in Chunks
      BY <2>3 DEF TakeNext, StageInv, TypeOK, PlacementTypeOK, Chunks
    <3>2. task \in Task /\ task.at = "walk" /\ task.tried = {}
      BY <3>1, IdleType DEF Idle, Task
    <3>3. PICK t : t = task
      OBVIOUS
    <3> HIDE DEF task
    <3>4. QED
      BY <1>2, <3>1, <3>2, <3>3
  <2>4. CASE TryRelay(w)
    <3>1. PICK pos \in Pos :
            worker' = [worker EXCEPT ![w] =
                        [worker[w] EXCEPT !.at = "publish", !.pos = pos,
                                          !.tried = worker[w].tried \cup {pos}]]
      BY <2>4 DEF TryRelay
    <3> DEFINE task == [worker[w] EXCEPT !.at = "publish", !.pos = pos,
                                         !.tried = worker[w].tried \cup {pos}]
    <3>2. worker[w].at = "walk" /\ worker[w].tried \cap Good = {}
      BY <2>4 DEF TryRelay, WalksInv
    <3>3. /\ task \in Task /\ task.at = "publish" /\ task.pos = pos
          /\ task.tried = worker[w].tried \cup {pos}
      BY <1>3 DEF Task
    <3>4. PICK t : t = task
      OBVIOUS
    <3> HIDE DEF task
    <3>5. QED
      BY <1>2, <3>1, <3>2, <3>3, <3>4 DEF task
  <2>5. CASE Rejected(w)
    <3> DEFINE task == [worker[w] EXCEPT !.at = "walk"]
    <3>1. /\ worker' = [worker EXCEPT ![w] = task]
          /\ worker[w].at = "publish" /\ worker[w].pos \notin Good
      BY <2>5 DEF Rejected
    <3>2. task \in Task /\ task.at = "walk" /\ task.tried = worker[w].tried
      BY <1>3 DEF Task
    <3>3. worker[w].tried \cap Good = {}
      BY <3>1 DEF WalksInv
    <3>4. PICK t : t = task
      OBVIOUS
    <3> HIDE DEF task
    <3>5. QED
      BY <1>2, <3>1, <3>2, <3>3, <3>4
  <2>6. QED
    BY <1>3, <2>1, <2>2, <2>3, <2>4, <2>5
<1>4. CASE Upload
  BY <1>3, <1>4 DEF Upload, StageInv, TypeOK, PlacementTypeOK
<1>5. CASE SenderControl
  <2>1. UNCHANGED worker
    BY <1>5 DEF SenderControl, ManifestPublished, ManifestAccepted, ManifestRefused,
       RingArrives, RingFails, Announce, AnnounceAccepted, AnnounceRefused, LoopEnds,
       SenderHears, HandleAck, SenderStops, SenderIdleTimeout, SenderLeaves, placementVars
  <2>2. QED
    BY <1>1, <2>1
<1>6. CASE Receiver \/ Lose \/ UNCHANGED vars
  BY <1>1, <1>6 DEF Receiver, HelloAccepted, HelloRefused, ReadManifest, ReceiverHears,
     RetryClock, FetchEnds, AckAccepted, AckRefused, DoneSettles, ReceiverStops,
     ReceiverLeaves, Lose, vars, placementVars
<1>7. QED
  BY <1>4, <1>5, <1>6 DEF Next, Over

LEMMA ReachStutter ==
  ASSUME NEW g \in Good, Reach(g),
         UNCHANGED <<placedPos, gen, nextOffset, retryQueue, worker>>
  PROVE  Reach(g)'
BY DEF Reach, WalkOrder, Distance, Carried, Busy, GenOf

\* What is known of the tasks and chunks a step of a worker is about.
LEMMA TaskFacts ==
  ASSUME StageInv, NEW w \in Worker
  PROVE  /\ worker[w] \in Task
         /\ worker[w].index \in Chunks /\ worker[w].pos \in Pos
         /\ worker[w].retry \in BOOLEAN
         /\ gen[worker[w].index] \in Nat /\ GenOf(worker[w]) \in Nat
         /\ \A v \in Worker : Busy(v) /\ Busy(w) /\ v # w
                                => worker[v].index # worker[w].index
         /\ Busy(w) => worker[w].index \notin retryQueue
<1>1. worker[w] \in Task
  BY DEF StageInv, TypeOK, PlacementTypeOK
<1>2. /\ worker[w].index \in Chunks /\ worker[w].pos \in Pos
      /\ worker[w].retry \in BOOLEAN
  BY <1>1 DEF Task
<1>3. gen[worker[w].index] \in Nat
  BY <1>2 DEF StageInv, TypeOK, PlacementTypeOK
<1>4. GenOf(worker[w]) \in Nat
  BY <1>2, <1>3 DEF GenOf
<1>5. QED
  BY <1>1, <1>2, <1>3, <1>4 DEF StageInv, RetryBookkeeping

\* A chunk taken up has as many relays in front of it as it may have.
LEMMA TakeReach ==
  ASSUME StageInv, NEW g \in Good, Reach(g), NEW w \in Worker, TakeRetry(w) \/ TakeNext(w)
  PROVE  Reach(g)'
<1>1. PICK i \in Chunks, task \in Task :
        /\ worker' = [worker EXCEPT ![w] = task]
        /\ task.at = "walk" /\ task.index = i
        /\ \/ /\ i \in retryQueue /\ task.retry
           \/ /\ i = nextChunk /\ ~task.retry
        /\ retryQueue' \subseteq retryQueue
  <2>1. CASE TakeRetry(w)
    <3>1. PICK i \in retryQueue :
            /\ worker' = [worker EXCEPT ![w] =
                           [Idle EXCEPT !.at = "walk", !.index = i, !.retry = TRUE]]
            /\ retryQueue' = retryQueue \ {i}
      BY <2>1 DEF TakeRetry
    <3> DEFINE task == [Idle EXCEPT !.at = "walk", !.index = i, !.retry = TRUE]
    <3>2. i \in Chunks
      BY DEF StageInv, TypeOK, PlacementTypeOK
    <3>3. task \in Task /\ task.at = "walk" /\ task.index = i /\ task.retry
      BY <3>2, IdleType DEF Idle, Task
    <3> HIDE DEF task
    <3>4. QED
      BY <3>1, <3>2, <3>3 DEF task
  <2>2. CASE TakeNext(w)
    <3> DEFINE task == [Idle EXCEPT !.at = "walk", !.index = nextChunk]
    <3>1. /\ worker' = [worker EXCEPT ![w] = task] /\ nextChunk \in Chunks
          /\ retryQueue' = retryQueue
      BY <2>2 DEF TakeNext, StageInv, TypeOK, PlacementTypeOK, Chunks
    <3>2. task \in Task /\ task.at = "walk" /\ task.index = nextChunk /\ ~task.retry
      BY <3>1, IdleType DEF Idle, Task
    <3> HIDE DEF task
    <3>3. QED
      BY <3>1, <3>2 DEF task
  <2>3. QED
    BY <2>1, <2>2
<1>2. /\ worker[w].at = "idle" /\ ~Busy(w)
      /\ UNCHANGED <<placedPos, gen, nextOffset>>
  BY DEF TakeRetry, TakeNext, Busy
<1>3. \A v \in Worker : worker'[v] = IF v = w THEN task ELSE worker[v]
  BY <1>1, WorkerUpdated DEF StageInv, TypeOK
<1>4. WalkOrder(i, g) \in Pos
  BY WalkOrderType DEF StageInv, TypeOK
<1>5. (IF task.retry THEN gen[i] + 1 ELSE gen[i]) + WalkOrder(i, g) < RingSize
  <2>1. CASE i \in retryQueue /\ task.retry
    <3>1. placedPos[i] \notin Good \cup {-1}
      BY <2>1 DEF Reach, StageInv, ChunkLifecycle
    <3>2. ~Carried(i)
      BY <2>1 DEF Carried, StageInv, RetryBookkeeping
    <3>3. QED
      BY <2>1, <3>1, <3>2 DEF Reach
  <2>2. CASE i = nextChunk /\ ~task.retry
    <3>1. i >= nextChunk
      BY <2>2 DEF Chunks
    <3>2. gen[i] = 0
      BY <3>1 DEF StageInv, ChunkLifecycle
    <3>3. QED
      BY <1>4, <2>2, <3>2 DEF Pos
  <2>3. QED
    BY <1>1, <2>1, <2>2
<1>6. SUFFICES ASSUME NEW j \in Chunks
      PROVE  /\ j \in retryQueue' => placedPos[j] \notin Good
             /\ placedPos[j] \notin Good \cup {-1} /\ ~Carried(j)' =>
                  gen[j] + 1 + WalkOrder(j, g) < RingSize
             /\ \A v \in Worker : worker'[v].index = j =>
                  /\ worker'[v].at = "walk" =>
                       (IF worker'[v].retry THEN gen[j] + 1 ELSE gen[j])
                         + WalkOrder(j, g) < RingSize
                  /\ worker'[v].at = "publish" /\ worker'[v].pos \notin Good =>
                       (IF worker'[v].retry THEN gen[j] + 1 ELSE gen[j])
                         + 1 + WalkOrder(j, g) < RingSize
  BY <1>2 DEF Reach, WalkOrder, Distance, GenOf
<1>7. j \in retryQueue' => placedPos[j] \notin Good
  BY <1>1 DEF Reach
<1>8. Carried(j) => Carried(j)'
  BY <1>2, <1>3 DEF Carried, Busy
<1>9. ASSUME NEW v \in Worker, worker'[v].index = j
      PROVE  /\ worker'[v].at = "walk" =>
                  (IF worker'[v].retry THEN gen[j] + 1 ELSE gen[j])
                    + WalkOrder(j, g) < RingSize
             /\ worker'[v].at = "publish" /\ worker'[v].pos \notin Good =>
                  (IF worker'[v].retry THEN gen[j] + 1 ELSE gen[j])
                    + 1 + WalkOrder(j, g) < RingSize
  <2>1. CASE v = w
    BY <1>1, <1>3, <1>5, <1>9, <2>1
  <2>2. CASE v # w
    BY <1>3, <1>9, <2>2 DEF Reach, GenOf
  <2>3. QED
    BY <2>1, <2>2
<1>10. QED
  BY <1>7, <1>8, <1>9 DEF Reach

\* A relay that is not good uses up one of those in front; none is demoted before it.
LEMMA TryReach ==
  ASSUME StageInv, WalksInv, GoodRelayBlameless, NEW g \in Good, Reach(g),
         NEW w \in Worker, TryRelay(w)
  PROVE  Reach(g)'
<1>1. PICK i \in Chunks : i = worker[w].index
  BY TaskFacts
<1>2. PICK pos \in Pos :
        /\ IsCandidate(i, worker[w].tried, pos)
        /\ worker' = [worker EXCEPT ![w] =
                       [worker[w] EXCEPT !.at = "publish", !.pos = pos,
                                         !.tried = worker[w].tried \cup {pos}]]
        /\ nextOffset' = [nextOffset EXCEPT ![i] = NextOffset(i, pos)]
  BY <1>1 DEF TryRelay
<1>3. /\ worker[w].at = "walk" /\ Busy(w)
      /\ UNCHANGED <<placedPos, gen, retryQueue>>
  BY DEF TryRelay, Busy
<1>4. PICK task \in Task :
        /\ worker' = [worker EXCEPT ![w] = task]
        /\ task.at = "publish" /\ task.pos = pos
        /\ task.index = i /\ task.retry = worker[w].retry
  <2> DEFINE task == [worker[w] EXCEPT !.at = "publish", !.pos = pos,
                                       !.tried = worker[w].tried \cup {pos}]
  <2>1. /\ task \in Task /\ task.at = "publish" /\ task.pos = pos
        /\ task.index = i /\ task.retry = worker[w].retry
    BY <1>1, TaskFacts DEF Task
  <2> HIDE DEF task
  <2>2. QED
    BY <1>2, <2>1 DEF task
<1>5. \A v \in Worker : worker'[v] = IF v = w THEN task ELSE worker[v]
  BY <1>4, WorkerUpdated DEF StageInv, TypeOK
<1>6. /\ gen[i] \in Nat /\ GenOf(worker[w]) \in Nat
      /\ \A v \in Worker : Busy(v) /\ v # w => worker[v].index # i
  BY <1>1, <1>3, TaskFacts
<1>7. WalkOrder(i, g) \in Pos /\ g \in Pos
  BY WalkOrderType DEF StageInv, TypeOK
<1>8. \A j \in Chunks : j # i => WalkOrder(j, g)' = WalkOrder(j, g)
  BY <1>2 DEF WalkOrder, Distance, StageInv, TypeOK, PlacementTypeOK
<1>9. pos \notin Good => WalkOrder(i, g)' < WalkOrder(i, g)
  <2>1. SUFFICES ASSUME pos \notin Good
                 PROVE  WalkOrder(i, g)' < WalkOrder(i, g)
    OBVIOUS
  <2>2. g \notin worker[w].tried /\ g \notin demoted /\ g # pos
    BY <1>3, <2>1 DEF WalksInv, GoodRelayBlameless
  <2>3. WalkOrder(i, pos) <= WalkOrder(i, g)
    BY <1>2, <1>7, <2>2 DEF IsCandidate
  <2>4. QED
    BY <1>2, <1>7, <2>2, <2>3, WalkAdvances DEF StageInv, TypeOK
<1>10. WalkOrder(i, g)' \in Int
  <2>1. PlacementTypeOK'
    BY TryRelayStage DEF StageInv, TypeOK
  <2>2. nextOffset'[i] \in Pos
    BY <2>1 DEF PlacementTypeOK
  <2>3. g - i \in Int
    BY <1>7 DEF Chunks, Pos
  <2>4. Distance(i, g) \in Pos
    BY <2>3, RingRemainder DEF Distance
  <2>5. Distance(i, g) - nextOffset'[i] \in Int
    BY <2>2, <2>4 DEF Pos
  <2>6. (Distance(i, g) - nextOffset'[i]) % RingSize \in Pos
    BY <2>5, RingRemainder
  <2>7. QED
    BY <2>6 DEF WalkOrder, Distance, Pos
<1>11. SUFFICES ASSUME NEW j \in Chunks
      PROVE  /\ j \in retryQueue => placedPos[j] \notin Good
             /\ placedPos[j] \notin Good \cup {-1} /\ ~Carried(j)' =>
                  gen[j] + 1 + WalkOrder(j, g)' < RingSize
             /\ \A v \in Worker : worker'[v].index = j =>
                  /\ worker'[v].at = "walk" =>
                       (IF worker'[v].retry THEN gen[j] + 1 ELSE gen[j])
                         + WalkOrder(j, g)' < RingSize
                  /\ worker'[v].at = "publish" /\ worker'[v].pos \notin Good =>
                       (IF worker'[v].retry THEN gen[j] + 1 ELSE gen[j])
                         + 1 + WalkOrder(j, g)' < RingSize
  BY <1>3 DEF Reach, GenOf
<1>12. CASE j = i
  <2>1. Carried(j)'
    BY <1>4, <1>5, <1>12 DEF Carried, Busy
  <2>2. \A v \in Worker : v # w /\ worker'[v].index = j => worker'[v].at = "idle"
    BY <1>5, <1>6, <1>12 DEF Busy
  <2>3. pos \notin Good =>
          (IF task.retry THEN gen[i] + 1 ELSE gen[i]) + 1 + WalkOrder(i, g)' < RingSize
    <3>1. GenOf(worker[w]) + WalkOrder(i, g) < RingSize
      BY <1>1, <1>3 DEF Reach
    <3>2. GenOf(worker[w]) = IF task.retry THEN gen[i] + 1 ELSE gen[i]
      BY <1>1, <1>4 DEF GenOf
    <3>3. QED
      BY <1>6, <1>7, <1>9, <1>10, <3>1, <3>2 DEF Pos
  <2>4. QED
    BY <1>4, <1>5, <1>12, <2>1, <2>2, <2>3 DEF Reach
<1>13. CASE j # i
  <2>1. Carried(j)' <=> Carried(j)
    BY <1>1, <1>4, <1>5, <1>13 DEF Carried, Busy
  <2>2. \A v \in Worker : worker'[v].index = j => worker'[v] = worker[v] /\ v # w
    BY <1>4, <1>5, <1>13
  <2>3. QED
    BY <1>8, <1>13, <2>1, <2>2 DEF Reach, GenOf
<1>14. QED
  BY <1>12, <1>13

\* A placement on a relay that is not good leaves the good ones within reach.
LEMMA PlacedReach ==
  ASSUME StageInv, NEW g \in Good, Reach(g), NEW w \in Worker, Placed(w)
  PROVE  Reach(g)'
<1>1. PICK i \in Chunks : i = worker[w].index
  BY TaskFacts
<1>2. /\ worker[w].at = "publish" /\ Busy(w)
      /\ worker' = [worker EXCEPT ![w] = Idle]
      /\ placedPos' = [placedPos EXCEPT ![i] = worker[w].pos]
      /\ gen' = [gen EXCEPT ![i] = GenOf(worker[w])]
      /\ UNCHANGED <<nextOffset, retryQueue>>
  BY <1>1 DEF Placed, Busy
<1>3. \A v \in Worker : /\ v # w => worker'[v] = worker[v]
                        /\ Busy(v)' <=> v # w /\ Busy(v)
  BY <1>2, WorkerFreed DEF StageInv, TypeOK
<1>4. worker'[w].at = "idle"
  BY <1>3, <1>2 DEF Busy
<1>5. /\ GenOf(worker[w]) \in Nat /\ i \notin retryQueue
      /\ \A v \in Worker : Busy(v) /\ v # w => worker[v].index # i
  BY <1>1, <1>2, TaskFacts
<1>6. /\ placedPos'[i] = worker[w].pos /\ gen'[i] = GenOf(worker[w])
      /\ \A j \in Chunks : j # i => placedPos'[j] = placedPos[j] /\ gen'[j] = gen[j]
  BY <1>2 DEF StageInv, TypeOK, PlacementTypeOK
<1>7. SUFFICES ASSUME NEW j \in Chunks
      PROVE  /\ j \in retryQueue => placedPos'[j] \notin Good
             /\ placedPos'[j] \notin Good \cup {-1} /\ ~Carried(j)' =>
                  gen'[j] + 1 + WalkOrder(j, g) < RingSize
             /\ \A v \in Worker : worker'[v].index = j =>
                  /\ worker'[v].at = "walk" =>
                       (IF worker'[v].retry THEN gen'[j] + 1 ELSE gen'[j])
                         + WalkOrder(j, g) < RingSize
                  /\ worker'[v].at = "publish" /\ worker'[v].pos \notin Good =>
                       (IF worker'[v].retry THEN gen'[j] + 1 ELSE gen'[j])
                         + 1 + WalkOrder(j, g) < RingSize
  BY <1>2 DEF Reach, WalkOrder, Distance, GenOf
<1>8. CASE j = i
  <2>1. worker[w].pos \notin Good => GenOf(worker[w]) + 1 + WalkOrder(i, g) < RingSize
    BY <1>1, <1>2 DEF Reach
  <2>2. \A v \in Worker : worker'[v].index = j => worker'[v].at = "idle"
    BY <1>3, <1>4, <1>5, <1>8 DEF Busy
  <2>3. QED
    BY <1>5, <1>6, <1>8, <2>1, <2>2
<1>9. CASE j # i
  <2>1. Carried(j)' <=> Carried(j)
    BY <1>1, <1>3, <1>9 DEF Carried
  <2>2. \A v \in Worker : worker'[v] = worker[v] \/ worker'[v].at = "idle"
    BY <1>3, <1>4
  <2>3. QED
    BY <1>6, <1>9, <2>1, <2>2 DEF Reach, GenOf
<1>10. QED
  BY <1>8, <1>9

\* The walk goes on from a relay that rejected the chunk.
LEMMA RejectedReach ==
  ASSUME StageInv, NEW g \in Good, Reach(g), NEW w \in Worker, Rejected(w)
  PROVE  Reach(g)'
<1>1. PICK i \in Chunks : i = worker[w].index
  BY TaskFacts
<1>2. /\ worker[w].at = "publish" /\ worker[w].pos \notin Good
      /\ UNCHANGED <<placedPos, gen, nextOffset, retryQueue>>
  BY DEF Rejected
<1>3. PICK task \in Task :
        /\ worker' = [worker EXCEPT ![w] = task]
        /\ task.at = "walk" /\ task.index = i /\ task.retry = worker[w].retry
  <2> DEFINE task == [worker[w] EXCEPT !.at = "walk"]
  <2>1. task \in Task /\ task.at = "walk" /\ task.index = i /\ task.retry = worker[w].retry
    BY <1>1, TaskFacts DEF Task
  <2>2. worker' = [worker EXCEPT ![w] = task]
    BY DEF Rejected
  <2> HIDE DEF task
  <2>3. QED
    BY <2>1, <2>2
<1>4. \A v \in Worker : worker'[v] = IF v = w THEN task ELSE worker[v]
  BY <1>3, WorkerUpdated DEF StageInv, TypeOK
<1>5. GenOf(worker[w]) \in Nat /\ WalkOrder(i, g) \in Pos
  BY TaskFacts, WalkOrderType DEF StageInv, TypeOK
<1>6. (IF task.retry THEN gen[i] + 1 ELSE gen[i]) + WalkOrder(i, g) < RingSize
  <2>1. GenOf(worker[w]) + 1 + WalkOrder(i, g) < RingSize
    BY <1>1, <1>2 DEF Reach
  <2>2. GenOf(worker[w]) = IF task.retry THEN gen[i] + 1 ELSE gen[i]
    BY <1>1, <1>3 DEF GenOf
  <2>3. QED
    BY <1>5, <2>1, <2>2 DEF Pos
<1>7. \A j \in Chunks : Carried(j)' <=> Carried(j)
  BY <1>1, <1>2, <1>3, <1>4 DEF Carried, Busy
<1>8. QED
  BY <1>2, <1>3, <1>4, <1>6, <1>7 DEF Reach, GenOf, WalkOrder, Distance

\* While the upload runs, a placement that may be struck leaves a re-send.
LEMMA NeverExhausted ==
  ASSUME StageInv, ~sFinished, NEW g \in Good, Reach(g), NEW missing \in SUBSET Missing,
         \A m \in missing : m.pos \notin Good
  PROVE  Exhausted(missing) = {}
<1>1. SUFFICES ASSUME NEW m \in Current(missing)
               PROVE  gen[m.index] < MaxRetransmits
  <2>1. \A m \in Current(missing) : gen[m.index] \in Nat
    BY DEF Current, Missing, StageInv, TypeOK, PlacementTypeOK
  <2>2. MaxRetransmits \in Nat
    BY DEF MaxRetransmits
  <2>3. QED
    BY <2>1, <2>2 DEF Exhausted
<1>2. PICK i \in Chunks : i = m.index
  BY DEF Current, Missing
<1>3. placedPos[i] \notin Good \cup {-1} /\ i \notin pendingRetry
  BY <1>2 DEF Current, Missing, Pos
<1>4. ~Carried(i)
  <2>1. SUFFICES ASSUME NEW w \in Worker, Busy(w), worker[w].index = i
                 PROVE  FALSE
    BY DEF Carried
  <2>2. CASE worker[w].retry
    BY <1>3, <2>1, <2>2 DEF Resending, StageInv, RetryBookkeeping
  <2>3. CASE ~worker[w].retry
    BY <1>3, <2>1, <2>3 DEF StageInv, ChunkLifecycle
  <2>4. QED
    BY <2>2, <2>3
<1>5. gen[i] + 1 + WalkOrder(i, g) < RingSize
  BY <1>3, <1>4 DEF Reach
<1>6. WalkOrder(i, g) \in Pos /\ gen[i] \in Nat
  BY WalkOrderType DEF StageInv, TypeOK, PlacementTypeOK
<1>7. QED
  BY <1>2, <1>5, <1>6 DEF MaxRetransmits, Pos

LEMMA ReportReach ==
  ASSUME StageInv, NEW g \in Good, Reach(g), NEW missing \in SUBSET Missing,
         HandleAck(missing), \A m \in missing : m.pos \notin Good
  PROVE  Reach(g)'
<1>1. /\ retryQueue' = retryQueue \cup Requeued(missing)
      /\ UNCHANGED <<placedPos, gen, nextOffset, worker>>
  BY DEF HandleAck
<1>2. \A i \in Requeued(missing) : placedPos[i] \notin Good
  BY DEF Requeued, Handled, Current
<1>3. QED
  BY <1>1, <1>2 DEF Reach, WalkOrder, Distance, Carried, Busy, GenOf

\* With a good relay in the ring, no step ends the upload for want of relays or of
\* re-sends.
LEMMA OutcomeReach ==
  ASSUME StageInv, BlamelessInv, [Next]_vars, WalksInv, NEW g \in Good,
         ~sFinished => Reach(g), sOutcome \notin {"undeliverable", "unplaceable"}
  PROVE  sOutcome' \notin {"undeliverable", "unplaceable"}
<1>1. CASE UNCHANGED sOutcome
  BY <1>1
<1>2. CASE Upload
  <2>1. ASSUME NEW w \in Worker, WalkEnds(w)
        PROVE  sOutcome' = sOutcome
    <3>1. worker[w].at = "walk" /\ (sFinished \/ worker[w].tried = Pos)
          /\ sOutcome' = Failing("unplaceable")
      BY <2>1 DEF WalkEnds
    <3>2. worker[w].tried # Pos
      BY <3>1 DEF WalksInv
    <3>3. QED
      BY <3>1, <3>2 DEF Failing
  <2>2. ASSUME NEW w \in Worker, WorkerCancelled(w)
        PROVE  sOutcome' \in {sOutcome, "stopped"}
    BY <2>2 DEF WorkerCancelled, Failing
  <2>3. QED
    BY <1>2, <2>1, <2>2 DEF Upload, TakeRetry, TakeNext, TryRelay, Placed, Rejected, senderVars
<1>3. CASE SenderHears
  <2>1. PICK k \in FreshForSender :
          \/ sOutcome' \in {sOutcome, "ok", "peer cancelled"}
          \/ HandleAck(r2s[k].missing)
    BY <1>3 DEF SenderHears
  <2>2. CASE HandleAck(r2s[k].missing)
    <3>1. k \in 1 .. Len(r2s) /\ r2s[k] \in ReceiverMessage
      BY DEF FreshForSender, StageInv, TypeOK, ChannelTypeOK
    <3>2. r2s[k].missing \in SUBSET Missing
      BY <3>1 DEF ReceiverMessage
    <3>3. \A m \in r2s[k].missing : m.pos \notin Good
      BY <3>1 DEF BlamelessInv, NotReported
    <3>4. Exhausted(r2s[k].missing) = {}
      BY <1>3, <3>2, <3>3, NeverExhausted DEF SenderHears
    <3>5. QED
      BY <2>2, <3>4 DEF HandleAck
  <2>3. QED
    BY <2>1, <2>2
<1>4. CASE SenderControl /\ ~SenderHears
  BY <1>4 DEF SenderControl, ManifestPublished, ManifestAccepted, ManifestRefused,
     RingArrives, RingFails, Announce, AnnounceAccepted, AnnounceRefused, LoopEnds,
     SenderStops, SenderIdleTimeout, SenderLeaves, Failing, senderVars
<1>5. CASE Receiver \/ Lose \/ UNCHANGED vars
  BY <1>5 DEF Receiver, HelloAccepted, HelloRefused, ReadManifest, ReceiverHears,
     RetryClock, FetchEnds, AckAccepted, AckRefused, DoneSettles, ReceiverStops,
     ReceiverLeaves, Lose, vars, senderVars
<1>6. QED
  BY <1>2, <1>3, <1>4, <1>5 DEF Next, Over

\* While the upload runs, each good relay stays within reach of each chunk.
LEMMA ReachNext ==
  ASSUME StageInv, BlamelessInv, [Next]_vars, WalksInv, NEW g \in Good, ~sFinished',
         Reach(g)
  PROVE  Reach(g)'
<1>1. GoodRelayBlameless
  BY DEF BlamelessInv
<1>2. CASE UNCHANGED placementVars
  BY <1>2, ReachStutter DEF placementVars
<1>3. CASE Upload
  <2>1. ASSUME NEW w \in Worker, WalkEnds(w) \/ WorkerCancelled(w)
        PROVE  FALSE
    BY <2>1 DEF WalkEnds, WorkerCancelled, Failing, sFinished
  <2>2. QED
    BY <1>1, <1>3, <2>1, TakeReach, TryReach, PlacedReach, RejectedReach DEF Upload
<1>4. CASE SenderHears
  <2>1. PICK k \in FreshForSender : HandleAck(r2s[k].missing) \/ UNCHANGED placementVars
    BY <1>4 DEF SenderHears
  <2>2. CASE HandleAck(r2s[k].missing)
    <3>1. k \in 1 .. Len(r2s) /\ r2s[k] \in ReceiverMessage
      BY DEF FreshForSender, StageInv, TypeOK, ChannelTypeOK
    <3>2. r2s[k].missing \in SUBSET Missing
      BY <3>1 DEF ReceiverMessage
    <3>3. \A m \in r2s[k].missing : m.pos \notin Good
      BY <3>1 DEF BlamelessInv, NotReported
    <3>4. QED
      BY <2>2, <3>2, <3>3, ReportReach
  <2>3. QED
    BY <1>2, <2>1, <2>2
<1>5. CASE SenderControl /\ ~SenderHears
  BY <1>2, <1>5 DEF SenderControl, ManifestPublished, ManifestAccepted, ManifestRefused,
     RingArrives, RingFails, Announce, AnnounceAccepted, AnnounceRefused, LoopEnds,
     SenderStops, SenderIdleTimeout, SenderLeaves
<1>6. CASE Receiver \/ Lose \/ UNCHANGED vars
  BY <1>2, <1>6 DEF Receiver, HelloAccepted, HelloRefused, ReadManifest, ReceiverHears,
     RetryClock, FetchEnds, AckAccepted, AckRefused, DoneSettles, ReceiverStops,
     ReceiverLeaves, Lose, vars
<1>7. QED
  BY <1>3, <1>4, <1>5, <1>6 DEF Next, Over

LEMMA DeliverNext ==
  ASSUME StageInv, BlamelessInv, [Next]_vars, DeliverInv
  PROVE  DeliverInv'
<1>1. sFinished => sFinished'
  BY OutcomeStep DEF Arrives, ReceiverEnds, SenderEnds, sFinished
<1>2. WalksInv'
  BY WalksNext DEF DeliverInv
<1>3. GoodRelayDelivers'
  BY OutcomeReach DEF DeliverInv, GoodRelayDelivers
<1>4. ASSUME ~sFinished', NEW g \in Good
      PROVE  Reach(g)'
  BY <1>1, <1>4, ReachNext DEF DeliverInv
<1>5. QED
  BY <1>2, <1>3, <1>4 DEF DeliverInv

LEMMA DeliverInit == Init => DeliverInv
<1> SUFFICES ASSUME Init PROVE DeliverInv
  OBVIOUS
<1>1. \A w \in Worker : worker[w].at = "idle"
  BY DEF Init, Idle
<1>2. \A i \in Chunks : placedPos[i] = -1 /\ i \notin retryQueue
  BY DEF Init
<1>3. GoodRelayDelivers /\ WalksInv
  BY <1>1 DEF Init, GoodRelayDelivers, WalksInv
<1>4. \A g \in Good : Reach(g)
  BY <1>1, <1>2 DEF Reach
<1>5. QED
  BY <1>3, <1>4 DEF DeliverInv

\* With one relay in the ring that takes and serves every chunk, an upload never
\* fails for want of relays or of re-sends, whatever the others do and however
\* many times each chunk has to move.
THEOREM GoodRelayDeliversCorrect == Spec => []GoodRelayDelivers
<1>1. StageInv /\ BlamelessInv /\ [Next]_vars /\ DeliverInv => DeliverInv'
  BY DeliverNext
<1>2. DeliverInv => GoodRelayDelivers
  BY DEF DeliverInv
<1>3. QED
  BY <1>1, <1>2, DeliverInit, BlamelessCorrect, PTL DEF Spec

-----------------------------------------------------------------------------
(* Strikes add up *)

LEMMA FiniteParts ==
  /\ IsFiniteSet(Chunks) /\ IsFiniteSet(Pos)
  /\ \A T \in SUBSET Chunks : IsFiniteSet(T) /\ Cardinality(T) \in Nat
<1>1. IsFiniteSet(Chunks)
  BY FS_Interval DEF Chunks
<1>2. IsFiniteSet(Pos)
  BY FS_Interval DEF Pos
<1>3. \A T \in SUBSET Chunks : IsFiniteSet(T)
  BY <1>1, FS_Subset
<1>4. QED
  BY <1>1, <1>2, <1>3, FS_CardinalityType

\* A report that exhausts no chunk counts once for each chunk it queues again.
LEMMA HandledCount ==
  ASSUME PlacementTypeOK, NEW missing \in SUBSET Missing, Exhausted(missing) = {}
  PROVE  /\ IsFiniteSet(Handled(missing))
         /\ IsFiniteSet(Requeued(missing))
         /\ Cardinality(Handled(missing)) = Cardinality(Requeued(missing))
<1> DEFINE f == [m \in Handled(missing) |-> m.index]
<1>1. Requeued(missing) = {m.index : m \in Handled(missing)}
  BY DEF Requeued
<1>2. \A m \in Handled(missing) :
        m \in Missing /\ placedPos[m.index] = m.pos /\ gen[m.index] = m.gen
  BY DEF Handled, Current
<1>3. \A m, n \in Handled(missing) : m.index = n.index => m = n
  BY <1>2 DEF Missing
<1>4. f \in Bijection(Handled(missing), Requeued(missing))
  BY <1>1, <1>3 DEF Bijection, Injection, Surjection, IsInjective
<1>5. Requeued(missing) \subseteq Chunks
  BY <1>1, <1>2 DEF Missing
<1>6. IsFiniteSet(Requeued(missing))
  BY <1>5, FiniteParts
<1>7. IsFiniteSet(Handled(missing))
  <2>1. f \in Injection(Handled(missing), Requeued(missing))
    BY <1>4 DEF Bijection
  <2>2. QED
    BY <1>6, <2>1, FS_Injection
<1>8. ExistsBijection(Handled(missing), Requeued(missing))
  BY <1>4 DEF ExistsBijection
<1>9. QED
  BY <1>6, <1>7, <1>8, FS_Bijection

\* Each chunk a report queues again is one strike, of one relay.
LEMMA StrikesOfReport ==
  ASSUME PlacementTypeOK, NEW missing \in SUBSET Missing, Exhausted(missing) = {}
  PROVE  SumFunction([p \in Pos |-> Strikes(missing, p)]) = Cardinality(Requeued(missing))
<1> DEFINE class == [m \in Handled(missing) |-> m.pos]
<1>1. IsFiniteSet(Handled(missing)) /\ IsFiniteSet(Pos)
  BY HandledCount, FiniteParts
<1>2. class \in [Handled(missing) -> Pos]
  BY DEF Handled, Current, Missing
<1>3. \A p \in Pos : Strikes(missing, p) = Cardinality({m \in Handled(missing) : class[m] = p})
  BY DEF Strikes
<1>4. [p \in Pos |-> Strikes(missing, p)]
        = [p \in Pos |-> Cardinality({m \in Handled(missing) : class[m] = p})]
  BY <1>3
<1> HIDE DEF class
<1>5. QED
  BY <1>1, <1>2, <1>4, HandledCount, CountByClass

LEMMA ReportAddsStrikes ==
  ASSUME StageInv, StrikesAccounted, ~sFinished, ~sFinished',
         NEW missing \in SUBSET Missing, HandleAck(missing)
  PROVE  StrikesAccounted'
<1>1. Exhausted(missing) = {} /\ PlacementTypeOK
  BY DEF HandleAck, sFinished, StageInv, TypeOK
<1> DEFINE struck == [p \in Pos |-> Strikes(missing, p)]
<1>2. misses \in [Pos -> Int] /\ struck \in [Pos -> Int] /\ IsFiniteSet(Pos)
  <2>1. \A p \in Pos : Strikes(missing, p) \in Nat
    BY <1>1, StrikesType
  <2>2. misses \in [Pos -> Int]
    BY <1>1 DEF PlacementTypeOK
  <2>3. QED
    BY <2>1, <2>2, FiniteParts
<1>3. misses' = [p \in Pos |-> misses[p] + struck[p]]
  BY DEF HandleAck
<1> HIDE DEF struck
<1>4. SumFunction(misses') = SumFunction(misses) + SumFunction(struck)
  BY <1>2, <1>3, SumOfPairs
<1>5. SumFunction(struck) = Cardinality(Requeued(missing))
  BY <1>1, StrikesOfReport DEF struck
<1>6. Cardinality(pendingRetry') = Cardinality(pendingRetry) + Cardinality(Requeued(missing))
  <2>1. IsFiniteSet(pendingRetry) /\ IsFiniteSet(Requeued(missing))
    BY <1>1, HandledCount, FiniteParts DEF PlacementTypeOK
  <2>2. pendingRetry \cap Requeued(missing) = {}
    BY DEF Requeued, Handled, Current
  <2>3. pendingRetry' = pendingRetry \cup Requeued(missing)
    BY DEF HandleAck
  <2>4. Cardinality(pendingRetry) \in Nat /\ Cardinality(Requeued(missing)) \in Nat
    BY <2>1, FS_CardinalityType
  <2>5. Cardinality(pendingRetry \cup Requeued(missing))
          = Cardinality(pendingRetry) + Cardinality(Requeued(missing))
            - Cardinality(pendingRetry \cap Requeued(missing))
    BY <2>1, FS_Union
  <2>6. Cardinality(pendingRetry \cap Requeued(missing)) = 0
    BY <2>2, FS_EmptySet
  <2>7. QED
    BY <2>3, <2>4, <2>5, <2>6
<1>7. SumFunction(gen') = SumFunction(gen)
  BY DEF HandleAck
<1>8. SumFunction(misses) = SumFunction(gen) + Cardinality(pendingRetry)
  BY DEF StrikesAccounted
<1>9. SumFunction(gen) \in Int /\ Cardinality(pendingRetry) \in Nat
      /\ Cardinality(Requeued(missing)) \in Nat
  <2>1. IsFiniteSet(pendingRetry) /\ IsFiniteSet(Requeued(missing)) /\ IsFiniteSet(Chunks)
    BY <1>1, HandledCount, FiniteParts DEF PlacementTypeOK
  <2>2. gen \in [Chunks -> Int]
    BY <1>1 DEF PlacementTypeOK
  <2>3. SumFunction(gen) \in Int
    BY <2>1, <2>2, SumType DEF SumFunction
  <2>4. QED
    BY <2>1, <2>3, FS_CardinalityType
<1>10. QED
  BY <1>4, <1>5, <1>6, <1>7, <1>8, <1>9 DEF StrikesAccounted

LEMMA ResendSettlesStrike ==
  ASSUME StageInv, StrikesAccounted, ~sFinished, NEW w \in Worker, Placed(w)
  PROVE  StrikesAccounted'
<1>1. PICK i \in Chunks : i = worker[w].index
  BY DEF StageInv, TypeOK, PlacementTypeOK, Task, Placed, Idle
<1>2. UNCHANGED misses /\ gen' = [gen EXCEPT ![i] = GenOf(worker[w])]
  BY <1>1 DEF Placed
<1>3. gen \in [Chunks -> Int] /\ IsFiniteSet(Chunks) /\ gen[i] \in Int
  BY FiniteParts DEF StageInv, TypeOK, PlacementTypeOK
<1>4. SumFunction(misses) = SumFunction(gen) + Cardinality(pendingRetry)
  BY DEF StrikesAccounted
<1>5. IsFiniteSet(pendingRetry) /\ pendingRetry \subseteq Chunks /\ Cardinality(pendingRetry) \in Nat
  BY FiniteParts DEF StageInv, TypeOK, PlacementTypeOK
<1>6. SumFunction(gen) \in Int
  BY <1>3, SumType DEF SumFunction
<1>7. CASE worker[w].retry
  <2>1. i \in pendingRetry
    BY <1>1, <1>7 DEF StageInv, RetryBookkeeping, Resending, Busy, Placed
  <2>2. pendingRetry' = pendingRetry \ {i}
    BY <1>1, <1>7 DEF Placed
  <2>3. Cardinality(pendingRetry') = Cardinality(pendingRetry) - 1
    BY <1>5, <2>1, <2>2, FS_RemoveElement
  <2>4. gen' = [gen EXCEPT ![i] = gen[i] + 1]
    BY <1>1, <1>2, <1>7 DEF GenOf
  <2>5. PICK g \in [Chunks -> Int] : g = gen
    BY <1>3
  <2>6. SumFunction(gen') = SumFunction(gen) + 1
    <3>1. SumFunction([g EXCEPT ![i] = g[i] + 1]) = SumFunction(g) + 1
      BY <1>3, SumOfIncrement
    <3>2. QED
      BY <2>4, <2>5, <3>1
  <2>7. QED
    BY <1>2, <1>4, <1>5, <1>6, <2>3, <2>6 DEF StrikesAccounted
<1>8. CASE ~worker[w].retry
  <2>1. UNCHANGED <<gen, pendingRetry, misses>>
    BY <1>1, <1>2, <1>3, <1>8 DEF GenOf, Placed
  <2>2. QED
    BY <1>4, <2>1 DEF StrikesAccounted
<1>9. QED
  BY <1>7, <1>8

LEMMA StrikesNext ==
  ASSUME StageInv, [Next]_vars, StrikesAccounted
  PROVE  StrikesAccounted'
<1>1. sFinished => sFinished'
  BY OutcomeStep DEF Arrives, ReceiverEnds, SenderEnds, sFinished
<1>2. SUFFICES ASSUME ~sFinished, ~sFinished' PROVE StrikesAccounted'
  BY <1>1 DEF StrikesAccounted
<1>3. ASSUME UNCHANGED <<gen, misses, pendingRetry>>
      PROVE  StrikesAccounted'
  BY <1>2, <1>3 DEF StrikesAccounted
<1>4. CASE Upload
  <2>1. ASSUME NEW w \in Worker, TakeRetry(w) \/ TakeNext(w) \/ TryRelay(w) \/ Rejected(w)
                                   \/ WalkEnds(w) \/ WorkerCancelled(w)
        PROVE  UNCHANGED <<gen, misses, pendingRetry>>
    BY <2>1 DEF TakeRetry, TakeNext, TryRelay, Rejected, WalkEnds, WorkerCancelled
  <2>2. QED
    BY <1>2, <1>3, <1>4, <2>1, ResendSettlesStrike DEF Upload
<1>5. CASE SenderHears
  <2>1. PICK k \in FreshForSender : HandleAck(r2s[k].missing) \/ UNCHANGED placementVars
    BY <1>5 DEF SenderHears
  <2>2. CASE HandleAck(r2s[k].missing)
    <3>1. k \in 1 .. Len(r2s) /\ r2s[k] \in ReceiverMessage
      BY DEF FreshForSender, StageInv, TypeOK, ChannelTypeOK
    <3>2. r2s[k].missing \in SUBSET Missing
      BY <3>1 DEF ReceiverMessage
    <3>3. QED
      BY <1>2, <2>2, <3>2, ReportAddsStrikes
  <2>3. QED
    BY <1>3, <2>1, <2>2 DEF placementVars
<1>6. CASE SenderControl /\ ~SenderHears
  BY <1>3, <1>6 DEF SenderControl, ManifestPublished, ManifestAccepted, ManifestRefused,
     RingArrives, RingFails, Announce, AnnounceAccepted, AnnounceRefused, LoopEnds,
     SenderStops, SenderIdleTimeout, SenderLeaves, placementVars
<1>7. CASE Receiver \/ Lose \/ UNCHANGED vars
  BY <1>3, <1>7 DEF Receiver, HelloAccepted, HelloRefused, ReadManifest, ReceiverHears,
     RetryClock, FetchEnds, AckAccepted, AckRefused, DoneSettles, ReceiverStops,
     ReceiverLeaves, Lose, vars, placementVars
<1>8. QED
  BY <1>4, <1>5, <1>6, <1>7 DEF Next, Over

LEMMA StrikesInit == Init => StrikesAccounted
<1> SUFFICES ASSUME Init PROVE StrikesAccounted
  OBVIOUS
<1>1. IsFiniteSet(Chunks) /\ IsFiniteSet(Pos)
  BY FS_Interval DEF Chunks, Pos
<1>2. SumFunction(gen) = 0 /\ SumFunction(misses) = 0
  BY <1>1, SumOfZeros DEF Init
<1>3. Cardinality(pendingRetry) = 0
  BY FS_EmptySet DEF Init
<1>4. QED
  BY <1>2, <1>3 DEF StrikesAccounted

\* A relay is charged for a chunk once, however often the chunk is reported and
\* however reports cross re-sends: strikes are the re-sends made and under way.
THEOREM StrikesAccountedCorrect == Spec => []StrikesAccounted
<1>1. StageInv /\ [Next]_vars /\ StrikesAccounted => StrikesAccounted'
  BY StrikesNext
<1>2. QED
  BY <1>1, StrikesInit, StageCorrect, PTL DEF Spec
================================================================================
