---------------------------- MODULE DirectTransfer -----------------------------
(***************************************************************************)
(* The direct transfer: how a file crosses one WebRTC connection and the      *)
(* lanes that join it.  The sender (sendFileOverLink) encrypts one chunk at a *)
(* time and hands it to whichever channel has room; the receiver              *)
(* (createTransferReceiver) puts the chunks in order, stores them, and        *)
(* completes when `end` counts as many as arrived.  The protocol is one-way:  *)
(* the sender is complete when its buffers are empty.                         *)
(*                                                                          *)
(* A byte travels chain -> buf -> net: the channel's send queue, which waits  *)
(* for room; the buffer `bufferedAmount` counts; and the network.             *)
(*                                                                          *)
(* Abstractions.                                                            *)
(*  - A chunk is its index and its size; a full chunk has size Full.          *)
(*  - bufferedAmount is counted in messages.                                 *)
(*  - Time is nondeterminism: a timer may fire whenever it is armed.          *)
(*  - Each side's caller closes the connections when its call has settled     *)
(*    (the sender after its linger).                                         *)
(***************************************************************************)
EXTENDS Integers, Sequences, FiniteSetsExt, SequencesExt

CONSTANTS
  Total,         \* number of chunks of the file
  LastSize,      \* size of the last one
  Extra,         \* lanes offered beside the first channel (EXTRA_LANES)
  Threshold,     \* BACKPRESSURE_THRESHOLD
  MaxChunks,     \* MAX_CHUNKS: the indices that fit in the wire's field
  MaxWire,       \* maxWireBytes
  MaxBacklog,    \* RECEIVE_BACKLOG_MAX_BYTES
  Breaks,        \* whether connections fail
  Impatient,     \* whether users cancel, and timers fire, at any moment
  StorageFails   \* whether writes fail

Full == 2
Lane == 0 .. Extra   \* 0 is the first channel

ASSUME DirectTransferAssumption ==
  /\ Total \in Nat /\ LastSize \in 1 .. Full
  /\ Extra \in Nat /\ Threshold \in Nat
  /\ MaxChunks \in Nat \ {0} /\ MaxWire \in Nat /\ MaxBacklog \in Nat
  /\ Breaks \in BOOLEAN /\ Impatient \in BOOLEAN /\ StorageFails \in BOOLEAN

VARIABLES
  \* Sender
  sPhase,     \* what sendFileOverLink awaits: "read", "chunk" (room for it),
              \* "end" (its send), "flush"; "telling" (giving up), "ok", "failed"
  sent,       \* chunks handed to the link
  stray,      \* a failed transfer's last chunk still waits for a channel
  channels,   \* the link's channels, in the order they were added
  sUsed,      \* channels that carried a message
  sendError,  \* a chunk's send failed
  sEnded,     \* the link ended
  sDead,      \* channels closed or failed at this side
  chain,      \* per channel: the send queue
  buf,        \* per channel: messages in the send buffer
  left,       \* history: chunks that left the send buffers
  \* Network
  net,        \* per channel: messages on their way
  down,       \* connections that failed or were closed by a side
  \* Receiver
  rOpen,      \* channels open at this side
  rUsed,      \* channels that carried a message
  waiting,    \* chunks that arrived ahead of a gap
  nextToStore, receivedChunks, highestIndex, shortIndex, claimed,
  expectedEnd,  \* what `end` claimed
  queue,      \* the append chain: chunks whose write is pending
  file,       \* chunks written, in order
  stored,     \* totalDecryptedBytes: their bytes
  rState,     \* "open", "storing" (`end` checked out), "ok", "failed"
  rWhy        \* what failed it

phaseVars == <<sPhase, sent, stray>>
linkVars == <<channels, sUsed, sendError, sEnded, sDead>>
wireVars == <<chain, buf, left, net, down>>
portVars == <<rOpen, rUsed>>
arrivalVars == <<waiting, nextToStore, receivedChunks, highestIndex, shortIndex,
                 claimed, expectedEnd>>
storeVars == <<queue, file, stored>>
outcomeVars == <<rState, rWhy>>
senderVars == <<phaseVars, linkVars>>
receiverVars == <<portVars, arrivalVars, storeVars, outcomeVars>>
vars == <<senderVars, wireVars, receiverVars>>

-----------------------------------------------------------------------------
(* Values *)

Chunk == [t : {"chunk"}, index : Nat, bytes : 1 .. Full]
Message == Chunk \cup [t : {"end", "abort"}, index : Nat, bytes : Nat]
Abort == [t |-> "abort", index |-> 0, bytes |-> 0]
NoIndex == -1
NoEnd == [chunks |-> -1, bytes |-> -1]

Size(i) == IF i = Total - 1 THEN LastSize ELSE Full
\* Bytes in the first n chunks.
Bytes(n) == IF n = Total /\ n > 0 THEN Full * (n - 1) + LastSize ELSE Full * n

-----------------------------------------------------------------------------
(* Sender *)

Working == {"read", "chunk", "end", "flush"}

\* fail(): the wait in progress gives way. A link that ended leaves nobody to
\* tell; otherwise the receiver is told first. What the abandoned call to
\* sendBinary was given stays with it.
FailByPeer ==
  /\ sPhase' = "failed" /\ stray' = FALSE
  /\ UNCHANGED sent
FailTelling ==
  /\ sPhase' = "telling" /\ stray' = (sPhase = "chunk")
  /\ UNCHANGED sent

WithinLimits(n) == n < MaxChunks /\ Bytes(n) + Size(n) <= MaxWire

\* The source yields the next chunk, or ends; sendChunk checks the limits and
\* encrypts.
Read ==
  /\ sPhase = "read"
  /\ \/ /\ sent < Total /\ WithinLimits(sent)
        /\ sPhase' = "chunk"
        /\ UNCHANGED <<sent, stray, chain>>
     \/ /\ sent < Total /\ ~WithinLimits(sent)
        /\ FailTelling /\ UNCHANGED chain
     \/ /\ sent = Total
        /\ sPhase' = "end"
        /\ chain' = [chain EXCEPT ![0] =
                      Append(@, [t |-> "end", index |-> sent, bytes |-> Bytes(sent)])]
        /\ UNCHANGED <<sent, stray>>
  /\ UNCHANGED <<linkVars, buf, left, net, down, receiverVars>>

\* sendBinary's loop: the first channel without a chunk in its queue takes this
\* one.
Busy(l) == \E k \in DOMAIN chain[l] : chain[l][k].t = "chunk"
HasRoom(k) ==
  /\ ~Busy(channels[k])
  /\ \A j \in 1 .. k - 1 : Busy(channels[j])
PutOnLink(k, i) ==
  /\ ~sendError /\ ~sEnded
  /\ chain' = [chain EXCEPT ![channels[k]] =
                 Append(@, [t |-> "chunk", index |-> i, bytes |-> Size(i)])]
  /\ sUsed' = sUsed \cup {channels[k]}
  /\ UNCHANGED <<channels, sendError, sEnded, sDead, buf, left, net, down>>

HandOver ==
  /\ sPhase = "chunk"
  /\ \E k \in DOMAIN channels : HasRoom(k) /\ PutOnLink(k, sent)
  /\ sent' = sent + 1 /\ sPhase' = "read"
  /\ UNCHANGED <<stray, receiverVars>>

HandOverFails ==
  /\ sPhase = "chunk" /\ sendError
  /\ sPhase' = "telling"
  /\ UNCHANGED <<sent, stray, linkVars, wireVars, receiverVars>>

\* The abandoned call finds room after all.
StraySend ==
  /\ stray
  /\ \E k \in DOMAIN channels : HasRoom(k) /\ PutOnLink(k, sent)
  /\ stray' = FALSE
  /\ UNCHANGED <<sPhase, sent, receiverVars>>

\* A failed send is remembered only until the flush, which must look at it.
UnsentForgotten == FALSE                       \* mutant: flush() ignores it
SendFailed == sendError

\* Channels this side may find not open: a broken one is "closing" before its
\* end is announced.
Gone == sDead \cup down

\* flush(): every channel's queue and buffer have emptied.
Drained(l) == chain[l] = <<>> /\ buf[l] = <<>>
FlushOk ==
  /\ sPhase = "flush"
  /\ \A l \in sUsed \cup {0} : Drained(l)
  /\ ~SendFailed
  /\ sPhase' = "ok"
  /\ UNCHANGED <<sent, stray, linkVars, wireVars, receiverVars>>

\* A channel ended with something unsent, or a send failed.
FlushFails ==
  /\ sPhase = "flush"
  /\ \/ \E l \in (sUsed \cup {0}) \cap Gone : chain[l] = <<>> /\ buf[l] # <<>>
     \/ (\A l \in sUsed \cup {0} : Drained(l)) /\ SendFailed
  /\ FailByPeer
  /\ UNCHANGED <<linkVars, wireVars, receiverVars>>

\* The user cancels, or the source fails.
SenderStops ==
  /\ Impatient /\ sPhase \in Working
  /\ FailTelling
  /\ UNCHANGED <<linkVars, wireVars, receiverVars>>

\* awaitLink's timer.
TimedOnceMoving == {"chunk", "end"}            \* mutant: none while flushing
Timed == {"chunk", "end", "flush"}
SenderStalls ==
  /\ Impatient /\ sPhase \in Timed
  /\ FailTelling
  /\ UNCHANGED <<linkVars, wireVars, receiverVars>>

\* sendAbort: past the queue, into the first channel's buffer, if it is open.
TellReceiver ==
  /\ sPhase = "telling"
  /\ sPhase' = "failed"
  /\ buf' = IF 0 \in sDead THEN buf ELSE [buf EXCEPT ![0] = Append(@, Abort)]
  /\ UNCHANGED <<sent, stray, linkVars, chain, left, net, down, receiverVars>>

\* The caller closes the connections: at once after a failure, after a success
\* when the receiver has hung up or the linger is over.
SenderCloses ==
  /\ sPhase = "failed" \/ (sPhase = "ok" /\ (Impatient \/ 0 \in sDead))
  /\ sDead # Lane
  /\ sDead' = Lane /\ sEnded' = TRUE /\ down' = Lane
  /\ UNCHANGED <<phaseVars, channels, sUsed, sendError, chain, buf, left, net,
                 receiverVars>>

-----------------------------------------------------------------------------
(* The sender's channels, and the network *)

\* transmit(): the head of the send queue moves to the buffer when there is room.
Transmit(l) ==
  /\ chain[l] # <<>> /\ l \notin sDead
  /\ Len(buf[l]) <= Threshold
  /\ chain' = [chain EXCEPT ![l] = Tail(@)]
  /\ buf' = [buf EXCEPT ![l] = Append(@, Head(chain[l]))]
  /\ sPhase' = IF Head(chain[l]).t = "end" /\ sPhase = "end" THEN "flush" ELSE sPhase
  /\ UNCHANGED <<sent, stray, linkVars, left, net, down, receiverVars>>

\* A send on a channel that is not open is rejected, and the next one tried. A
\* rejected chunk is remembered for whoever sends next; a rejected `end` fails
\* the transfer that awaits it.
TransmitFails(l) ==
  /\ chain[l] # <<>> /\ l \in Gone
  /\ chain' = [chain EXCEPT ![l] = Tail(@)]
  /\ IF Head(chain[l]).t = "chunk"
       THEN sendError' = TRUE /\ UNCHANGED phaseVars
       ELSE /\ UNCHANGED sendError
            /\ IF sPhase = "end" THEN FailTelling ELSE UNCHANGED phaseVars
  /\ UNCHANGED <<channels, sUsed, sEnded, sDead, buf, left, net, down, receiverVars>>

Leave(l) ==
  /\ buf[l] # <<>> /\ l \notin down
  /\ buf' = [buf EXCEPT ![l] = Tail(@)]
  /\ net' = [net EXCEPT ![l] = Append(@, Head(buf[l]))]
  /\ left' = IF Head(buf[l]).t = "chunk" THEN left + 1 ELSE left
  /\ UNCHANGED <<chain, down, senderVars, receiverVars>>

\* A lane opens at the sender, and joins the link.
LaneOpensAtSender(l) ==
  /\ \A k \in DOMAIN channels : channels[k] # l
  /\ l \notin down /\ ~sEnded
  /\ channels' = Append(channels, l)
  /\ UNCHANGED <<phaseVars, sUsed, sendError, sEnded, sDead, wireVars, receiverVars>>

\* LANE_OPEN_TIMEOUT_MS, or a lane that could not be offered or answered. The
\* receiver's timer is longer.
LaneGivenUp(l) ==
  /\ \A k \in DOMAIN channels : channels[k] # l
  /\ l \notin down
  /\ down' = down \cup {l}
  /\ UNCHANGED <<chain, buf, left, net, senderVars, receiverVars>>

Break(l) ==
  /\ Breaks /\ l \notin down
  /\ down' = down \cup {l}
  /\ UNCHANGED <<chain, buf, left, net, senderVars, receiverVars>>

\* What ends with a channel: the link, with the first or with one that was used.
EndsLink(l, used) == l = 0 \/ l \in used

\* The sender sees a channel's end; with the first one, every lane is closed.
SenderChannelEnds(l) ==
  /\ l \in down \ sDead /\ \E k \in DOMAIN channels : channels[k] = l
  /\ sDead' = IF l = 0 THEN Lane ELSE sDead \cup {l}
  /\ down' = IF l = 0 THEN Lane ELSE down
  /\ IF EndsLink(l, sUsed)
       THEN /\ sEnded' = TRUE
            /\ IF sPhase \in Working \ {"flush"} THEN FailByPeer ELSE UNCHANGED phaseVars
            /\ UNCHANGED channels
       ELSE /\ \E k \in DOMAIN channels :
                 channels[k] = l /\ channels' = RemoveAt(channels, k)
            /\ UNCHANGED <<sEnded, phaseVars>>
  /\ UNCHANGED <<sUsed, sendError, chain, buf, left, net, receiverVars>>

-----------------------------------------------------------------------------
(* Receiver *)

\* fail() and release(): a settled receiver, or one whose `end` checked out, has
\* let the link go.
UntilSettled == {"open", "storing"}     \* mutant: the link is kept while storing
ListeningStates == {"open"}
Listening == rState \in ListeningStates

Fail(why) == rState' = "failed" /\ rWhy' = why

\* The checks of handleChunk, in its order.
Unexpected(m) ==
  \/ m.index < nextToStore \/ \E c \in waiting : c.index = m.index
  \/ m.index >= MaxChunks
  \/ expectedEnd # NoEnd /\ m.index >= expectedEnd.chunks
InArrivalOrder(m) ==                    \* mutant: judged in the order of arrival
  shortIndex # NoIndex \/ (m.bytes < Full /\ m.index < highestIndex)
BadLength(m) == m.bytes < 1 \/ m.bytes > Full
ShortInside(m) ==
  \/ shortIndex # NoIndex /\ m.index > shortIndex
  \/ m.bytes < Full /\ (shortIndex # NoIndex \/ m.index < highestIndex)
TooLong(m) == claimed + m.bytes > MaxWire
WaitingOnly(m) ==                       \* mutant: chunks in the write queue are free
  MapThenSumSet(LAMBDA c : c.bytes, waiting) + m.bytes > MaxBacklog
Backlogged(m) == claimed - stored + m.bytes > MaxBacklog

\* Every chunk now contiguous goes to storage, in index order.
OnArrival(arrived) ==                   \* mutant: each chunk is stored as it comes
  /\ queue' = queue \o SetToSeq(arrived \ waiting)
  /\ nextToStore' = nextToStore + Cardinality(arrived \ waiting)
  /\ waiting' = {}
StoreRun(arrived) ==
  LET Has(i) == \E c \in arrived : c.index = i
      At(i) == CHOOSE c \in arrived : c.index = i
  IN
  /\ nextToStore' \in {n \in nextToStore .. highestIndex' + 1 :
                         ~Has(n) /\ \A i \in nextToStore .. n - 1 : Has(i)}
  /\ queue' = queue \o [k \in 1 .. nextToStore' - nextToStore |-> At(nextToStore + k - 1)]
  /\ waiting' = {c \in arrived : c.index >= nextToStore'}

\* complete(): the byte counts must agree; then only storing is left.
Complete(bytes, finalBytes) ==
  IF bytes = finalBytes
    THEN rState' = "storing" /\ UNCHANGED rWhy
    ELSE Fail("protocol")

NeverAtAChunk(count) == FALSE           \* mutant: only `end` itself completes
AllThere(count) == expectedEnd # NoEnd /\ count = expectedEnd.chunks

Accept(m) ==
  /\ shortIndex' = IF m.bytes < Full THEN m.index ELSE shortIndex
  /\ highestIndex' = IF m.index > highestIndex THEN m.index ELSE highestIndex
  /\ claimed' = claimed + m.bytes
  /\ receivedChunks' = receivedChunks + 1
  /\ StoreRun(waiting \cup {m})
  /\ IF AllThere(receivedChunks')
       THEN Complete(claimed', expectedEnd.bytes) ELSE UNCHANGED outcomeVars
  /\ UNCHANGED <<expectedEnd, file, stored>>

Violation(m) == Unexpected(m) \/ BadLength(m) \/ ShortInside(m) \/ TooLong(m)
HandleChunk(m) ==
  IF Violation(m) \/ Backlogged(m)
    THEN /\ Fail(IF Violation(m) THEN "protocol" ELSE "backlog")
         /\ waiting' = {}
         /\ UNCHANGED <<nextToStore, receivedChunks, highestIndex, shortIndex,
                        claimed, expectedEnd, storeVars>>
    ELSE Accept(m)

\* handleEnd: a count the chunks already contradict fails at once; one still
\* short of them waits for the rest.
Contradicted(m) ==
  \/ expectedEnd # NoEnd \/ m.index > MaxChunks \/ m.bytes > MaxWire
  \/ m.index < receivedChunks \/ m.index <= highestIndex
  \/ shortIndex # NoIndex /\ m.index # shortIndex + 1
  \/ m.bytes < claimed
HandleEnd(m) ==
  /\ IF Contradicted(m)
       THEN Fail("protocol") /\ waiting' = {} /\ UNCHANGED expectedEnd
       ELSE /\ expectedEnd' = [chunks |-> m.index, bytes |-> m.bytes]
            /\ IF receivedChunks = m.index
                 THEN Complete(claimed, m.bytes) ELSE UNCHANGED outcomeVars
            /\ UNCHANGED waiting
  /\ UNCHANGED <<nextToStore, receivedChunks, highestIndex, shortIndex, claimed,
                 storeVars>>

\* onMessage
Deliver(l) ==
  /\ l \in rOpen /\ net[l] # <<>>
  /\ net' = [net EXCEPT ![l] = Tail(@)]
  /\ rUsed' = rUsed \cup {l}
  /\ LET m == Head(net[l]) IN
     \/ /\ Listening /\ m.t = "chunk"
        /\ HandleChunk(m)
     \/ /\ Listening /\ m.t = "end"
        /\ HandleEnd(m)
     \/ /\ Listening /\ m.t = "abort"
        /\ Fail("abort") /\ waiting' = {}
        /\ UNCHANGED <<nextToStore, receivedChunks, highestIndex, shortIndex,
                       claimed, expectedEnd, storeVars>>
     \/ /\ ~Listening
        /\ UNCHANGED <<arrivalVars, storeVars, outcomeVars>>
  /\ UNCHANGED <<chain, buf, left, down, rOpen, senderVars>>

LaneOpensAtReceiver(l) ==
  /\ l \notin rOpen \cup down
  /\ rOpen' = rOpen \cup {l}
  /\ UNCHANGED <<rUsed, wireVars, arrivalVars, storeVars, outcomeVars, senderVars>>

\* The receiver sees a channel's end: what was still on its way is lost.
ReceiverChannelEnds(l) ==
  /\ l \in down \cap rOpen
  /\ rOpen' = IF l = 0 THEN {} ELSE rOpen \ {l}
  /\ down' = IF l = 0 THEN Lane ELSE down
  /\ IF EndsLink(l, rUsed) /\ Listening
       THEN Fail("link") /\ waiting' = {} ELSE UNCHANGED <<outcomeVars, waiting>>
  /\ UNCHANGED <<rUsed, chain, buf, left, net, nextToStore, receivedChunks,
                 highestIndex, shortIndex, claimed, expectedEnd, storeVars,
                 senderVars>>

\* The append chain writes its next chunk, unless the transfer has failed.
Write ==
  /\ rState \in {"open", "storing"} /\ queue # <<>>
  /\ queue' = Tail(queue)
  /\ file' = Append(file, Head(queue))
  /\ stored' = stored + Head(queue).bytes
  /\ UNCHANGED <<portVars, arrivalVars, outcomeVars, senderVars, wireVars>>

\* Everything is written: the file is sealed.
Seal ==
  /\ rState = "storing" /\ queue = <<>>
  /\ IF stored = expectedEnd.bytes
       THEN rState' = "ok" /\ UNCHANGED rWhy ELSE Fail("protocol")
  /\ UNCHANGED <<portVars, arrivalVars, storeVars, senderVars, wireVars>>

\* A write is rejected, or the sealing is.
StorageRejects ==
  /\ StorageFails
  /\ \/ rState \in {"open", "storing"} /\ queue # <<>>
     \/ rState = "storing" /\ queue = <<>>
  /\ Fail("storage") /\ waiting' = {}
  /\ UNCHANGED <<portVars, nextToStore, receivedChunks, highestIndex, shortIndex,
                 claimed, expectedEnd, storeVars, senderVars, wireVars>>

\* The idle watchdog: armed until `end` has checked out.
ReceiverStalls ==
  /\ Impatient /\ Listening
  /\ Fail("stall") /\ waiting' = {}
  /\ UNCHANGED <<portVars, nextToStore, receivedChunks, highestIndex, shortIndex,
                 claimed, expectedEnd, storeVars, senderVars, wireVars>>

\* dispose(): the user cancels.
ReceiverDisposes ==
  /\ Impatient /\ rState \in {"open", "storing"}
  /\ Fail("disposed") /\ waiting' = {}
  /\ UNCHANGED <<portVars, nextToStore, receivedChunks, highestIndex, shortIndex,
                 claimed, expectedEnd, storeVars, senderVars, wireVars>>

\* The caller closes the connections once `done` settles.
ReceiverCloses ==
  /\ rState \in {"ok", "failed"} /\ rOpen # {}
  /\ rOpen' = {} /\ down' = Lane
  /\ UNCHANGED <<rUsed, chain, buf, left, net, arrivalVars, storeVars, outcomeVars,
                 senderVars>>

-----------------------------------------------------------------------------
(* Specification *)

Init ==
  /\ sPhase = "read" /\ sent = 0 /\ stray = FALSE
  /\ channels = <<0>> /\ sUsed = {} /\ sendError = FALSE
  /\ sEnded = FALSE /\ sDead = {}
  /\ chain = [l \in Lane |-> <<>>] /\ buf = [l \in Lane |-> <<>>]
  /\ net = [l \in Lane |-> <<>>] /\ left = 0 /\ down = {}
  /\ rOpen = {0} /\ rUsed = {}
  /\ waiting = {} /\ nextToStore = 0 /\ receivedChunks = 0
  /\ highestIndex = NoIndex /\ shortIndex = NoIndex /\ claimed = 0
  /\ expectedEnd = NoEnd
  /\ queue = <<>> /\ file = <<>> /\ stored = 0
  /\ rState = "open" /\ rWhy = "none"

Send ==
  \/ Read \/ HandOver \/ HandOverFails \/ StraySend \/ FlushOk \/ FlushFails
  \/ SenderStops \/ SenderStalls \/ TellReceiver \/ SenderCloses

Channels == \E l \in Lane :
  \/ Transmit(l) \/ TransmitFails(l) \/ Leave(l) \/ Deliver(l)
  \/ LaneOpensAtSender(l) \/ LaneOpensAtReceiver(l) \/ LaneGivenUp(l) \/ Break(l)
  \/ SenderChannelEnds(l) \/ ReceiverChannelEnds(l)

Receive ==
  \/ Write \/ Seal \/ StorageRejects \/ ReceiverStalls \/ ReceiverDisposes
  \/ ReceiverCloses

\* Both callers have closed their connections.
sGone == sPhase \in {"ok", "failed"} /\ sDead = Lane
rGone == rState \in {"ok", "failed"} /\ rOpen = {}
Over == sGone /\ rGone /\ UNCHANGED vars

Next == Send \/ Channels \/ Receive \/ Over

Spec == Init /\ [][Next]_vars

\* What each side's own machine does: code that was scheduled runs, the source
\* and the storage answer, timers fire.
LocalFairness ==
  /\ WF_vars(Read \/ HandOver \/ HandOverFails) /\ WF_vars(FlushOk \/ FlushFails)
  /\ WF_vars(SenderStalls) /\ WF_vars(TellReceiver) /\ WF_vars(SenderCloses)
  /\ WF_vars(Write \/ Seal) /\ WF_vars(ReceiverStalls) /\ WF_vars(ReceiverCloses)
LocalSpec == Spec /\ LocalFairness

\* What the browser and the network do for a connection that holds.
NetworkFairness ==
  \A l \in Lane :
    /\ WF_vars(Transmit(l) \/ TransmitFails(l)) /\ WF_vars(Leave(l))
    /\ WF_vars(Deliver(l)) /\ WF_vars(LaneOpensAtReceiver(l))
    /\ WF_vars(SenderChannelEnds(l)) /\ WF_vars(ReceiverChannelEnds(l))
FairSpec == LocalSpec /\ NetworkFairness

-----------------------------------------------------------------------------
(* Properties *)

\* Every variable has its type.
SenderTypeOK ==
  /\ sPhase \in Working \cup {"telling", "ok", "failed"}
  /\ sent \in 0 .. Total /\ stray \in BOOLEAN
  /\ channels \in Seq(Lane) /\ sUsed \subseteq Lane
  /\ sendError \in BOOLEAN /\ sEnded \in BOOLEAN /\ sDead \subseteq Lane
WireTypeOK ==
  /\ chain \in [Lane -> Seq(Message)] /\ buf \in [Lane -> Seq(Message)]
  /\ net \in [Lane -> Seq(Message)] /\ left \in Nat /\ down \subseteq Lane
ReceiverTypeOK ==
  /\ rOpen \subseteq Lane /\ rUsed \subseteq Lane
  /\ waiting \subseteq Chunk
  /\ nextToStore \in Nat /\ receivedChunks \in Nat
  /\ highestIndex \in Nat \cup {NoIndex} /\ shortIndex \in Nat \cup {NoIndex}
  /\ claimed \in Nat
  /\ expectedEnd \in [chunks : Nat, bytes : Nat] \cup {NoEnd}
  /\ queue \in Seq(Chunk) /\ file \in Seq(Chunk) /\ stored \in Nat
  /\ rState \in {"open", "storing", "ok", "failed"}
  /\ rWhy \in {"none", "protocol", "backlog", "abort", "link", "storage", "stall",
               "disposed"}
TypeOK == SenderTypeOK /\ WireTypeOK /\ ReceiverTypeOK

\* Whatever channel each chunk took and whenever each channel opened, failed or
\* delivered, what is written is a prefix of the file, in order; and a receiver
\* that succeeds wrote all of it.
FileInOrder ==
  /\ \A k \in DOMAIN file : file[k].index = k - 1 /\ file[k].bytes = Size(k - 1)
  /\ rState = "ok" => Len(file) = Total

\* The checks against a sender that breaks the protocol never fire on one that
\* keeps it, in whatever order its chunks and its `end` arrive.
NoFalseAlarm == rWhy # "protocol"

\* What a receiver holds unwritten, waiting behind a gap or queued for storage,
\* stays within its limit.
BacklogBounded ==
  MapThenSumSet(LAMBDA c : c.bytes, waiting)
    + MapThenSumSet(LAMBDA k : queue[k].bytes, DOMAIN queue) <= MaxBacklog

\* Once `end` has checked out, nothing the sender or the network does can fail the
\* receiver: only its own storage, or its own user.
HeldIsSafe ==
  [][rState = "storing" /\ rState' = "failed" => rWhy' \in {"storage", "disposed"}]_vars

\* The transfer keeps the promise every way of moving a file makes.
Promise == INSTANCE FileDelivery WITH
  sender <- IF sPhase \in {"ok", "failed"} THEN sPhase ELSE "running",
  receiver <- IF rState = "storing" THEN "open" ELSE rState,
  out <- left = Total /\ Total > 0,
  held <- receivedChunks = Total /\ Total > 0
DeliversFile == Promise!Spec

\* With connections that hold and nobody giving up, both sides succeed, whatever
\* lanes open or are given up meanwhile.
BothSucceed == <>[](sPhase = "ok" /\ rState = "ok")

\* With no help from the network or the other side, both sides settle and hang up:
\* every wait has a timer, and none of them waits for another.
NobodyHangs == <>[](sGone /\ rGone)
================================================================================
