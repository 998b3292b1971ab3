------------------------------- MODULE LiveRelay -------------------------------
(***************************************************************************)
(* The live relay transfer: how a file crosses Nostr relays when no direct  *)
(* connection could be made.  The sender (nostr-file/upload-live.ts) puts    *)
(* each encrypted chunk on ONE storage relay of a ring and announces the     *)
(* placements over a control channel (nostr-file/control.ts); the receiver   *)
(* (nostr-file/download-live.ts) fetches what is announced and reports the   *)
(* placements it could not read, which the sender then moves elsewhere.      *)
(*                                                                          *)
(* Abstractions.                                                            *)
(*  - A chunk is its index, a storage relay its ring position.               *)
(*  - The control channel is one window of numbered messages per direction.  *)
(*    The number n a message carries is its place in the window: the window  *)
(*    holds the last Window messages, and one that is never heard was lost.  *)
(*    Delivery may skip, and may come back to a message already skipped:     *)
(*    the code's own `n` filter is what orders them.                         *)
(*  - The first message, the manifest, has a variable of its own.            *)
(*  - Time is nondeterminism: a timer may fire whenever it is armed.         *)
(***************************************************************************)
EXTENDS Integers, Sequences, FiniteSets, Functions

CONSTANTS
  Total,           \* number of chunks
  RingSize,        \* number of storage relays in the ring
  Worker,          \* the concurrent uploads: at most UPLOAD_CHUNK_CONCURRENCY
  MinRetransmits,  \* LIVE_MIN_RETRANSMITS_PER_CHUNK
  DemoteMisses,    \* LIVE_RELAY_DEMOTE_MISSES
  DemoteGiveUps,   \* LIVE_RELAY_DEMOTE_GIVEUPS
  Batch,           \* LIVE_BATCH_CHUNKS
  Window,          \* bound: control messages per direction still on the relays
  Good,            \* ring positions whose relay takes and serves every chunk
  Impatient,       \* whether users cancel, and timers fire, at any moment
  Refusals,        \* whether a send may be refused by every relay
  Lossy,           \* whether announcements, reports and the like vanish
  ManifestKept     \* whether the relays keep the manifest until it is read

Chunks == 0 .. Total - 1
Pos == 0 .. RingSize - 1

ASSUME LiveRelayAssumption ==
  /\ Total \in Nat \ {0}
  /\ RingSize \in Nat \ {0}
  /\ MinRetransmits \in Nat \ {0}
  /\ DemoteMisses \in Nat \ {0}
  /\ DemoteGiveUps \in Nat \ {0}
  /\ Batch \in Nat \ {0}
  /\ Window \in Nat \ {0}
  /\ Good \subseteq Pos
  /\ Impatient \in BOOLEAN
  /\ Refusals \in BOOLEAN
  /\ Lossy \in BOOLEAN
  /\ ManifestKept \in BOOLEAN

VARIABLES
  \* Sender: placement of the chunks
  placedPos,    \* ring position holding a chunk, -1 while unplaced
  gen,          \* how many times a chunk was re-sent
  nextOffset,   \* where a chunk's next walk of the ring starts
  misses,       \* strikes per relay: placements the receiver could not read
  giveUps,      \* publishes per relay that were rejected through every retry
  demoted,      \* relays passed over while any other is left
  upto,         \* chunks 0 .. upto-1 are all placed
  nextChunk,    \* the first chunk no worker has taken
  retryQueue,   \* chunks waiting to be re-sent
  pendingRetry, \* chunks whose re-send is queued or under way
  worker,       \* what each concurrent upload is doing
  \* Sender: control
  ring,         \* preparation of the storage ring: "pending", "ready", "failed"
  availDirty,   \* there is something new to announce
  loop,         \* the control loop: "manifest", "wait", "sending", "ended"
  heard,        \* the receiver was heard at least once (lastPeerAt > 0)
  sOutcome,     \* "running", "ok", or why the upload failed
  sGone,        \* sendFileLive has returned or thrown, its channel closed
  \* Control channel
  manifest,     \* "unsent", "sent" (on the relays), "read", "lost"
  s2r,          \* window of the sender's announcements and cancel
  lastSenderN,  \* receiver: place in s2r of the last message processed
  r2s,          \* window of the receiver's messages
  lastPeerN,    \* sender: place in r2s of the last message processed
  \* Receiver
  ringKnown,    \* a ring was adopted from an announcement
  view,         \* the latest announcement processed
  lastTried,    \* placement last tried for a chunk still missing
  tried,        \* placements the running cycle is fetching
  got,          \* chunks held, decrypted
  cycle,        \* fetch cycle: "idle", "fetching", "acking", "finishing"
  cyclePending, \* an announcement arrived during the cycle
  rOutcome,     \* receiver's outcome promise: "open", "ok", "failed"
  rMain         \* receiveFileLive itself: "hello", "wait", "refused",
                \* "returned", "threw"

placementVars == <<placedPos, gen, nextOffset, misses, giveUps, demoted, upto,
                   nextChunk, retryQueue, pendingRetry, worker>>
senderVars == <<ring, availDirty, loop, heard, sOutcome, sGone>>
channelVars == <<manifest, s2r, lastSenderN, r2s, lastPeerN>>
cycleVars == <<lastTried, tried, got, cycle, cyclePending>>
receiverVars == <<ringKnown, view, rOutcome, rMain>>
vars == <<placementVars, senderVars, channelVars, cycleVars, receiverVars>>

-----------------------------------------------------------------------------
(* Values *)

Placement == [pos : Pos, gen : Nat]
NoPlacement == [pos |-> -1, gen |-> 0]
Places == [Chunks -> Placement \cup {NoPlacement}]

\* What an announcement says of the chunks: how many are placed in a row, and
\* where; entries past upto are blank, as the message's map and gens stop there.
View == [upto : 0 .. Total, place : Places]
EmptyView == [upto |-> 0, place |-> [i \in Chunks |-> NoPlacement]]

\* One entry of an acknowledgement's missing list.
Missing == [index : Chunks, pos : Pos, gen : Nat]

SenderMessage ==
  [t : {"avail"}, ring : BOOLEAN, view : View]
    \cup [t : {"cancel"}, ring : {FALSE}, view : {EmptyView}]
ReceiverMessage == [t : {"hello", "ack", "done", "cancel"}, missing : SUBSET Missing]

SenderCancel == [t |-> "cancel", ring |-> FALSE, view |-> EmptyView]
Plain(t) == [t |-> t, missing |-> {}]

\* What a worker is doing: nothing, about to try a relay for a chunk, or
\* waiting for the relay at pos to take it.
Task == [at : {"idle", "walk", "publish"}, index : Chunks, retry : BOOLEAN,
         tried : SUBSET Pos, pos : Pos]
Idle == [at |-> "idle", index |-> 0, retry |-> FALSE, tried |-> {}, pos |-> 0]

-----------------------------------------------------------------------------
(* The control channel *)

\* A window with one message more; the oldest falls out of a full one, and
\* the places of the others move down by one.
Pushed(window, m) ==
  IF Len(window) < Window THEN Append(window, m) ELSE Append(Tail(window), m)
Shifted(window, last) ==
  IF Len(window) < Window \/ last = 0 THEN last ELSE last - 1

SenderSends(m) ==
  /\ s2r' = Pushed(s2r, m)
  /\ lastSenderN' = Shifted(s2r, lastSenderN)
  /\ UNCHANGED <<manifest, r2s, lastPeerN>>

ReceiverSends(m) ==
  /\ r2s' = Pushed(r2s, m)
  /\ lastPeerN' = Shifted(r2s, lastPeerN)
  /\ UNCHANGED <<manifest, s2r, lastSenderN>>

\* The numbers a side still listens to: above the last one it processed.
FreshForReceiver == {k \in 1 .. Len(s2r) : k > lastSenderN}
FreshForSender == {k \in 1 .. Len(r2s) : k > lastPeerN}

\* Messages vanish from every relay that held them.
Lose ==
  /\ \/ Lossy /\ s2r # <<>> /\ s2r' = <<>> /\ lastSenderN' = 0
        /\ UNCHANGED <<manifest, r2s, lastPeerN>>
     \/ Lossy /\ r2s # <<>> /\ r2s' = <<>> /\ lastPeerN' = 0
        /\ UNCHANGED <<manifest, s2r, lastSenderN>>
     \/ ~ManifestKept /\ manifest = "sent" /\ manifest' = "lost"
        /\ UNCHANGED <<s2r, lastSenderN, r2s, lastPeerN>>
  /\ UNCHANGED <<placementVars, senderVars, cycleVars, receiverVars>>

-----------------------------------------------------------------------------
(* Sender: placing chunks *)

sFinished == sOutcome # "running"

\* fail(): the first outcome stays.
Failing(why) == IF sFinished THEN sOutcome ELSE why

OnlyMinRetransmits == MinRetransmits   \* mutant: a larger ring gets no more re-sends
MaxRetransmits == IF RingSize > MinRetransmits THEN RingSize ELSE MinRetransmits

\* candidatePositions(index, startOffset)[0] of the positions not yet tried:
\* healthy relays before demoted ones, and in ring order from startOffset
\* places past the chunk's home position.
Distance(index, pos) == (pos - index) % RingSize
WalkOrder(index, pos) == (Distance(index, pos) - nextOffset[index]) % RingSize
NextOffset(index, pos) == (Distance(index, pos) + 1) % RingSize
IsCandidate(index, already, pos) ==
  /\ pos \in Pos \ already
  /\ \A other \in Pos \ already :
       /\ pos \in demoted => other \in demoted
       /\ (pos \in demoted <=> other \in demoted)
            => WalkOrder(index, pos) <= WalkOrder(index, other)

\* demote() called for each of the relays in some order: all of them are
\* demoted, but the last relay standing never is.
Demoting(relays) ==
  IF demoted \cup relays # Pos
    THEN {demoted \cup relays}
    ELSE {Pos \ {p} : p \in Pos \ demoted}

\* A worker picks a chunk and encrypts it: one waiting to be re-sent, or else the
\* next one never sent.
TakeRetry(w) ==
  /\ ring = "ready" /\ ~sFinished /\ worker[w].at = "idle"
  /\ \E i \in retryQueue :
       /\ retryQueue' = retryQueue \ {i}
       /\ worker' = [worker EXCEPT ![w] =
                      [Idle EXCEPT !.at = "walk", !.index = i, !.retry = TRUE]]
  /\ UNCHANGED <<placedPos, gen, nextOffset, misses, giveUps, demoted, upto,
                 nextChunk, pendingRetry, senderVars, channelVars, cycleVars,
                 receiverVars>>

TakeNext(w) ==
  /\ ring = "ready" /\ ~sFinished /\ worker[w].at = "idle"
  /\ retryQueue = {} /\ nextChunk < Total
  /\ nextChunk' = nextChunk + 1
  /\ worker' = [worker EXCEPT ![w] = [Idle EXCEPT !.at = "walk", !.index = nextChunk]]
  /\ UNCHANGED <<placedPos, gen, nextOffset, misses, giveUps, demoted, upto,
                 retryQueue, pendingRetry, senderVars, channelVars, cycleVars,
                 receiverVars>>

\* The walk's next attempt: candidates are ranked anew each time, and the next
\* walk of this chunk starts past the relay tried now.
TryRelay(w) ==
  LET task == worker[w] IN
  /\ task.at = "walk" /\ ~sFinished
  /\ \E pos \in Pos :
       /\ IsCandidate(task.index, task.tried, pos)
       /\ worker' = [worker EXCEPT ![w] =
                      [task EXCEPT !.at = "publish", !.pos = pos,
                                   !.tried = task.tried \cup {pos}]]
       /\ nextOffset' = [nextOffset EXCEPT ![task.index] =
                          NextOffset(task.index, pos)]
  /\ UNCHANGED <<placedPos, gen, misses, giveUps, demoted, upto, nextChunk,
                 retryQueue, pendingRetry, senderVars, channelVars, cycleVars,
                 receiverVars>>

\* Where `while (upto < total && placedPos[upto] >= 0) upto++` ends.
PlacedPrefixes(places) ==
  {n \in 0 .. Total : /\ \A i \in Chunks : i < n => places[i] # -1
                      /\ n < Total => places[n] = -1}

SameGen(task) == gen[task.index]               \* mutant: a re-send keeps its generation
GenOf(task) == IF task.retry THEN gen[task.index] + 1 ELSE gen[task.index]

\* The relay took the chunk: the placement is recorded and, for a re-send, at a
\* batch boundary or at the end, announced.
Placed(w) ==
  LET task == worker[w]
      i == task.index
  IN
  /\ task.at = "publish"
  /\ worker' = [worker EXCEPT ![w] = Idle]
  /\ placedPos' = [placedPos EXCEPT ![i] = task.pos]
  /\ gen' = [gen EXCEPT ![i] = GenOf(task)]
  /\ pendingRetry' = IF task.retry THEN pendingRetry \ {i} ELSE pendingRetry
  /\ upto' \in PlacedPrefixes(placedPos')
  /\ availDirty' = \/ availDirty
                   \/ task.retry
                   \/ upto' = Total
                   \/ upto \div Batch # upto' \div Batch
  /\ UNCHANGED <<nextOffset, misses, giveUps, demoted, nextChunk, retryQueue,
                 ring, loop, heard, sOutcome, sGone, channelVars, cycleVars,
                 receiverVars>>

\* The relay rejected it through every retry.
Rejected(w) ==
  LET task == worker[w] IN
  /\ task.at = "publish" /\ task.pos \notin Good
  /\ giveUps' = [giveUps EXCEPT ![task.pos] = giveUps[task.pos] + 1]
  /\ demoted' \in IF giveUps'[task.pos] >= DemoteGiveUps
                    THEN Demoting({task.pos}) ELSE {demoted}
  /\ worker' = [worker EXCEPT ![w] = [task EXCEPT !.at = "walk"]]
  /\ UNCHANGED <<placedPos, gen, nextOffset, misses, upto, nextChunk, retryQueue,
                 pendingRetry, senderVars, channelVars, cycleVars, receiverVars>>

\* mutant: the walk does not look at `finished`
WalkEndsExhausted(w) ==
  /\ worker[w].at = "walk" /\ worker[w].tried = Pos
  /\ sOutcome' = Failing("unplaceable")
  /\ worker' = [worker EXCEPT ![w] = Idle]
  /\ UNCHANGED <<placedPos, gen, nextOffset, misses, giveUps, demoted, upto,
                 nextChunk, retryQueue, pendingRetry, ring, availDirty, loop,
                 heard, sGone, channelVars, cycleVars, receiverVars>>

\* A walk ends without a placement: the transfer is over already, or every
\* relay was tried, which ends it.
WalkEnds(w) ==
  LET task == worker[w] IN
  /\ task.at = "walk"
  /\ sFinished \/ task.tried = Pos
  /\ sOutcome' = Failing("unplaceable")
  /\ worker' = [worker EXCEPT ![w] = Idle]
  /\ UNCHANGED <<placedPos, gen, nextOffset, misses, giveUps, demoted, upto,
                 nextChunk, retryQueue, pendingRetry, ring, availDirty, loop,
                 heard, sGone, channelVars, cycleVars, receiverVars>>

\* throwIfCancelled: a worker sees that the user cancelled, and what a relay made of
\* its chunk is not looked at.
WorkerCancelled(w) ==
  /\ Impatient /\ worker[w].at # "idle"
  /\ sOutcome' = Failing("stopped")
  /\ worker' = [worker EXCEPT ![w] = Idle]
  /\ UNCHANGED <<placedPos, gen, nextOffset, misses, giveUps, demoted, upto,
                 nextChunk, retryQueue, pendingRetry, ring, availDirty, loop,
                 heard, sGone, channelVars, cycleVars, receiverVars>>

-----------------------------------------------------------------------------
(* Sender: control *)

\* channel.send(manifest) was accepted by a relay: the control loop starts,
\* with a first announcement.
ManifestAccepted ==
  /\ loop = "manifest" /\ manifest # "unsent"
  /\ loop' = "wait" /\ availDirty' = TRUE
  /\ UNCHANGED <<placementVars, ring, heard, sOutcome, sGone, channelVars,
                 cycleVars, receiverVars>>

\* Every relay gave the manifest up: sendFileLive throws, without a cancel.
ManifestRefused ==
  /\ Refusals /\ loop = "manifest" /\ manifest # "unsent"
  /\ loop' = "ended" /\ sOutcome' = Failing("refused") /\ sGone' = TRUE
  /\ UNCHANGED <<placementVars, ring, availDirty, heard, channelVars, cycleVars,
                 receiverVars>>

\* The manifest event goes out to the relays.
ManifestPublished ==
  /\ loop = "manifest" /\ manifest = "unsent"
  /\ manifest' = "sent"
  /\ UNCHANGED <<placementVars, senderVars, s2r, lastSenderN, r2s, lastPeerN,
                 cycleVars, receiverVars>>

\* The storage ring prepared behind the exchange arrives, or its search fails.
\* Once the upload is over the ring is not adopted, only waited for.
RingArrives ==
  /\ ring = "pending" /\ loop # "manifest" /\ ~sGone
  /\ ring' = "ready"
  /\ availDirty' = (availDirty \/ ~sFinished)
  /\ UNCHANGED <<placementVars, loop, heard, sOutcome, sGone, channelVars,
                 cycleVars, receiverVars>>

RingFails ==
  /\ Refusals /\ ring = "pending" /\ loop # "manifest" /\ ~sGone
  /\ ring' = "failed" /\ sOutcome' = Failing("no ring")
  /\ UNCHANGED <<placementVars, availDirty, loop, heard, sGone, channelVars,
                 cycleVars, receiverVars>>

\* buildAvail()
Announcement ==
  [t |-> "avail",
   ring |-> ring = "ready",
   view |-> [upto |-> upto,
             place |-> [i \in Chunks |->
                          IF i < upto THEN [pos |-> placedPos[i], gen |-> gen[i]]
                                      ELSE NoPlacement]]]

\* One pass of the control loop: something new, or the heartbeat.
Announce ==
  /\ loop = "wait" /\ ~sFinished
  /\ loop' = "sending" /\ availDirty' = FALSE
  /\ SenderSends(Announcement)
  /\ UNCHANGED <<placementVars, ring, heard, sOutcome, sGone, cycleVars,
                 receiverVars>>

\* mutant: the flag is cleared when the announcement is out, not when it is built
AnnounceAcceptedClearing ==
  /\ loop = "sending"
  /\ loop' = "wait" /\ availDirty' = FALSE
  /\ UNCHANGED <<placementVars, ring, heard, sOutcome, sGone, channelVars,
                 cycleVars, receiverVars>>
AnnounceAccepted ==
  /\ loop = "sending"
  /\ loop' = "wait"
  /\ UNCHANGED <<placementVars, ring, availDirty, heard, sOutcome, sGone,
                 channelVars, cycleVars, receiverVars>>

AnnounceRefused ==
  /\ Refusals /\ loop = "sending"
  /\ loop' = "ended" /\ sOutcome' = Failing("refused")
  /\ UNCHANGED <<placementVars, ring, availDirty, heard, sGone, channelVars,
                 cycleVars, receiverVars>>

LoopEnds ==
  /\ loop = "wait" /\ sFinished
  /\ loop' = "ended"
  /\ UNCHANGED <<placementVars, ring, availDirty, heard, sOutcome, sGone,
                 channelVars, cycleVars, receiverVars>>

\* mutant: a chunk already on its way again is struck and queued once more
CurrentOrPending(missing) ==
  {m \in missing : placedPos[m.index] = m.pos /\ gen[m.index] = m.gen}

\* handleAck: entries naming a placement since replaced, or a chunk already on
\* its way again, are passed over; each other one is a strike against its relay
\* and queues the chunk, until one that has no re-sends left ends the upload.
Current(missing) ==
  {m \in missing : /\ placedPos[m.index] = m.pos
                   /\ gen[m.index] = m.gen
                   /\ m.index \notin pendingRetry}
Exhausted(missing) == {m \in Current(missing) : gen[m.index] >= MaxRetransmits}
Handled(missing) ==
  {m \in Current(missing) : \A e \in Exhausted(missing) : m.index <= e.index}
Requeued(missing) == {m.index : m \in Handled(missing) \ Exhausted(missing)}
Strikes(missing, pos) == Cardinality({m \in Handled(missing) : m.pos = pos})

HandleAck(missing) ==
  /\ misses' = [p \in Pos |-> misses[p] + Strikes(missing, p)]
  /\ demoted' \in Demoting({p \in Pos : /\ Strikes(missing, p) > 0
                                        /\ misses'[p] >= DemoteMisses})
  /\ retryQueue' = retryQueue \cup Requeued(missing)
  /\ pendingRetry' = pendingRetry \cup Requeued(missing)
  /\ sOutcome' = IF Exhausted(missing) # {} THEN "undeliverable" ELSE sOutcome
  /\ UNCHANGED <<placedPos, gen, nextOffset, giveUps, upto, nextChunk, worker,
                 availDirty>>

\* onMessage: a control message reaches the sender.
SenderHears ==
  /\ ~sFinished /\ ~sGone
  /\ \E k \in FreshForSender :
       LET m == r2s[k] IN
       /\ lastPeerN' = k
       /\ \/ /\ m.t = "hello"
             /\ availDirty' = TRUE
             /\ UNCHANGED <<placementVars, sOutcome>>
          \/ /\ m.t = "ack"
             /\ HandleAck(m.missing)
          \/ /\ m.t = "done"
             /\ sOutcome' = "ok"
             /\ UNCHANGED <<placementVars, availDirty>>
          \/ /\ m.t = "cancel"
             /\ sOutcome' = "peer cancelled"
             /\ UNCHANGED <<placementVars, availDirty>>
  /\ heard' = TRUE
  /\ UNCHANGED <<ring, loop, sGone, manifest, s2r, lastSenderN, r2s, cycleVars,
                 receiverVars>>

\* The user cancels, or the copies expire.
SenderStops ==
  /\ Impatient /\ loop # "manifest" /\ ~sFinished
  /\ sOutcome' = "stopped"
  /\ UNCHANGED <<placementVars, ring, availDirty, loop, heard, sGone,
                 channelVars, cycleVars, receiverVars>>

\* The idle watchdog, armed once everything is placed and the receiver was
\* heard.  Patient instances let it fire only on a receiver that has left.
SenderIdleTimeout ==
  /\ upto = Total /\ heard /\ loop # "manifest" /\ ~sFinished
  /\ Impatient \/ (rMain \in {"returned", "threw"} /\ FreshForSender = {})
  /\ sOutcome' = "idle"
  /\ UNCHANGED <<placementVars, ring, availDirty, loop, heard, sGone,
                 channelVars, cycleVars, receiverVars>>

\* The teardown waits for the ring, the workers and the loop, then tells a
\* receiver that still waits that there is nothing to wait for.
SenderLeaves ==
  /\ sFinished /\ ~sGone
  /\ ring # "pending" /\ loop = "ended"
  /\ \A w \in Worker : worker[w].at = "idle"
  /\ sGone' = TRUE
  /\ IF sOutcome = "ok" THEN UNCHANGED channelVars ELSE SenderSends(SenderCancel)
  /\ UNCHANGED <<placementVars, ring, availDirty, loop, heard, sOutcome,
                 cycleVars, receiverVars>>

-----------------------------------------------------------------------------
(* Receiver *)

rFinished == rOutcome # "open" \/ rMain \notin {"hello", "wait"}
rGone == rMain \in {"returned", "threw"}

LastOutcome(outcome) == outcome   \* mutant: a later outcome replaces the first

\* fail() and succeed(): the first outcome stays.
Settling(outcome) == IF rFinished THEN rOutcome ELSE outcome

ReadManifest ==
  /\ manifest = "sent" /\ ~rFinished
  /\ manifest' = "read"
  /\ UNCHANGED <<placementVars, senderVars, s2r, lastSenderN, r2s, lastPeerN,
                 cycleVars, receiverVars>>

\* A placement worth a fetch: not the one just tried, unless it has cooled down
\* (LIVE_FETCH_RETRY_MS).
NeverTried(i, place, cooled) ==              \* mutant: a new placement is not new
  lastTried[i] = NoPlacement
Untried(i, place, cooled) == lastTried[i] # place \/ i \in cooled

\* The start of a fetch cycle over the announcement v: every announced chunk
\* still missing is tried at its placement; any of them may have cooled down.
BeginCycle(v) ==
  \E cooled \in SUBSET Chunks :
    /\ tried' = [i \in Chunks |->
                  IF /\ i < v.upto /\ i \notin got
                     /\ Untried(i, v.place[i], cooled)
                    THEN v.place[i] ELSE NoPlacement]
    /\ cycle' = "fetching" /\ cyclePending' = FALSE
    /\ UNCHANGED <<lastTried, got>>

\* mutant: an announcement during a cycle is not followed by another pass
ScheduleCycleOnce(v) ==
  IF cycle = "idle" THEN BeginCycle(v) ELSE UNCHANGED cycleVars

\* scheduleCycle(): start one, or have the running one go round again.
ScheduleCycle(v) ==
  IF cycle = "idle"
    THEN BeginCycle(v)
    ELSE cyclePending' = TRUE /\ UNCHANGED <<lastTried, tried, got, cycle>>

\* onMessage: an announcement, or the sender's cancel, reaches the receiver.
ReceiverHears ==
  /\ ~rFinished
  /\ \E k \in FreshForReceiver :
       LET m == s2r[k] IN
       /\ lastSenderN' = k
       /\ \/ /\ m.t = "avail" /\ manifest = "read"
             /\ view' = m.view
             /\ ringKnown' = (ringKnown \/ m.ring)
             /\ IF ringKnown' /\ m.view.upto > 0
                  THEN ScheduleCycle(m.view) ELSE UNCHANGED cycleVars
             /\ UNCHANGED rOutcome
          \/ /\ m.t = "cancel"
             /\ rOutcome' = "failed"
             /\ UNCHANGED <<view, ringKnown, cycleVars>>
  /\ UNCHANGED <<placementVars, senderVars, manifest, s2r, r2s, lastPeerN, rMain>>

\* The retry clock: with announced chunks missing, a cycle runs although no
\* announcement came.
RetryClock ==
  /\ ~rFinished /\ ringKnown /\ cycle = "idle"
  /\ view.upto > Cardinality(got)
  /\ BeginCycle(view)
  /\ UNCHANGED <<placementVars, senderVars, channelVars, receiverVars>>

\* The placement an acknowledgement blames for a missing chunk: the one that was
\* tried, whatever was announced since.
BlameLatest(last, i) == view.place[i]        \* mutant: the latest one announced
BlameTried(last, i) == last[i]

\* Every relay asked has answered or timed out: what could not be read is
\* remembered, and every announced chunk still missing is reported with the
\* placement that was tried for it.
FetchEnds ==
  /\ cycle = "fetching"
  /\ \E read \in SUBSET {i \in Chunks : tried[i] # NoPlacement} :
       /\ \A i \in Chunks : tried[i].pos \in Good => i \in read
       /\ got' = got \cup read
       /\ lastTried' = [i \in Chunks |->
                          IF tried[i] # NoPlacement /\ i \notin got'
                            THEN tried[i] ELSE lastTried[i]]
  /\ tried' = [i \in Chunks |-> NoPlacement]
  /\ IF rFinished
       THEN cycle' = "idle" /\ UNCHANGED channelVars
       ELSE /\ cycle' = "acking"
            /\ ReceiverSends(
                 [t |-> "ack",
                  missing |->
                    {[index |-> i, pos |-> BlameTried(lastTried', i).pos,
                      gen |-> BlameTried(lastTried', i).gen] :
                       i \in {j \in Chunks : /\ j < view.upto /\ j \notin got'
                                             /\ lastTried'[j] # NoPlacement}}])
  /\ UNCHANGED <<cyclePending, placementVars, senderVars, receiverVars>>

HoldsAll == got = Chunks

\* A relay took the acknowledgement.  With the whole file in hand it is
\* verified and handed over, and `done` sent; otherwise the cycle goes round
\* again when an announcement came meanwhile.
AckAccepted ==
  /\ cycle = "acking"
  /\ \/ /\ HoldsAll
        /\ rOutcome' = Settling("ok")
        /\ cycle' = "finishing"
        /\ ReceiverSends(Plain("done"))
        /\ UNCHANGED <<lastTried, tried, got, cyclePending>>
     \/ /\ ~HoldsAll /\ cyclePending /\ ~rFinished
        /\ BeginCycle(view)
        /\ UNCHANGED <<rOutcome, channelVars>>
     \/ /\ ~HoldsAll /\ (~cyclePending \/ rFinished)
        /\ cycle' = "idle"
        /\ UNCHANGED <<lastTried, tried, got, cyclePending, rOutcome, channelVars>>
  /\ UNCHANGED <<placementVars, senderVars, ringKnown, view, rMain>>

AckRefused ==
  /\ Refusals /\ cycle = "acking"
  /\ rOutcome' = Settling("failed")
  /\ cycle' = "idle"
  /\ UNCHANGED <<lastTried, tried, got, cyclePending, placementVars, senderVars,
                 channelVars, ringKnown, view, rMain>>

\* The outcome of sending `done` is ignored.
DoneSettles ==
  /\ cycle = "finishing"
  /\ cycle' = "idle"
  /\ UNCHANGED <<lastTried, tried, got, cyclePending, placementVars, senderVars,
                 channelVars, receiverVars>>

\* The first message goes out at once; awaiting its acceptance comes before
\* awaiting the outcome.
HelloAccepted ==
  /\ rMain = "hello"
  /\ rMain' = "wait"
  /\ UNCHANGED <<placementVars, senderVars, channelVars, cycleVars, ringKnown,
                 view, rOutcome>>

HelloRefused ==
  /\ Refusals /\ rMain = "hello"
  /\ rMain' = "refused"
  /\ UNCHANGED <<placementVars, senderVars, channelVars, cycleVars, ringKnown,
                 view, rOutcome>>

\* The user cancels, the transfer expires, or the sender is silent for too
\* long.  Patient instances let the last happen only when it has left.
ReceiverStops ==
  /\ ~rFinished
  /\ Impatient \/ (sGone /\ FreshForReceiver = {} /\ cycle = "idle")
  /\ rOutcome' = "failed"
  /\ UNCHANGED <<placementVars, senderVars, channelVars, cycleVars, ringKnown,
                 view, rMain>>

\* The teardown waits for the running cycle; a download that did not succeed
\* tells the sender to stop.
ReceiverLeaves ==
  /\ rMain = "refused" \/ (rMain = "wait" /\ rOutcome # "open")
  /\ cycle = "idle"
  /\ rMain' = IF rMain = "wait" /\ rOutcome = "ok" THEN "returned" ELSE "threw"
  /\ IF rOutcome = "ok" THEN UNCHANGED channelVars ELSE ReceiverSends(Plain("cancel"))
  /\ UNCHANGED <<placementVars, senderVars, cycleVars, ringKnown, view, rOutcome>>

-----------------------------------------------------------------------------
(* Specification *)

Init ==
  /\ placedPos = [i \in Chunks |-> -1]
  /\ gen = [i \in Chunks |-> 0]
  /\ nextOffset = [i \in Chunks |-> 0]
  /\ misses = [p \in Pos |-> 0]
  /\ giveUps = [p \in Pos |-> 0]
  /\ demoted = {}
  /\ upto = 0 /\ nextChunk = 0
  /\ retryQueue = {} /\ pendingRetry = {}
  /\ worker = [w \in Worker |-> Idle]
  /\ ring = "pending" /\ availDirty = FALSE /\ loop = "manifest"
  /\ heard = FALSE /\ sOutcome = "running" /\ sGone = FALSE
  /\ manifest = "unsent"
  /\ s2r = <<>> /\ lastSenderN = 0
  /\ r2s = <<Plain("hello")>> /\ lastPeerN = 0
  /\ ringKnown = FALSE /\ view = EmptyView
  /\ lastTried = [i \in Chunks |-> NoPlacement]
  /\ tried = [i \in Chunks |-> NoPlacement]
  /\ got = {} /\ cycle = "idle" /\ cyclePending = FALSE
  /\ rOutcome = "open" /\ rMain = "hello"

Upload == \E w \in Worker :
  \/ TakeRetry(w) \/ TakeNext(w) \/ TryRelay(w)
  \/ Placed(w) \/ Rejected(w) \/ WalkEnds(w) \/ WorkerCancelled(w)

SenderControl ==
  \/ ManifestPublished \/ ManifestAccepted \/ ManifestRefused
  \/ RingArrives \/ RingFails
  \/ Announce \/ AnnounceAccepted \/ AnnounceRefused \/ LoopEnds
  \/ SenderHears \/ SenderStops \/ SenderIdleTimeout \/ SenderLeaves

Receiver ==
  \/ HelloAccepted \/ HelloRefused \/ ReadManifest \/ ReceiverHears
  \/ RetryClock \/ FetchEnds \/ AckAccepted \/ AckRefused \/ DoneSettles
  \/ ReceiverStops \/ ReceiverLeaves

\* Both functions have returned: nothing more happens.
Over == sGone /\ rGone /\ UNCHANGED vars

Next == Upload \/ SenderControl \/ Receiver \/ Lose \/ Over

Spec == Init /\ [][Next]_vars

\* Fairness.  Code that was scheduled runs, a publish or a fetch settles (each has
\* a timeout), the timers of the control loop and of the watchdogs tick, the
\* search for a ring ends, and messages sent again and again get through.
LoopSteps == ManifestPublished \/ ManifestAccepted \/ AnnounceAccepted \/ LoopEnds
CycleSteps == FetchEnds \/ AckAccepted \/ DoneSettles
Fairness ==
  /\ \A w \in Worker : WF_vars(TakeRetry(w) \/ TakeNext(w) \/ TryRelay(w)
                                 \/ WalkEnds(w) \/ Placed(w) \/ Rejected(w))
  /\ WF_vars(LoopSteps) /\ WF_vars(Announce) /\ WF_vars(RingArrives \/ RingFails)
  /\ SF_vars(SenderHears) /\ SF_vars(ReceiverHears) /\ WF_vars(ReadManifest)
  /\ WF_vars(HelloAccepted) /\ WF_vars(RetryClock) /\ WF_vars(CycleSteps)
  /\ WF_vars(SenderIdleTimeout) /\ WF_vars(ReceiverStops)
  /\ WF_vars(SenderLeaves) /\ WF_vars(ReceiverLeaves)

FairSpec == Spec /\ Fairness

-----------------------------------------------------------------------------
(* Properties *)

\* Every variable has its type.
PlacementTypeOK ==
  /\ placedPos \in [Chunks -> Pos \cup {-1}]
  /\ gen \in [Chunks -> Nat] /\ nextOffset \in [Chunks -> Pos]
  /\ misses \in [Pos -> Nat] /\ giveUps \in [Pos -> Nat]
  /\ demoted \subseteq Pos
  /\ upto \in 0 .. Total /\ nextChunk \in 0 .. Total
  /\ retryQueue \subseteq Chunks /\ pendingRetry \subseteq Chunks
  /\ worker \in [Worker -> Task]
ControlTypeOK ==
  /\ ring \in {"pending", "ready", "failed"}
  /\ availDirty \in BOOLEAN
  /\ loop \in {"manifest", "wait", "sending", "ended"}
  /\ heard \in BOOLEAN /\ sGone \in BOOLEAN
  /\ sOutcome \in {"running", "ok", "refused", "no ring", "unplaceable",
                   "undeliverable", "peer cancelled", "stopped", "idle"}
ChannelTypeOK ==
  /\ manifest \in {"unsent", "sent", "read", "lost"}
  /\ s2r \in Seq(SenderMessage) /\ Len(s2r) <= Window
  /\ lastSenderN \in 0 .. Len(s2r)
  /\ r2s \in Seq(ReceiverMessage) /\ Len(r2s) <= Window
  /\ lastPeerN \in 0 .. Len(r2s)
CycleTypeOK ==
  /\ lastTried \in Places /\ tried \in Places
  /\ got \subseteq Chunks
  /\ cycle \in {"idle", "fetching", "acking", "finishing"}
  /\ cyclePending \in BOOLEAN
ReceiverTypeOK ==
  /\ ringKnown \in BOOLEAN /\ view \in View
  /\ rOutcome \in {"open", "ok", "failed"}
  /\ rMain \in {"hello", "wait", "refused", "returned", "threw"}
TypeOK ==
  /\ PlacementTypeOK /\ ControlTypeOK /\ ChannelTypeOK
  /\ CycleTypeOK /\ ReceiverTypeOK

Busy(w) == worker[w].at # "idle"
Resending(w) == Busy(w) /\ worker[w].retry

\* A chunk is untaken, then in a worker's hands, then placed, and placed for good:
\* a placed prefix has no holes (so announcements have none), only placed chunks
\* are queued again, and a first upload's chunk has never been placed or re-sent.
ChunkLifecycle ==
  /\ \A i \in Chunks :
       /\ i < upto => placedPos[i] # -1
       /\ placedPos[i] = -1 => gen[i] = 0
       /\ i >= nextChunk => placedPos[i] = -1
       /\ i \in retryQueue => placedPos[i] # -1
  /\ \A w \in Worker : Busy(w) =>
       /\ worker[w].index < nextChunk
       /\ ~worker[w].retry => placedPos[worker[w].index] = -1

\* A chunk reported missing is re-sent once, not once per report: while the upload
\* runs, pendingRetry is exactly the chunks queued or in a worker's hands, no
\* chunk is in both places, and no two of the concurrent workers carry the same.
RetryBookkeeping ==
  /\ ~sFinished => \A i \in Chunks :
       i \in pendingRetry <=>
         i \in retryQueue \/ \E w \in Worker : Resending(w) /\ worker[w].index = i
  /\ \A w \in Worker : Busy(w) => worker[w].index \notin retryQueue
  /\ \A v, w \in Worker : Busy(v) /\ Busy(w) /\ v # w => worker[v].index # worker[w].index

\* Each placement costs its relay at most one strike, however often it is
\* reported: strikes add up to the re-sends made and the re-sends under way.
StrikesAccounted ==
  ~sFinished => SumFunction(misses) = SumFunction(gen) + Cardinality(pendingRetry)

\* What is known, tried or reported of a chunk's placement is a placement it has
\* or had: never a generation to come, and of the current generation only the
\* relay that holds it. (The sender judges a report by this pair alone.)
IsOrWas(i, place) ==
  /\ place.gen <= gen[i]
  /\ place.gen = gen[i] => place.pos = placedPos[i]
Knowledge(places) == \A i \in Chunks : places[i] # NoPlacement => IsOrWas(i, places[i])
PlacementsWereTrue ==
  /\ \A k \in 1 .. Len(s2r) : Knowledge(s2r[k].view.place)
  /\ Knowledge(view.place) /\ Knowledge(tried) /\ Knowledge(lastTried)
  /\ \A k \in 1 .. Len(r2s) : \A m \in r2s[k].missing : IsOrWas(m.index, m)

\* A relay that takes and serves everything is never struck, and so never
\* demoted, whatever announcements and reports cross.
GoodRelayBlameless ==
  \A p \in Good : misses[p] = 0 /\ giveUps[p] = 0 /\ p \notin demoted

\* With one such relay in the ring, an upload is never given up for want of
\* relays or of re-sends: the walk reaches it before either runs out.
GoodRelayDelivers ==
  Good # {} => sOutcome \notin {"undeliverable", "unplaceable"}

\* No announcement is forgotten: a receiver that rests has tried every announced
\* chunk it misses at the very placement announced last.
NothingForgotten ==
  cycle = "idle" /\ ~rFinished /\ ringKnown =>
    \A i \in Chunks : i < view.upto => i \in got \/ lastTried[i] = view.place[i]

\* No placement is left unannounced: a control loop that rests has announced the
\* ring, every re-send, and every full batch placed, or the whole file.
NothingUnannounced ==
  loop = "wait" /\ ~availDirty /\ ~sFinished /\ s2r # <<>> =>
    LET last == s2r[Len(s2r)] IN
    /\ last.ring = (ring = "ready")
    /\ last.view.upto \div Batch = upto \div Batch
    /\ upto = Total => last.view.upto = Total
    /\ \A i \in Chunks : i < last.view.upto =>
         last.view.place[i] = [pos |-> placedPos[i], gen |-> gen[i]]

\* The sender reports success, and is told to, only when the receiver holds the
\* whole file.
DoneMeansHeld ==
  sOutcome = "ok" \/ (\E k \in 1 .. Len(r2s) : r2s[k].t = "done") => got = Chunks

\* The transfer keeps the promise every way of moving a file makes.
Promise == INSTANCE FileDelivery WITH
  sender <- IF sOutcome \in {"running", "ok"} THEN sOutcome ELSE "failed",
  receiver <- rOutcome,
  out <- got = Chunks,
  held <- got = Chunks
DeliversFile == Promise!Spec

\* With a good relay in the ring and nobody giving up, the receiver ends with the
\* file and a sender that heard it ends, although announcements, reports and even
\* `done` are lost: heartbeats, the retry clock and the idle watchdog make up for
\* each.  (A sender that never heard the receiver waits for the expiry: its idle
\* watchdog is not armed.)
EventuallyDelivered == <>(rMain = "returned") /\ (heard ~> sGone)

\* A side whose outcome is settled does leave: its teardown never waits for a
\* worker, a loop or a cycle that waits for something else.
SettledLeaves == (sFinished ~> sGone) /\ (rFinished ~> rGone)
===============================================================================
