# pTransfer in TLA+

pTransfer moves a file from one person to another, browser to browser or
terminal to terminal, with no server of its own. These modules specify the
protocols that do it, check them with TLC on small instances, and prove what
matters most with TLAPS for every size.

Paths below are relative to `src/src/lib/` unless they start with `docs/`,
`hooks/` (`src/src/hooks/`) or `cli/` (`src/cli/`).

## The system

| Component | State it keeps | Operations | Talks to |
|---|---|---|---|
| **Live relay transfer** `nostr-file/upload-live.ts`, `download-live.ts` | sender: where each chunk is placed, its generation, strikes and give-ups per relay, re-send queue, announcement flag; receiver: latest announcement, chunks held, placement last tried | upload a chunk, announce, handle a report, fetch cycle, retry clock, watchdogs, teardown | control channel (messages), storage relays (publish, query) |
| **Control channel** `nostr-file/control.ts`, `sync.ts` | message counter, relays published to and listened on, tallies per relay | send to any, receive, add relays, demote | Nostr relays; calls back into both sides |
| **Relay choice** `nostr-file/upload.ts`, `relay-pool.ts` | health checks under way, relays of the offer, ring, reserve, sweep | probe, select, backfill, fill the ring, sweep | relay cache, control channel |
| **Relay cache** `cli/code/relay-store.ts`, `cli/file-lock.ts` | one file of verdicts and a rotating cursor | read-modify-write under a lock | the other processes that share it |
| **Direct transfer** `p2p-transfer.ts` | sender: chunks and bytes handed over; receiver: chunks out of order, next to store, the end's claim, bytes stored | read/encrypt/send, end, flush, abort; accept, store, complete, dispose | link (lanes or Tor), source, sink |
| **Lanes, data channel** `lanes.ts`, `data-channel.ts` | channels of the link, which are busy and which were used; per channel a send queue and a buffer | negotiate, open, give up, send, flush, end | WebRTC |
| **Code Exchange** `code-exchange/`, `hooks/use-code-send.ts`, `hooks/use-code-receive.ts` | offer, answer, keys, direct attempt, storage, relay session, prepared fallback, the page's refs | accept an answer, connect, watch for hello, fall back, switch, cancel, start again | all of the above |
| **PIN exchange** `pin-exchange/` | PIN generations with an element and a budget each, epoch, lockout | publish, rotate, refresh, claim, verify, replace, confirm | Nostr client; carries Code Exchange codes |
| **Tor transport** `tor/` | accept loop with deadline and failure count, framed streams | serve, handshake, send, receive | onion service |
| **Anonymous signaling** `nostr/anonymous-transport.ts`, `nostr/code-carriage.ts` | pool over Tor, parts of a code | carry a code | onion relays |
| **Cryptography, codecs, sinks, Nostr events, WebRTC wrapper** | none, or I/O | pure functions, I/O | - |
| **Web pages and CLI** | what is on screen | start, cancel | the library |

The components interact by message (two people's machines), by promise and
callback (inside one), and, for the relay cache, through storage that several
processes share. There are no threads: what interleaves is everything between
two `await`s, of several async functions in each process, and of several
processes.

### What is hard, and what makes each component correct

* **Live relay transfer.** Both sides work from information that is stale:
  announcements and reports cross, are lost, repeated and delivered late.
  Correct means: a report never blames a relay for a placement that is gone or
  that was never tried; a chunk is re-sent once for each loss; nothing placed
  stays unannounced and nothing announced stays untried; success means the
  file is there; and both sides do leave.
* **Control channel and relay choice.** A relay set that changes while sends,
  probes and sweeps over the same sockets are under way. Correct means: nothing
  closes a relay the channel listens on, each side still publishes where the
  other listens, demotion stops at the floor, and no place in the set is lost
  or given twice.
* **Relay cache.** Read-modify-write by processes that time out, fail and die.
  Correct means: each change is one step on top of those kept before, nothing
  kept is lost except to a read that failed (which the code takes for an empty
  cache, `cli/code/relay-store.ts:32-34`), and who can wait is served.
* **Direct transfer.** One-way protocol over channels that deliver in no
  common order. Correct means: the file is written in order and whole, an
  honest sender is never taken for one that breaks the protocol, memory is
  bounded, a file that has wholly arrived cannot be lost to the hang-up, and
  every wait ends.
* **PIN exchange.** Every element and every guess is used once, though claims,
  rotation, refresh, cancellation and the timeout interleave.
* **Code Exchange.** The sender gives up a direct attempt only for the answer it
  holds; keys are wiped on every way out; a receive that was superseded touches
  nothing of the one that superseded it (one that completes late does, see
  *Observations*); both sides end.
* **Tor.** An accept loop that ends, and ends well, whatever connects, and two
  sides that agree on whether the file went over, however early the receiver
  hangs up (not while the last write is awaited, see *Observations*).

## Modules

Each component has a module with its state, one action per operation and its
properties; `MC...` modules instantiate it, `...Proofs` modules prove theorems
of it. `FileDelivery` is what `LiveRelay` and `DirectTransfer` both implement,
`RelayCache` what `RelayStore` implements.
The modules meet at what one hands the other: `SignalingRelays` gives the relays
`LiveRelay`'s messages travel over, `PinRendezvous` carries the codes
`CodeExchange` starts from, and the transfers that end `CodeExchange` and fill a
`TorServe` connection are `DirectTransfer` and `LiveRelay`.

### `FileDelivery` - what every way of moving a file promises

Four variables: the two outcomes, whether the file is `out` of the sender's
hands, whether it is `held`. Each side settles once; the receiver succeeds
only with the file held, the sender only with the file out. Both detailed
modules implement it (`DeliversFile`), and they differ in what `out` means: the
live relay sender waits for `done`, so out is held; a direct sender succeeds
when its buffers are empty, so out is "left the machine".

### `LiveRelay` - upload-live.ts, download-live.ts, the channel between them

| Code | Model |
|---|---|
| `placedPos`, `gen`, `nextOffset`, `misses`, `giveUps`, `demoted`, `upto`, `nextChunk`, `retryQueue`, `pendingRetry` | variables of the same names (`retryQueue` as a set: which of two queued chunks goes first is left open) |
| `worker` (one async function per slot) | `worker[w]`; its awaits are the steps `TakeRetry`/`TakeNext` (encrypt), `TryRelay` (publish), `Placed`/`Rejected`/`WalkEnds`/`WorkerCancelled` |
| `candidatePositions`, `demote` | `IsCandidate`, `Demoting` |
| `handleAck`, `onMessage` | `HandleAck`, `SenderHears` |
| `controlLoop`, `buildAvail` | `Announce`, `AnnounceAccepted`, `AnnounceRefused`, `LoopEnds`, `Announcement` |
| `uploadStart`, watchdog, teardown | `RingArrives`/`RingFails`, `SenderStops`/`SenderIdleTimeout`, `SenderLeaves` |
| `fail`, `succeed`: first outcome stays | `Failing`, `Settling` |
| `upto`, `map`, `gens`; `lastTried`; `chunks` | `view`; `lastTried`; `got` |
| `runCycle` | `BeginCycle`, `FetchEnds`, `AckAccepted`/`AckRefused`, `DoneSettles` |
| `scheduleCycle`, retry clock | `ScheduleCycle`, `RetryClock` |
| `await send(hello)`, `await outcome`, teardown | `rMain`, `HelloAccepted`/`HelloRefused`, `ReceiverLeaves` |
| control messages with their counter `n` | `s2r`, `r2s`: windows of the last `Window` messages; `lastSenderN`, `lastPeerN` are places in them |

Abstractions: a chunk is its index; the hash of the finished file always
agrees; time is nondeterminism (a timer may fire whenever it is armed, except
that patient instances, `Impatient = FALSE`, let the idle watchdogs fire only
on a peer that has left); the signaling relays and their replacement are
`SignalingRelays`. A message older than the window is one that was never heard,
so `Window` bounds how far behind a reader may be, not how many messages are
sent. A worker told of the cancel while it publishes drops what the relay
answered.

### `SignalingRelays` - upload.ts, relay-pool.ts, control.ts

| Code | Model |
|---|---|
| `healthCheckRelays`: probes, `target`, late passes closed | `probing`, `todo`, `flying`, `healthy`, `late`; `Probe`, `ProbePasses`, `ProbeFails`, `CheckEnds` |
| `resolveTransferRelays`, its deferrable backfill | `SeedsSuffice`, `Backfill`, `Defer`, `BackfillEnds`, `BackfillFails`; `control`, `replacements`, `leftover` |
| `prepareStorageRelays` | `PrepareRing`, `RingFills`, `RingFails`; `ring`, `reserve` |
| `sweepRelayHealth` and what it leaves out | `SweepBegins`, `SweepProbe`, `Carrying` |
| `ControlRelaySet`: `known`, `active`, `settled`, `accept`, `demoteRelay` | variables of the same names (`tally` is `settled`); `Accept`, `Condemned`, `AboveFloor` |
| `sendFileLive`: `owedPromotions`, `promote`, replacements, reserve | `owed`, `spares`, `Promote`, `ReplacementsArrive`, `ReserveArrives` |
| `publishToAny` and the send it settles | `BuildAvail`, `Publish`, `PublishAccepted`, `PublishGaveUp`, `LastToGiveUp` |
| the receiver's set | `ReceiverHears`, `ReceiverDemotes` |
| `pool.close(url)`, subscriptions | `subscribed` |

Abstractions: a relay is a model value and a probe passes or fails, so "the
fastest" are any; every message of the sender is an announcement; of the
receiver's messages only the set it publishes to is kept, and its tallies are
left open, so it may demote whatever the floor allows.

### `RelayCache` - what the processes that share a cache may count on

The changes the cache includes, those that were kept, and those that were made
`blind`. Keeping a change is one step, on top of the cache as it is; a change
whose read failed is kept on top of nothing and drops what was there.
`RelayStore` implements it (`ChangesAreAtomic`) with `has` the file's contents,
`kept` the callers whose change was kept, and `blind` those that missed
something; queue, locks, partial files and crashes are stutters.

### `RelayStore` - cli/code/relay-store.ts, cli/file-lock.ts

| Code | Model |
|---|---|
| `update` and its promise | `phase[c]`; `Ask`, `DirectoryFails`, `AnswerOnly` |
| the in-process queue, its tail | `ahead[c]`, `MyTurn`, `TakeTurn` |
| the lock of either platform, the deadline | `holders`, `LockFree`, `Open`/`OpenFails`, `TryAcquire`, `StayedLocked` |
| read, change, write beside, rename, unlink | `ReadAndChange`, `ReadEmptyAndChange`, `ChangeThrows`, `WriteEnds`, `Rename`, `WriteFails`, `RemovePartial`, `Release` |
| what a read that failed did not see | `missed[c]` (history) |
| a process dies | `Crash`: the kernel frees its lock, its files stay |

Abstraction: a cache is the set of updates it contains. `Steady` names callers
whose wait fits the deadline and whose directory, lock and write do not fail; a
read may fail for any of them, because nothing in `update` depends on whether it
did. A file that is missing, cannot be read or parsed, or is of another version
is one case, `ReadEmptyAndChange`.

### `DirectTransfer` - p2p-transfer.ts over lanes.ts and data-channel.ts

| Code | Model |
|---|---|
| `sendFileOverLink`: what it awaits | `sPhase`; `Read`, `HandOver`, `FlushOk`, ... |
| `awaitLink`'s timer, `cancelPoll`, `onEnd` | `SenderStalls`, `SenderStops`, `SenderChannelEnds` |
| `sendAbort` | `TellReceiver`; only through `sendNow`, past the queue |
| an abandoned `sendBinary` that finds room later | `stray`, `StraySend` |
| `createLaneLink`: channels, used, busy, sendError, endedWith | `channels`, `sUsed`/`rUsed`, `Busy`, `sendError`, `sEnded` |
| `sendChain`, `bufferedAmount`, the network | `chain`, `buf`, `net` per channel |
| `handleChunk`'s checks, in their order | `Unexpected`, `BadLength`, `ShortInside`, `TooLong`, `Backlogged` |
| storing the contiguous run; `appendChain` | `StoreRun`, `queue`; `Write` |
| `handleEnd`, `complete` | `HandleEnd`, `Complete`, `Seal` |
| `release()` at completion | `Listening` is false once `rState` leaves "open" |
| `dispose`, stall timer, hang-ups | `ReceiverDisposes`, `ReceiverStalls`, `SenderCloses`, `ReceiverCloses` |

Abstractions: a chunk is its index and size (1 or 2, `Full` = 2);
`bufferedAmount` counts messages; the negotiation of a lane is its opening at
each side; the receiver's lane timer is longer than the sender's, so only the
sender gives up a lane (`lanes.ts:46-52`); a chunk opens under its key, because
the sender sealed it.

### `PinRendezvous` - pin-exchange/send.ts, receive.ts

| Code | Model |
|---|---|
| `generations`, their `bucket`, `run`, `verifyBudget` | `retained`, `mintedIn`, `live` (0: spent), `budget` |
| `pinEpoch`, `settled`, `claimed` | `epoch`, `settled`, `lockedTo` |
| `publishRendezvous` (async): derive, register, publish, show | `task[p]`; `Mint`, `Register`, `Published`, `PublishRefused` |
| who called it: first, rotation timer, `refresh` | `cause[p]`; `Rotate`, `Refresh` |
| the claim handler up to its first await | `ClaimArrives`, `Claimable`, `Spend` |
| the rest of it, when the seal opened or did not | `Lock`, `VerifyRefused`, `VerifyFails`, `VerifyDropped` |
| `publishReplacement` | `replacing`; `Replace`, `Stale`, `Claimed` |
| `giveUp`, `cleanup`, `close`, the timeout, the cancel poll | `GiveUp`, `EpochAfterSettling`, `Close`, `WaitEnds` |
| `confirmPinClaim` | `Confirm` |
| `claimPin`: lookup, claims, replacements, confirm | `Search`, `HearElement`, `MayClaim`, `ConfirmArrives` |

Abstractions: a PIN is its number, an element its PIN and a number, a claim its
author and the element it names; a seal opens when both sides hold the same
PIN. There is one sender and no two PINs share a hint. Time is the bucket of the
wall clock. `Receiver` splits into those who know the PIN, `Mistyped` (right
locator, wrong rest), and `Older` (another protocol version). `checked` is
history. A retired generation's secret is wiped while its verification may be
under way; the verification read it before its first await (`crypto/spake2.ts`,
`finishPake`), so it goes on and opens what it would have opened.

### `CodeExchange` - code-exchange/, hello-watch.ts, the two hooks

| Code | Model |
|---|---|
| `completeSend`: what it awaits | `sPhase`; `AnswerAccepted`, `Derived`, `SessionDerived`, `DirectOpens`, `GivesUp`, `Prepared`/`NotPrepared`, `RelayingEnds`, `DirectEnds` |
| `relaySession.keyBytes`, wiped by whoever owns it last | `sKeys` |
| `watchForHello` | `watching`, `hellos`, `GivesUpOn` |
| `doReceive` and the loop over attempts | `rPhase[n]` per receive `n`; `KeysReady`, `SinkCreated`, `AnswerBuilt`, `AttemptEnds`, `ChannelOpens`, ... |
| `runRef`, `cancelledRef`, `receivingRef`, `rtcRef`, `sinkRef` | `curRun`, `rCancelled`, `receiving`, `rtcRef`, `sinkRef` |
| `finally` and `catch` of a receive, `attempt.dispose` | `Returns`, `Throws`, `Disposed` |
| `finishDirectReceive` and the connection it closes | `DirectDone`, `DirectFails`; `attempts[a].rtc` is "taken" if another receive's completion closed it |
| the simulation switch | `Flip`, `switched[n]`, `simulate[n]`, `SimulatedAnswer`, `FallbackSwitched`, `NewKeys` |
| cancel, start again | `Cancel`, `StartReceive`, `Abandoned` |

Abstractions: one offer; keys are numbered; the transfers only end, well or
badly; the fallback an offer names matters only in where the received file is;
expiry of the session is a cancel of the sender.

### `TorServe` - tor/serve.ts, handshake.ts, transfer.ts

| Code | Model |
|---|---|
| `serveUntilSent`: deadline, failures, cancel | `sPhase`, `failures`, `overdue`, `cancelled`, `outcome`; `Accept`, `Expires`, `CancelNoticed`, `Fails`, `Declined`, `Delivered` |
| `runTorServiceHandshake`, its clock | `ReadHello`, `ReadClaim`, `ReadReady`, `ReadCancel`, `ReadWrong`, `TimesOut` |
| `sendFileOverTor`, `waitForPeerClose` | `WriteChunk`, `WriteEnd`, `StreamEnds`, `LingerEnds`, `SourceFails` |
| the awaited write of `end`, and `flushing` set after it | `sPhase` "ending", `EndWritten`; `NotFlushing`; fate "unflushed" for what failed in between |
| `runTorClientHandshake`, `receiveFileOverTor` | `pState[c]`; `Connect`, `ReadOffer`, `ReadConfirm`, `ReadChunk`, `ReadEnd`, `LetDown` |
| the streams, their closing, a broken circuit | `queue`, `toService`, `toPeer`, `shut`, `gone`, `Drops` |

Abstractions: frames are whole; a claim opens when its sender knows the
password. That a write resolves in its own time, whatever the other side does
meanwhile, is modelled for `end`, the only frame after which a hang-up is taken
otherwise than before it. `Honest` connections know the password, `Steady` ones
also hold.

## Runs

Every instance is as small as the code's decisions allow, and the reason it is
large enough is given with it. "States" are distinct states.

| Run | Instance | Checks | States |
|---|---|---|---|
| `crossing` | LiveRelay: 2 chunks, ring of 3 of which 1 serves everything, 2 workers | `RetryBookkeeping`, `StrikesAccounted`, `PlacementsWereTrue`, `NothingForgotten`, `NothingUnannounced`, `GoodRelayBlameless`, `GoodRelayDelivers` | 1.75 M |
| `lossy` | LiveRelay: messages vanish again and again | `EventuallyDelivered` | 47 k |
| `leaves` | LiveRelay: cancels, refusals, expiries, losses, a lost manifest, at any moment | `SettledLeaves`, `DeliversFile` | 229 k |
| `relays` | SignalingRelays: 3 defaults, 3 discovered, channel of 3 with floor 2, one spare, 2 announcements | `SubscriptionsStand`, `PeerIsHeard`, `PlacesAccounted`, `SendsAnswered` | 2.93 M |
| `spares` | SignalingRelays: see *Finding* | `MissedRingIsReserve`, violated | - |
| `store` | RelayStore: 3 callers in one process, 1 in another, re-entrant lock, 2 steady | `NothingLost`, `ChangesAreAtomic`, `SteadyIsKept` | 110 k |
| `lanes` | DirectTransfer: 3 chunks, the last short, backlog limit below the file's size, everything may fail; only local fairness | `FileInOrder`, `NoFalseAlarm`, `BacklogBounded`, `HeldIsSafe`, `DeliversFile`, `NobodyHangs` | 469 k |
| `patient` | DirectTransfer: 4 chunks, 3 channels, nothing breaks | `BothSucceed` | 76 k |
| `claims` | PinRendezvous: one PIN; a right receiver, a wrong one and one on another protocol; budget 2 | `SingleUse`, `GuessesMetered`, `NothingAfterwards`, `HonestIsServed`, `LockedLearns` | 374 k |
| `pins` | PinRendezvous: 2 PINs whose publishes overlap, 3 buckets, 2 receivers who know them, everything may fail | `RetainedAreCurrent`, `Agreement`, `ShownIsHonoured`, `EventuallyWiped` | 531 k |
| `code` | CodeExchange: 2 receives, 2 flips of the switch | `HelloIsTrue`, `KeysWiped`, `NothingLeftBehind`, `EverybodyEnds` | 664 k |
| `tor` | TorServe: a stranger, an honest receiver whose circuit may drop, 2 steady ones; limit 3 | `OutcomesAgree`, `SteadyIsServed`, `ServingEnds` | 774 k |

Why these bounds are enough:

* `LiveRelay`: three relays give home, elsewhere and a demoted one that is not
  the last, and a ring larger than the floor on re-sends (`MinRetransmits` 1),
  where the good relay could be missed; two workers give every crossing of two
  uploads; two chunks a hole in the prefix; `Window` 2 one message overtaken.
  The workers are not declared symmetric. `lossy` and `leaves` are about
  messages and ends, for which one chunk and two relays do.
* `SignalingRelays`: six relays give a relay for each role at once (offered,
  replacing, in the ring, spare, swept, demoted); two announcements give a
  publish to a set that changed since the announcement was built, and one that
  is overtaken. Relays of one kind are symmetric: no action or property tells
  them apart (`Alike`).
* `RelayStore`: three callers of one process give a holder, one waiting behind it
  whose deadline passes and one behind that; the fourth competes through the
  kernel.
* `DirectTransfer`: one lane beside the first channel lets any chunk overtake
  any other and `end` overtake all; three chunks give a gap of two and a short
  chunk ahead of it. `Threshold` 0: one message fills a buffer.
* `PinRendezvous`: buckets matter to `Active` as "this one, the one before,
  older": three are enough. Two receivers give every race of two claims; budget
  and attempts of 2 put both limits within reach. `claims` has one PIN and one
  bucket, so a refresh there only retires: rotation and refresh with a PIN to
  follow are in `pins`, and together with claims, budgets and replacements only
  in the theorems.
* `CodeExchange`: two receives give a superseded one and its successor; two flips
  give direct, simulated, direct again, which is what new keys are for.
* `TorServe`: one stranger and one that drops are two failures of the three that
  end the serving, so a steady receiver is served after the worst that may come
  first, and not with one more. One chunk is enough, because nothing looks at
  how many there are.

Deadlock is checked in `crossing`, `lossy`, `leaves`, `lanes`, `patient`, `claims`,
`pins` and `store`: the only states without another step are those in which
everyone has returned, which a stuttering action of the module names. It is not
checked in `relays`, `spares`, `code` and `tor`, because there the system does stop:
a `SignalingRelays` channel has used up its announcements and closes, a
`CodeExchange` has ended on both sides, a `TorServe` has stopped serving, and
nothing follows.

Every property has a mutant: a definition changed the way a plausible bug would
change it (`\* mutant` in the modules), with which TLC finds the property
violated.

### Fairness

Code that was scheduled runs: weak fairness of each async function's next step.
Every publish and query has a timeout in the code, so it settles. The control
loop, the retry clock and the watchdogs are timers, so their steps are weakly
fair once armed. Hearing is strongly fair in `LiveRelay`: what is repeated again
and again gets through once; loss itself is never fair. Nothing is assumed of
users: no action in which one cancels, answers, flips a switch or connects is
fair. In `DirectTransfer`, `LocalFairness` is each machine's own timers and code,
`NetworkFairness` adds that a connection that holds delivers; `NobodyHangs` is
checked with the first alone, which is the point of it. In `PinRendezvous`,
publishes settle (the client bounds them), claims and confirms that relays took
arrive, verifications go on, and a caller closes what failed; rotation,
refreshes, cancels and the clock are never fair. In `RelayStore` a call that has
asked goes on. In `TorServe` only steady receivers are fair, and strangers never.
`SignalingRelays` has no liveness property and no fairness.

## Proofs

The proofs hold for every value of the constants, under the named assumption of
each module (sizes are numbers, the switches Booleans) and nothing else except
where it is said. Each proof rests on inductive invariants that were checked with
TLC on a small instance before they were proved; no published invariant is
inductive alone.

### `SumTheorems`

What the library's sums and counts over finite sets compute, for any module: a
sum is taken apart at any element, depends on its summands alone, changes by as
much as a summand does, and a set has as many elements as its classes together.
The library's own induction takes a predicate as a parameter, which the provers
cannot fill in; so each fact is proved by taking a *least* subset that breaks it
(`LeastSubset`, from the well-foundedness of strict inclusion), where the
predicate is an ordinary set of subsets.

### `LiveRelayProofs`

* `StageCorrect`: `Spec => []StageInv`. A chunk is in one *stage* at a time,
  untaken, in one worker's hands for the first time, placed, queued again, or in
  one worker's hands for a re-send. That a re-send's chunk was placed depends on
  the queue, that the queue's was depends on reports naming placements.
  `TypeCorrect`, `LifecycleCorrect`, `RetriesCorrect` follow.
* `ReportsTrue`: the *Truths* argument. A statement (index, place) stays true
  under every step of the sender, because a placement changes only with its
  generation; every other step only copies statements, from sender to window,
  window to view, view to `tried`, `lastTried`, reports. The window lemmas say
  that pushing and shifting invent no message.
* `SuccessIsHeld`: `done` is sent only with every chunk held, `got` never
  shrinks, and the sender succeeds only on `done`.
* `PromiseKept`: `Spec => DeliversFile`, the refinement of `FileDelivery`: each
  step maps to one step of `FileDelivery` or none.
* `NothingForgottenCorrect`: `RestInv` says which chunks a cycle of fetches has
  *seen to* at each of its stages. A chunk is settled when it is held or was
  tried in vain at the very place announced; a cycle takes up each one that is
  not, an announcement that arrives during a cycle schedules another, and a
  report is sent of what a cycle tried in vain. That announcements name placed
  chunks only (`PlacedInv`) is what makes the view never shrink.
* `NothingUnannouncedCorrect`: `LoopInv` adds to the property what holds while a
  message is published: unless `availDirty` is set again, what is being
  published describes what is placed. A quiet placement, inside a batch and not
  the last, moves nothing an announcement says (`PlacedQuietly`).
* `GoodRelayBlamelessCorrect`: `BlamelessInv` adds that nothing at a good relay's
  place was tried in vain, and no report in the window names one. A relay is
  struck for what a report names only while the place is the current one, so
  blame cannot pass to the relay a chunk has moved to.
* `GoodRelayDeliversCorrect`: why the re-sends suffice. A walk takes the relays
  in the order of the remainder of their distance from `nextOffset`, and a chunk's
  next walk starts behind the relay that took it last. `Reach(g)` says that the
  re-sends already used and the relays still in front of the good relay `g`
  are together fewer than the ring has: each re-send of a chunk another relay
  lost, and each relay that refused it, uses up one of those in front. So a chunk
  that exhausts its re-sends (`RingSize <= MaxRetransmits`) has been at `g`, which
  is never reported, and a walk that has tried every relay has tried `g`, which
  takes it. The section *Walking the ring* has the arithmetic of remainders.
* `StrikesAccountedCorrect`: a report counts once for each chunk it queues again
  (a bijection of entries and chunks, because an entry counts only while it names
  the current placement), those counts summed over the relays are the number of
  chunks (`CountByClass`), and a re-send that lands trades one pending chunk for
  one generation.

### `DirectTransferProofs`

* `ExchangeCorrect`: `Spec => []DInv`. The sender's part numbers what it hands
  over without holes; of the wires, no message but an abort is twice in a send
  queue, a buffer or the network, on any channel; `Fresh`: what has arrived is
  never again on its way. The receiver's *books* tie its counters to what
  arrived: the chunks out of order, the next to store, the bytes, the end's
  claim. A check of `handleChunk` or `handleEnd` can then only fire on a message
  the wires cannot hold: `NoFalseAlarmCorrect`. `FileInOrderCorrect` and
  `HeldIsSafeCorrect` follow from the books as well.
* `CountsCorrect`: what is pending and what has left are together what was taken
  from the source, unless the transfer failed or a send was rejected; what has
  arrived and what is crossing are no more than what has left. A channel that
  carried nothing has nothing to flush, so a sender that flushed those it used
  and succeeds has nothing pending:
  `PromiseKept`, which depends on `Total > 0`. An empty file has no chunk whose
  leaving could count; every caller refuses one (`code-exchange/source.ts:43`).
* `BacklogBoundedCorrect`: the code keeps no sum of what waits and what is
  queued; it tests `claimed - stored`. `BacklogInv` bounds that difference, and
  the books make it the sum: what is queued is the file from what is written to
  what is next (`QueuedTotal`), what waits is what was claimed beyond that
  (`ClaimedTotal`). A receiver that failed has nothing waiting, but its queue was
  claimed.

### `PinRendezvousProofs`

* `TypeInv`: the types, and that a locked transfer is locked to a claim, without
  which `Confirm` would publish something that is none. `TypeCorrect`.
* `EpochInv`: what was begun in an epoch belongs to it, and settling leaves the
  epoch behind. A refresh and a publish race: a PIN is registered only in the
  epoch it was minted in, a retained PIN is of the current one
  (`RetainedCorrect`), a PIN on its way to the screen is retained or expired
  (`ShownCorrect`), and after the wait's end every epoch in flight is an old one,
  so nothing registers or publishes (`EndCorrect`). `LockCorrect` needs no
  invariant: `Lock` looks at the bucket again.
* `ConfirmInv`: no confirm before the lock, only the locked claim's after it, and
  a receiver has won only by its own. `AgreementCorrect`.
* `BooksInv`: a PIN has one claimable element, or one claim under verification,
  or one replacement under way, or none for good (`OneAtATime`); the elements
  published for it are the claims ever verified plus the claimable one, and the
  claims ever verified are what its budget lacks (`BooksOf`). That the next
  element is new depends on every earlier claim naming a smaller number, that its
  number stays within the limit on a replacement being begun only with budget
  left, and that this is still so when it is registered on nobody else spending
  in between. `SingleUseCorrect`, `GuessesCorrect`.

### `RelayStoreProofs`

* `StoreCorrect`: who is between open and close holds the lock, and is at the
  head of its process's queue; what a writer goes on from is the file, until it
  renames, or nothing, and then the file is what it missed; a file that is being
  written is a partial one, and its own. A deadline that passes, a failure and a
  crash each leave the queue and the lock in an order the others can go on from.
  `OneWriterCorrect` and `NothingLostCorrect` follow.
* `ChangesAreAtomicCorrect`: the refinement of `RelayCache`. A failed read over a
  file that holds something maps to `ReadFails`, the rename to `Keep`, every
  other step to a stutter. That the rename is a `Keep` is what the lock is for: it
  installs what was read, or nothing, with the change, and the file has not
  moved since.

### `SignalingRelaysProofs`

* `SInv`: the sets' types and sizes, which *stage* the selection is in and what
  it may hold then, and that candidates, control set, ring and spares are apart.
  `SubscriptionsCorrect` follows: what a probe, a sweep or a check closes was
  never the channel's. `PlacesCorrect`: a place is filled or owed.
* `CInv`: the sender listens on all it ever announced, and what the receiver
  knows was announced. `PeerIsHeardCorrect`. `SendsCorrect`: the tallies of a
  send are those of the relays it was published to.
* `NoSparesCorrect`: with at most as many probes at a time as the ring has
  places, as in the code, the reserve is empty in every state. It is the
  reason for the finding, for every number of relays.

### `TorServeProofs`

* `InStepCorrect`: a connection has one place, queued, in service or past it, so
  it is served once; `end` is out, or read, only where the sender awaits that
  write or the hang-up, has reported the file sent, or failed during the write; an
  abort is the last on its wire; and a connection that stays steady is in
  lock-step with the sender, message for message, whatever the other connections
  did before. `OutcomesAgreeCorrect` follows: a receiver with the file counts as
  failed only by what was noticed during the write, and the hang-up that
  `waitForPeerClose` sees after it comes from a receiver that has the file.

### `CodeExchangeProofs`

* `ExchangeCorrect`: attempts and keys belong to one receive each. *Answered*: of
  the connections that were offered under one key, only the one its receive
  waits on may be open, and under a key with a hello none is, because new keys
  are made before another direct attempt (`HelloIsTrueCorrect`). *Kept*: what is
  open is in a ref, and a receive in charge finds its own there
  (`NothingLeftBehindCorrect`), except a connection that an earlier receive took
  by completing late; a superseded receive fails, or returns with the refs of
  another, and must leave them alone. *KeyHeld* follows the session
  key through the hand-over to a fallback (`KeysWipedCorrect`).

### Only model-checked

Every invariant and every action property that a passing run checks is proved.
Liveness under fairness is out of the prover's reach and is checked by TLC:
`EventuallyDelivered`, `SettledLeaves`, `BothSucceed`, `NobodyHangs`,
`EventuallyWiped`, `HonestIsServed`, `LockedLearns`, `SteadyIsKept`,
`SteadyIsServed`, `ServingEnds`, `EverybodyEnds`. There is no recursive definition
in these modules, so nothing was left out for want of induction over data.

## Finding

`spares` is a run that TLC violates: that a relay which passed the probe but
missed the ring is in reserve (`docs/NOSTR_FILE_RELAY.md:147-149`). The health
check stops at as many relays as the ring has places, less those already
proven (`nostr-file/upload.ts:315`), and drops a relay that passes late
(`nostr-file/relay-pool.ts:500`). So the reserve, cut off behind the ring
(`nostr-file/upload.ts:337`), is always empty, and a signaling relay that is
demoted once the replacements are used up is not replaced.

## Observations without a run

What follows became plain while modelling, and no run is spent on it. The first
two are in the models: TLC finds the step with the invariant named.

* A restarted receive can lose its connection. `hooks/use-code-receive.ts:189-191`
  says that "a restart right after cancel is never clobbered". A receive is
  cancelled while its last bytes are being stored, and another is started and
  shows its answer. If the first completes before its poll, which comes round
  every 500 ms, notices the cancel, `finishDirectReceive` closes whatever
  connection the holder has (`code-exchange/receive.ts:598-600`), with no
  comparison with `runRef`, and the direct attempt of the second never connects.
  In `code`, `\A a \in DOMAIN attempts : attempts[a].rtc # "taken"` is violated.
  Nothing else of the second receive is touched (`NothingLeftBehind`).
* A hang-up during the last write fails a transfer that was received.
  `p2p-transfer.ts:458-460` says "Once `end` is out, the flush decides", but
  `flushing` is set after the awaited `sendText` of `end` has resolved
  (`p2p-transfer.ts:565-574`). Over a Tor stream the link reads on meanwhile
  (`tor/transfer.ts:107-136`): a receiver that has taken `end` and hung up before
  the write resolves counts as a failure, and the service waits for a receiver
  that is done. In `tor`, `\A c \in Steady : pState[c] = "has" /\ ~cancelled =>
  fate[c] # "unflushed"` is violated. Once the write is through there is no such
  case (`OutcomesAgree`).
* A receiver cancelled while the complete file is being verified fails, and
  still sends `done`, so the sender reports success
  (`nostr-file/download-live.ts:283`, where `succeed` has done nothing; the
  comment at `:278` has the file handed over first).
* A receiver whose `hello` every relay gives up throws, although its download
  may have succeeded meanwhile (`nostr-file/download-live.ts:446`; `:74` says
  "Resolves with the verified file").
* A lost manifest is not recovered by the heartbeat, though the comment at
  `nostr-file/upload-live.ts:515-517` has every lost message recovered. `lossy`
  has `ManifestKept` for this reason.
* A claim under verification when the sender refreshes still locks the transfer,
  with a PIN the refresh retired (`pin-exchange/send.ts:496`, `:564-565`).
* A rotation's publish that outlasts the next one's puts the older PIN back on
  screen (`pin-exchange/send.ts:289`, `:147-148`).
* A refresh that fails to publish ends the wait although a rotation published a
  PIN meanwhile (`pin-exchange/send.ts:582`, `:577-580`).
* The hook that sends has no run counter (`hooks/use-code-send.ts`), where the
  one that receives has (`runRef`): a send that is cancelled and started again
  at once may be torn down by the `finally` of the one before.
* A channel that opens as the other side gives up leaves one side in the direct
  transfer and the other in the fallback; each then ends by its own timeout
  (`EverybodyEnds`), without the file.
* The deadline of a Tor service is noticed only by an accept that waits, so
  connections that keep coming, each failing late, outlast the 30 minutes of
  `docs/TOR_TRANSPORT.md:209`.
* The web page that receives over Tor creates its storage after it has told the
  service to send (`hooks/use-tor-receive.ts`), so storage that fails costs the
  service one of its failures; the terminal and the Code Exchange fallback
  create it before.

## Not modelled

`PROJECT.json` lists each component with what is left out of it. In short:

* cryptography, assumed to open exactly what was sealed under the same key;
* codecs, event formats, the byte level of the Tor framing and compression: data;
* sinks, sources, the WebRTC wrapper, the Nostr and Tor clients: the environment
  of the protocols, taken as it is used;
* the cache of the browser: each update is one readwrite transaction, and the
  browser serialises them;
* carrying the codes over a locked PIN session, and over the onion relays: one
  sealed message each way, which `CodeExchange` takes as handed over or not;
* pages, components and the terminal: they start, cancel and show. They are the
  larger half of the source, and why the share of it the modules map is small.

Three hazards have no property: the manifest that is not repeated (it is not
recovered, so nothing true could be stated), the two lane timers, whose order is
taken as given, and an announcement delivered late: its number is compared in the
model, but no invariant tells a receiver's view that went back from one that
has not moved on. Four more are covered in part, as their notes in
`PROJECT.json` say: a late report is caught by the re-send it uses up
(`GoodRelayDelivers`), not by its strike; a hello heard while an announcement is
sent is modelled, but no property asks for the answer to it; the receiver's retry
clock runs, but announcements that come again by themselves would start most of
the same cycles; and a publish that outlasts a refresh is covered, one that
outlasts the next rotation's is only an observation.

## What could follow

The restart of the sending hook, as a second operator beside the receiving one;
an action property of the receiver's view, which never goes back; the carriage
of codes over the PIN session, which would join `PinRendezvous` and
`CodeExchange`.
