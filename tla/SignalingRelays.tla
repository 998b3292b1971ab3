---------------------------- MODULE SignalingRelays ----------------------------
(***************************************************************************)
(* The relays of one transfer over relays: how the sender picks the ones the   *)
(* offer names (resolveTransferRelays), the ones that store chunks             *)
(* (prepareStorageRelays) and the spares, how it sweeps the rest of the        *)
(* population behind the transfer (sweepRelayHealth), and how the control      *)
(* channel's set lives on (ControlRelaySet): relays that keep failing are      *)
(* demoted, replacements and spares take their places, and the receiver        *)
(* follows what announcements name.                                            *)
(*                                                                          *)
(* Abstractions.                                                            *)
(*  - A relay is a model value.  A probe passes or fails; round trips are not  *)
(*    modelled, so "the fastest" are any.                                      *)
(*  - Every message of the sender is an announcement.  The messages of the     *)
(*    receiver are not modelled, only the set it publishes to: its tallies     *)
(*    are left open, so it may demote whatever the floor allows.               *)
(*  - A receiver that has not joined is one that has heard nothing.            *)
(*  - pool.close(url) ends the subscriptions on that relay.                    *)
(***************************************************************************)
EXTENDS Integers, FiniteSets, Sequences, FiniteSetsExt

CONSTANTS
  Seed,          \* DEFAULT_RELAYS
  Candidate,     \* relays discovery may name
  Count,         \* CONTROL_RELAY_COUNT
  MinControl,    \* MIN_CONTROL_RELAYS
  ReserveCount,  \* CONTROL_RESERVE_COUNT
  RingCount,     \* UPLOAD_RELAY_COUNT
  MinUpload,     \* MIN_UPLOAD_RELAYS
  Concurrency,   \* HEALTH_CHECK_CONCURRENCY
  MinSettled,    \* CONTROL_DEMOTE_MIN_PUBLISHES
  MaxSends       \* bound: announcements published

ASSUME SignalingAssumption ==
  /\ IsFiniteSet(Seed) /\ IsFiniteSet(Candidate) /\ Seed \cap Candidate = {}
  /\ Count \in Nat \ {0} /\ MinControl \in 1 .. Count
  /\ ReserveCount \in Nat /\ RingCount \in Nat \ {0} /\ MinUpload \in 1 .. RingCount
  /\ Concurrency \in Nat \ {0} /\ MinSettled \in Nat \ {0} /\ MaxSends \in Nat

VARIABLES
  \* Selection
  probing,       \* the health check under way, of "seeds", "backfill" or
                 \* "ring", the discovery of the "sweep", or "none"
  todo, flying,  \* its candidates not yet probed, and those being probed
  healthy,       \* relays it selected
  late,          \* relays that passed after its target was filled
  target,
  offer,         \* "pending", "shown" or "refused"
  deferred,      \* whether the code was shown before the backfill finished
  control,       \* relays the offer names; while pending, the healthy defaults
  replacements,  \* what a deferred backfill proved
  leftover,      \* `discovered`: [proven, unprobed] or NoLeftover
  ringTask,      \* "waiting", "ready" or "failed"
  ring, reserve,
  swept,         \* relays the sweep has still to probe
  \* Control channel of the sender
  chan,          \* "unopened", "open", "finished" or "closed"
  subscribed,    \* relays its subscriptions stand on
  known, active, \* ControlRelaySet
  tally,         \* `settled`: per relay, publishes accepted and given up
  spares,        \* `reserve` of sendFileLive
  owed,          \* owedPromotions
  arrived,       \* which of "replacements" and "reserve" have been handled
  sends,         \* announcements, in the order of n
  \* Control channel of the receiver
  rKnown, rActive,
  rHeard         \* lastSenderN

checkVars == <<todo, flying, healthy, late, target>>
offerVars == <<offer, deferred, control, replacements, leftover>>
ringVars == <<ringTask, ring, reserve, swept>>
selectionVars == <<probing, todo, flying, healthy, late, target, offer, deferred,
                   control, replacements, leftover, ringTask, ring, reserve, swept>>
setVars == <<known, active, tally, spares, owed, arrived>>
receiverVars == <<rKnown, rActive, rHeard>>
channelVars == <<chan, known, active, tally, spares, owed, arrived, sends,
                 rKnown, rActive, rHeard>>
vars == <<selectionVars, channelVars, subscribed>>

Relay == Seed \cup Candidate
MaxKnown == Count + ReserveCount  \* CONTROL_RELAY_MAX
NoLeftover == [proven |-> {}, unprobed |-> {}, found |-> FALSE]
Zero == [ok |-> 0, gaveUp |-> 0]
Smaller(a, b) == IF a < b THEN a ELSE b

\* n of them, or all there are.
UpTo(n, relays) == kSubset(Smaller(n, Cardinality(relays)), relays)

Init ==
  /\ probing = "seeds" /\ todo = Seed /\ flying = {} /\ healthy = {} /\ late = {}
  /\ target = Count
  /\ offer = "pending" /\ deferred = FALSE /\ control = {} /\ replacements = {}
  /\ leftover = NoLeftover
  /\ ringTask = "waiting" /\ ring = {} /\ reserve = {} /\ swept = {}
  /\ chan = "unopened" /\ subscribed = {} /\ known = {} /\ active = {}
  /\ tally = [r \in Relay |-> Zero]
  /\ spares = {} /\ owed = 0 /\ arrived = {} /\ sends = <<>>
  /\ rKnown = {} /\ rActive = {} /\ rHeard = 0

-----------------------------------------------------------------------------
(* Health checks: up to Concurrency probes at a time, until target passed *)

BeginCheck(what, candidates, wanted) ==
  /\ probing' = what /\ todo' = candidates /\ target' = wanted
  /\ flying' = {} /\ healthy' = {} /\ late' = {}

Unfilled == Cardinality(healthy) < target

Probe(r) ==
  /\ r \in todo /\ Unfilled /\ Cardinality(flying) < Concurrency
  /\ todo' = todo \ {r} /\ flying' = flying \cup {r}
  /\ UNCHANGED <<probing, healthy, late, target, offerVars, ringVars, channelVars,
                 subscribed>>

\* A relay that fails, or passes when siblings have filled the target, is closed.
ProbePasses(r) ==
  /\ r \in flying /\ flying' = flying \ {r}
  /\ IF Unfilled
       THEN healthy' = healthy \cup {r} /\ UNCHANGED <<late, subscribed>>
       ELSE late' = late \cup {r} /\ subscribed' = subscribed \ {r} /\ UNCHANGED healthy
  /\ UNCHANGED <<probing, todo, target, offerVars, ringVars, channelVars>>

ProbeFails(r) ==
  /\ r \in flying /\ flying' = flying \ {r} /\ subscribed' = subscribed \ {r}
  /\ UNCHANGED <<probing, todo, healthy, late, target, offerVars, ringVars, channelVars>>

CheckEnds(what) ==
  probing = what /\ flying = {} /\ (todo = {} \/ ~Unfilled)

-----------------------------------------------------------------------------
(* The relays the offer names *)

\* Enough defaults answered, or the gap is filled from what discovery names.
SeedsSuffice ==
  /\ CheckEnds("seeds") /\ Cardinality(healthy) = Count
  /\ control' = healthy /\ offer' = "shown" /\ BeginCheck("none", {}, 0)
  /\ UNCHANGED <<deferred, replacements, leftover, ringVars, channelVars, subscribed>>

Backfill ==
  /\ CheckEnds("seeds") /\ Cardinality(healthy) < Count
  /\ control' = healthy
  /\ \E found \in SUBSET Candidate :
       BeginCheck("backfill", found, Count - Cardinality(healthy))
  /\ UNCHANGED <<offer, deferred, replacements, leftover, ringVars, channelVars,
                 subscribed>>

\* The person would rather have the code than wait.
Defer ==
  /\ probing = "backfill" /\ offer = "pending" /\ Cardinality(control) >= MinControl
  /\ offer' = "shown" /\ deferred' = TRUE
  /\ UNCHANGED <<probing, checkVars, control, replacements, leftover, ringVars,
                 channelVars, subscribed>>

\* What passed and was not taken is left for the ring.
Proven == late

BackfillEnds ==
  /\ CheckEnds("backfill")
  /\ leftover' = [proven |-> Proven, unprobed |-> todo, found |-> TRUE]
  /\ IF deferred
       THEN replacements' = healthy /\ UNCHANGED <<control, offer>>
       ELSE /\ control' = control \cup healthy
            /\ offer' = IF Cardinality(control') < MinControl THEN "refused" ELSE "shown"
            /\ UNCHANGED replacements
  /\ BeginCheck("none", {}, 0)
  /\ UNCHANGED <<deferred, ringVars, channelVars, subscribed>>

BackfillFails ==
  /\ probing = "backfill" /\ flying = {}
  /\ offer' = IF deferred THEN "shown" ELSE "refused"
  /\ BeginCheck("none", {}, 0)
  /\ UNCHANGED <<deferred, control, replacements, leftover, ringVars, channelVars,
                 subscribed>>

-----------------------------------------------------------------------------
(* The storage ring, the spares and the sweep *)

\* Discovery reopens the seeds; the ones that carry nothing are closed again.
SeedsDone == Seed \ control

PrepareRing ==
  /\ offer = "shown" /\ probing = "none" /\ ringTask = "waiting"
  /\ IF leftover.found
       THEN /\ BeginCheck("ring", leftover.unprobed \ control,
                          RingCount - Cardinality(leftover.proven))
            /\ UNCHANGED subscribed
       ELSE /\ \E found \in SUBSET (Candidate \ control) :
                 BeginCheck("ring", found, RingCount)
            /\ subscribed' = subscribed \ SeedsDone
  /\ UNCHANGED <<offerVars, ringVars, channelVars>>

\* mutant: what the control channel is yet to take on is not left out
CarryingNow == control \cup reserve \cup ring
\* Relays that carry this transfer, or may come to.
Carrying == control \cup replacements \cup reserve \cup ring

RingFills ==
  LET usable == leftover.proven \cup healthy IN
  /\ CheckEnds("ring") /\ Cardinality(usable) >= MinUpload
  /\ \E chosen \in UpTo(RingCount, usable) :
       /\ ring' = chosen /\ ringTask' = "ready"
       /\ reserve' \in UpTo(ReserveCount, usable \ chosen)
       /\ subscribed' = subscribed \ (usable \ chosen)
  /\ BeginCheck("sweep", {}, 0)
  /\ UNCHANGED <<offerVars, swept, channelVars>>

RingFails ==
  /\ CheckEnds("ring") /\ Cardinality(leftover.proven \cup healthy) < MinUpload
  /\ ringTask' = "failed" /\ BeginCheck("none", {}, 0)
  /\ UNCHANGED <<offerVars, ring, reserve, swept, channelVars, subscribed>>

\* Discovery names what it names, and the sweep ends with the transfer: any of the
\* others may be probed, or not.
SweepBegins ==
  /\ probing = "sweep" /\ probing' = "none"
  /\ swept' = Candidate \ Carrying /\ subscribed' = subscribed \ (Seed \ Carrying)
  /\ UNCHANGED <<checkVars, offerVars, ringTask, ring, reserve, channelVars>>

\* The sweep closes each relay when its probe ends, whatever the verdict.
SweepProbe(r) ==
  /\ r \in swept /\ swept' = swept \ {r} /\ subscribed' = subscribed \ {r}
  /\ UNCHANGED <<probing, checkVars, offerVars, ringTask, ring, reserve, channelVars>>

-----------------------------------------------------------------------------
(* The sender's control channel *)

Listening == chan \in {"open", "finished"}

\* The direct attempt is over; the offer's relays carry the control messages.
OpenChannel ==
  /\ chan = "unopened" /\ offer = "shown" /\ chan' = "open"
  /\ known' = control /\ active' = control /\ subscribed' = control
  /\ rKnown' = control /\ rActive' = control
  /\ UNCHANGED <<selectionVars, tally, spares, owed, arrived, sends, rHeard>>

\* `accept`: the relays taken on of those given, while there is room.
Accept(relays, have) ==
  UpTo(IF Cardinality(have) < MaxKnown THEN MaxKnown - Cardinality(have) ELSE 0,
       relays \ have)

\* promote: spares take the places owed.  A spare the channel does not take on is
\* spent all the same.
Promote(inHand, places, knew, was, heard) ==
  \E P \in Accept(inHand, knew) :
    \E Q \in UpTo(places, P) :
      /\ known' = knew \cup Q /\ active' = was \cup Q /\ subscribed' = heard \cup Q
      /\ owed' = places - Cardinality(Q)
      /\ spares' = IF owed' > 0 THEN {} ELSE inHand \ Q

\* mutant: a demotion before any spare arrived is forgotten
OwingIfSpare == IF spares = {} THEN owed ELSE owed + 1
\* A demotion leaves one more place waiting for a spare.
Owing == owed + 1

AboveFloor == Cardinality(active) > MinControl

\* What the set counts once this relay has given up once more.
GivenUp(r) == [tally EXCEPT ![r].gaveUp = @ + 1]
Condemned(r) ==
  LET e == GivenUp(r)[r] IN
  /\ AboveFloor /\ r \in active
  /\ e.ok + e.gaveUp >= MinSettled /\ 2 * e.gaveUp >= e.ok + e.gaveUp

\* An announcement is built, then sealed, then published to the set as it is by then.
\* The control loop builds the next when this one has settled.
Unsettled(m) == sends[m].state \in {"built", "waiting"}

AnnouncedSpares == active \cup spares  \* mutant: names spares not yet taken on
Announced == active

BuildAvail ==
  /\ chan = "open" /\ Len(sends) < MaxSends
  /\ \A m \in DOMAIN sends : ~Unsettled(m)
  /\ sends' = Append(sends, [ctl |-> Announced, to |-> {}, flying |-> {}, state |-> "built"])
  /\ UNCHANGED <<selectionVars, chan, setVars, receiverVars, subscribed>>

Publish(m) ==
  /\ Listening /\ sends[m].state = "built"
  /\ sends' = [sends EXCEPT ![m].to = active, ![m].flying = active, ![m].state = "waiting"]
  /\ UNCHANGED <<selectionVars, chan, setVars, receiverVars, subscribed>>

PublishAccepted(m, r) ==
  /\ Listening /\ r \in sends[m].flying
  /\ sends' = [sends EXCEPT ![m].flying = @ \ {r}, ![m].state = "ok"]
  /\ tally' = [tally EXCEPT ![r].ok = @ + 1]
  /\ UNCHANGED <<selectionVars, chan, known, active, spares, owed, arrived, receiverVars,
                 subscribed>>

\* mutant: counts the failures against the set as it is now
LastOfActive(m, r) ==
  /\ sends[m].state = "waiting"
  /\ Cardinality(sends[m].to \ sends[m].flying) + 1 = Cardinality(active)
\* Whether this relay is the last of the publish's own to give up.
LastToGiveUp(m, r) == sends[m].flying = {r} /\ sends[m].state = "waiting"

\* All retries rejected.  When no relay took it the control loop fails, and with it
\* the upload.  What is still in flight when the channel closes no longer counts.
PublishGaveUp(m, r) ==
  /\ Listening /\ r \in sends[m].flying
  /\ sends' = [sends EXCEPT ![m].flying = @ \ {r},
                            ![m].state = IF LastToGiveUp(m, r) THEN "refused" ELSE @]
  /\ chan' = IF LastToGiveUp(m, r) /\ chan = "open" THEN "finished" ELSE chan
  /\ tally' = GivenUp(r)
  /\ IF Condemned(r)
       THEN Promote(spares, Owing, known, active \ {r}, subscribed)
       ELSE UNCHANGED <<known, active, subscribed, owed, spares>>
  /\ UNCHANGED <<selectionVars, arrived, receiverVars>>

\* The deferred backfill's replacements are taken on, and spares for the places they
\* leave empty; before the spares, which wait for the ring.
ReplacementsArrive ==
  /\ chan = "open" /\ deferred /\ probing # "backfill"
  /\ "replacements" \notin arrived /\ arrived' = arrived \cup {"replacements"}
  /\ \E added \in Accept(replacements, known) :
       LET missing == Count - Cardinality(control) - Cardinality(added) IN
       Promote(spares, owed + (IF missing > 0 THEN missing ELSE 0),
               known \cup added, active \cup added, subscribed \cup added)
  /\ UNCHANGED <<selectionVars, chan, tally, sends, receiverVars>>

ReserveArrives ==
  /\ chan = "open" /\ ringTask # "waiting" /\ (deferred => "replacements" \in arrived)
  /\ "reserve" \notin arrived /\ arrived' = arrived \cup {"reserve"}
  /\ Promote(spares \cup reserve, owed, known, active, subscribed)
  /\ UNCHANGED <<selectionVars, chan, tally, sends, receiverVars>>

\* The upload is over; the teardown waits for the control loop, then closes.
Finish ==
  /\ chan = "open" /\ chan' = "finished"
  /\ UNCHANGED <<selectionVars, setVars, sends, receiverVars, subscribed>>
Close ==
  /\ chan = "finished" /\ \A m \in DOMAIN sends : ~Unsettled(m)
  /\ chan' = "closed" /\ subscribed' = {}
  /\ UNCHANGED <<selectionVars, setVars, sends, receiverVars>>

-----------------------------------------------------------------------------
(* The receiver's control channel *)

\* A relay keeps what it was given, and may have it although its answer was lost.
\* The receiver adds what is new and keeps the rest.
ReceiverHears(m) ==
  /\ m > rHeard /\ sends[m].to \cap rKnown # {} /\ rHeard' = m
  /\ \E fresh \in Accept(sends[m].ctl, rKnown) :
       rKnown' = rKnown \cup fresh /\ rActive' = rActive \cup fresh
  /\ UNCHANGED <<selectionVars, chan, setVars, sends, subscribed>>

\* It demotes on its own record, and has no replacement of its own.
ReceiverDemotes(r) ==
  /\ r \in rActive /\ Cardinality(rActive) > MinControl
  /\ rActive' = rActive \ {r}
  /\ UNCHANGED <<selectionVars, chan, setVars, sends, rKnown, rHeard, subscribed>>

-----------------------------------------------------------------------------

Probing == \E r \in Relay : Probe(r) \/ ProbePasses(r) \/ ProbeFails(r) \/ SweepProbe(r)
Selecting ==
  \/ SeedsSuffice \/ Backfill \/ Defer \/ BackfillEnds \/ BackfillFails
  \/ PrepareRing \/ RingFills \/ RingFails \/ SweepBegins
Sending ==
  \/ OpenChannel \/ BuildAvail \/ ReplacementsArrive \/ ReserveArrives \/ Finish \/ Close
  \/ \E m \in DOMAIN sends :
       \/ Publish(m)
       \/ \E r \in Relay : PublishAccepted(m, r) \/ PublishGaveUp(m, r)
Receiving ==
  \/ \E m \in DOMAIN sends : ReceiverHears(m)
  \/ \E r \in Relay : ReceiverDemotes(r)

Next == Probing \/ Selecting \/ Sending \/ Receiving

Spec == Init /\ [][Next]_vars

-----------------------------------------------------------------------------
(* Properties *)

\* The subscriptions on the relays of the control set stand as long as the channel
\* does: no probe, sweep, discovery or selection closes a relay that carries it,
\* whenever that relay was taken on.
SubscriptionsStand == Listening => known \subseteq subscribed

\* The sender listens wherever the receiver publishes, whatever was demoted,
\* replaced, announced and heard on either side, and without an acknowledgement.
PeerIsHeard == Listening => rActive \subseteq subscribed

\* Every place in the control set is filled or owed to a spare: demotions and
\* arrivals of replacements and spares, in any order, lose or add none, a spare in
\* hand is never held back, and the set never shrinks below its floor.
PlacesAccounted ==
  chan # "unopened" =>
    /\ Cardinality(active) + owed
         = IF "replacements" \in arrived THEN Count ELSE Cardinality(control)
    /\ owed > 0 => spares = {}
    /\ Cardinality(active) >= MinControl

\* A send that no relay has accepted is refused when the last relay it was published
\* to gives up, neither before nor never, whatever joined or left the set meanwhile.
SendsAnswered ==
  \A m \in DOMAIN sends :
    /\ sends[m].state = "refused" => sends[m].flying = {}
    /\ sends[m].state = "waiting" => sends[m].flying # {}

\* docs/NOSTR_FILE_RELAY.md: relays that passed the full-size probe during the ring's
\* preparation and missed the ring are the reserve.
MissedRingIsReserve ==
  [][ringTask' = "ready" /\ ringTask = "waiting" =>
       Cardinality(reserve')
         = Smaller(ReserveCount,
                   Cardinality((leftover.proven \cup healthy \cup late) \ ring'))]_vars
================================================================================
