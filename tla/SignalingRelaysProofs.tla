------------------------ MODULE SignalingRelaysProofs ------------------------
(* The promises of SignalingRelays for any relays, counts and concurrency, and *)
(* why the code's own counts leave no spare relays.                            *)
EXTENDS SignalingRelays, FiniteSetTheorems, TLAPS

(* The inductive invariant: the selection *)

SetsOK ==
  /\ todo \subseteq Relay /\ flying \subseteq Relay
  /\ healthy \subseteq Relay /\ late \subseteq Relay
  /\ control \subseteq Relay /\ replacements \subseteq Relay
  /\ leftover.proven \subseteq Relay /\ leftover.unprobed \subseteq Relay
  /\ ring \subseteq Relay /\ reserve \subseteq Relay /\ swept \subseteq Relay

\* What is still to come has left nothing behind yet.
Stages ==
  /\ probing \in {"seeds", "backfill", "ring", "sweep", "none"}
  /\ probing = "seeds" =>
       /\ offer = "pending" /\ control = {}
       /\ todo \subseteq Seed /\ flying \subseteq Seed
       /\ healthy \subseteq Seed /\ late \subseteq Seed
  /\ probing = "backfill" =>
       /\ control \subseteq Seed
       /\ todo \subseteq Candidate /\ flying \subseteq Candidate
       /\ healthy \subseteq Candidate /\ late \subseteq Candidate
       /\ deferred \/ offer = "pending"
  /\ probing \in {"seeds", "backfill"} => leftover = NoLeftover
  /\ probing \in {"seeds", "backfill", "ring"} => ringTask = "waiting"
  /\ probing = "sweep" => ringTask = "ready"
  /\ ringTask = "waiting" => reserve = {} /\ swept = {}
  /\ probing \in {"sweep", "none"} => todo = {} /\ flying = {}
  /\ ~leftover.found => replacements = {} /\ leftover.proven = {}
  /\ ~deferred => replacements = {}
  /\ deferred => offer = "shown"

\* A relay is in one place, and none that carries the transfer is probed.
Apart ==
  /\ todo \cap flying = {} /\ todo \cap healthy = {} /\ todo \cap late = {}
  /\ flying \cap healthy = {} /\ flying \cap late = {} /\ healthy \cap late = {}
  /\ leftover.proven \cap (control \cup replacements) = {}
  /\ leftover.unprobed \cap (control \cup replacements) = {}
  /\ probing = "ring" =>
       (todo \cup flying \cup healthy \cup late) \cap (control \cup replacements) = {}
  /\ swept \cap Carrying = {}

SInv == SetsOK /\ Stages /\ Apart

(* The inductive invariant: the channels *)

Opened == chan # "unopened" => offer = "shown" /\ known \subseteq control \cup replacements \cup reserve
Known ==
  /\ Listening => known \subseteq subscribed
  /\ active \subseteq known /\ spares \subseteq reserve
  /\ rActive \subseteq rKnown /\ rKnown \subseteq known
  /\ chan = "unopened" => known = {} /\ spares = {}
  /\ \A m \in DOMAIN sends : sends[m].ctl \subseteq known
CInv == Opened /\ Known

USE SignalingAssumption DEF Relay

-----------------------------------------------------------------------------
(* The selection *)

LEMMA SelectionStart == Init => SInv
BY DEF Init, SInv, SetsOK, Stages, Apart, NoLeftover

LEMMA UpToFacts ==
  ASSUME NEW n, NEW S
  PROVE  UpTo(n, S) \subseteq SUBSET S
BY DEF UpTo, kSubset

LEMMA SelectionStep == SInv /\ [Next]_vars => SInv'
<1> SUFFICES ASSUME SInv, [Next]_vars PROVE SInv'
  OBVIOUS
<1> USE DEF SInv, SetsOK, Stages, Apart, Carrying, NoLeftover
<1>1. ASSUME NEW r \in Relay, Probe(r) PROVE SInv'
  BY <1>1 DEF Probe, offerVars, ringVars
<1>2. ASSUME NEW r \in Relay, ProbePasses(r) PROVE SInv'
  BY <1>2 DEF ProbePasses, offerVars, ringVars
<1>3. ASSUME NEW r \in Relay, ProbeFails(r) PROVE SInv'
  BY <1>3 DEF ProbeFails, offerVars, ringVars
<1>4. ASSUME NEW r \in Relay, SweepProbe(r) PROVE SInv'
  BY <1>4 DEF SweepProbe, checkVars, offerVars
<1>5. CASE SeedsSuffice
  BY <1>5 DEF SeedsSuffice, CheckEnds, BeginCheck, ringVars
<1>6. CASE Backfill
  BY <1>6 DEF Backfill, CheckEnds, BeginCheck, ringVars
<1>7. CASE Defer
  BY <1>7 DEF Defer, checkVars, ringVars
<1>8. CASE BackfillEnds
  BY <1>8 DEF BackfillEnds, CheckEnds, BeginCheck, Proven, ringVars
<1>9. CASE BackfillFails
  BY <1>9 DEF BackfillFails, BeginCheck, ringVars
<1>10. CASE PrepareRing
  BY <1>10 DEF PrepareRing, BeginCheck, offerVars, ringVars
<1>11. CASE RingFills
  BY <1>11, UpToFacts DEF RingFills, CheckEnds, BeginCheck, offerVars
<1>12. CASE RingFails
  BY <1>12 DEF RingFails, CheckEnds, BeginCheck, offerVars
<1>13. CASE SweepBegins
  BY <1>13 DEF SweepBegins, checkVars, offerVars
<1>14. CASE UNCHANGED selectionVars
  BY <1>14 DEF selectionVars
<1>15. CASE Sending \/ Receiving \/ UNCHANGED vars
  BY <1>14, <1>15 DEF Sending, Receiving, vars, OpenChannel, BuildAvail, Publish,
     PublishAccepted, PublishGaveUp, ReplacementsArrive, ReserveArrives, Finish, Close,
     ReceiverHears, ReceiverDemotes
<1> QED
  BY <1>1, <1>2, <1>3, <1>4, <1>5, <1>6, <1>7, <1>8, <1>9, <1>10, <1>11, <1>12, <1>13,
     <1>15 DEF Next, Probing, Selecting
-----------------------------------------------------------------------------
(* The channels *)

LEMMA ChannelStart == Init => CInv
BY DEF Init, CInv, Opened, Known, Listening

\* Nothing that is closed carries the channel.
LEMMA KeptOpen ==
  ASSUME SInv, Opened, Listening
  PROVE  /\ flying \cap known = {} /\ swept \cap known = {}
         /\ CheckEnds("ring") => (leftover.proven \cup healthy) \cap known = {}
         /\ probing # "seeds"
BY DEF SInv, SetsOK, Stages, Apart, NoLeftover, Opened, Listening, Carrying, CheckEnds

LEMMA AcceptFacts ==
  ASSUME NEW relays, NEW have
  PROVE  Accept(relays, have) \subseteq SUBSET (relays \ have)
BY UpToFacts DEF Accept

LEMMA PromoteFacts ==
  ASSUME NEW inHand, NEW places, NEW knew, NEW was, NEW heard,
         Promote(inHand, places, knew, was, heard)
  PROVE  \E Q \in SUBSET (inHand \ knew) :
           /\ known' = knew \cup Q /\ active' = was \cup Q /\ subscribed' = heard \cup Q
           /\ spares' \subseteq inHand
BY AcceptFacts, UpToFacts DEF Promote

LEMMA ChannelStep == SInv /\ CInv /\ [Next]_vars => CInv'
<1> SUFFICES ASSUME SInv, CInv, [Next]_vars PROVE CInv'
  OBVIOUS
<1> USE DEF CInv, Opened, Known, Listening
<1>1. CASE Probing
  <2>1. ASSUME NEW r \in Relay, Probe(r) \/ ProbePasses(r) \/ ProbeFails(r) \/ SweepProbe(r)
        PROVE CInv'
    BY <2>1, KeptOpen DEF Probe, ProbePasses, ProbeFails, SweepProbe, offerVars, ringVars,
       channelVars, checkVars
  <2> QED BY <1>1, <2>1 DEF Probing
<1>2. CASE SeedsSuffice \/ Backfill
  BY <1>2, KeptOpen DEF SeedsSuffice, Backfill, SInv, Stages, CheckEnds, offerVars,
     ringVars, channelVars
<1>3. CASE Defer
  BY <1>3 DEF Defer, ringVars, channelVars
<1>4. CASE BackfillEnds
  BY <1>4 DEF BackfillEnds, SInv, Stages, NoLeftover, CheckEnds, ringVars, channelVars
<1>5. CASE BackfillFails
  BY <1>5 DEF BackfillFails, SInv, Stages, ringVars, channelVars
<1>6. CASE PrepareRing
  <2>1. reserve = {} /\ (~leftover.found => replacements = {})
    BY <1>6 DEF PrepareRing, SInv, Stages
  <2>2. Listening => known \subseteq subscribed'
    BY <1>6, <2>1 DEF PrepareRing, SeedsDone
  <2> QED
    BY <1>6, <2>2 DEF PrepareRing, offerVars, ringVars, channelVars
<1>7. CASE RingFills
  BY <1>7, KeptOpen, UpToFacts DEF RingFills, SInv, Stages, CheckEnds, offerVars, channelVars
<1>8. CASE RingFails
  BY <1>8 DEF RingFails, offerVars, channelVars
<1>9. CASE SweepBegins
  BY <1>9 DEF SweepBegins, Carrying, offerVars, channelVars
<1>10. CASE OpenChannel
  BY <1>10 DEF OpenChannel, selectionVars
<1>11. CASE BuildAvail
  BY <1>11 DEF BuildAvail, Announced, selectionVars, setVars, receiverVars
<1>12. CASE ReplacementsArrive
  BY <1>12, AcceptFacts, PromoteFacts DEF ReplacementsArrive, selectionVars, receiverVars
<1>13. CASE ReserveArrives
  BY <1>13, PromoteFacts DEF ReserveArrives, selectionVars, receiverVars
<1>14. CASE Finish \/ Close
  BY <1>14 DEF Finish, Close, selectionVars, setVars, receiverVars
<1>15. ASSUME NEW m \in DOMAIN sends, Publish(m) PROVE CInv'
  BY <1>15 DEF Publish, selectionVars, setVars, receiverVars
<1>16. ASSUME NEW m \in DOMAIN sends, NEW r \in Relay, PublishAccepted(m, r) PROVE CInv'
  BY <1>16 DEF PublishAccepted, selectionVars, receiverVars
<1>17. ASSUME NEW m \in DOMAIN sends, NEW r \in Relay, PublishGaveUp(m, r) PROVE CInv'
  BY <1>17, PromoteFacts DEF PublishGaveUp, selectionVars, receiverVars
<1>18. ASSUME NEW m \in DOMAIN sends, ReceiverHears(m) PROVE CInv'
  BY <1>18, AcceptFacts DEF ReceiverHears, selectionVars, setVars
<1>19. ASSUME NEW r \in Relay, ReceiverDemotes(r) PROVE CInv'
  BY <1>19 DEF ReceiverDemotes, selectionVars, setVars
<1>20. CASE UNCHANGED vars
  BY <1>20 DEF vars, selectionVars, channelVars
<1> QED
  BY <1>1, <1>2, <1>3, <1>4, <1>5, <1>6, <1>7, <1>8, <1>9, <1>10, <1>11, <1>12, <1>13,
     <1>14, <1>15, <1>16, <1>17, <1>18, <1>19, <1>20
     DEF Next, Selecting, Sending, Receiving
-----------------------------------------------------------------------------
(* Counting *)

\* What a check may still take, and what the offer and the replacements hold.
Filling ==
  /\ probing = "seeds" => target = Count /\ Cardinality(healthy) <= target
  /\ probing = "backfill" =>
       target = Count - Cardinality(control) /\ Cardinality(healthy) <= target
  /\ Cardinality(control) + Cardinality(replacements) <= Count
  /\ offer = "shown" => MinControl <= Cardinality(control)

Places ==
  /\ owed \in Nat
  /\ chan = "unopened" => arrived = {} /\ owed = 0

LEMMA Sizes ==
  ASSUME NEW S, S \subseteq Relay
  PROVE  /\ IsFiniteSet(S) /\ Cardinality(S) \in Nat
         /\ \A x : /\ x \notin S => Cardinality(S \cup {x}) = Cardinality(S) + 1
                   /\ x \in S => Cardinality(S \ {x}) = Cardinality(S) - 1
<1>1. IsFiniteSet(Relay)
  BY FS_Union
<1>2. IsFiniteSet(S)
  BY <1>1, FS_Subset
<1> QED
  BY <1>2, FS_CardinalityType, FS_AddElement, FS_RemoveElement

LEMMA DisjointSizes ==
  ASSUME NEW S, NEW T, S \subseteq Relay, T \subseteq Relay, S \cap T = {}
  PROVE  Cardinality(S \cup T) = Cardinality(S) + Cardinality(T)
<1>1. IsFiniteSet(S) /\ IsFiniteSet(T) /\ Cardinality(S) \in Nat /\ Cardinality(T) \in Nat
  BY Sizes
<1>2. Cardinality({}) = 0
  BY FS_EmptySet
<1>3. Cardinality(S \cup T) = Cardinality(S) + Cardinality(T) - Cardinality(S \cap T)
  BY <1>1, FS_Union
<1>4. Cardinality(S \cap T) = 0
  BY <1>2, Zenon
<1> QED
  BY <1>1, <1>3, <1>4

LEMMA FillingStart == Init => Filling
BY FS_EmptySet DEF Init, Filling

LEMMA FillingStep == SInv /\ Filling /\ [Next]_vars => Filling'
<1> SUFFICES ASSUME SInv, Filling, [Next]_vars PROVE Filling'
  OBVIOUS
<1> USE DEF Filling
<1>0. /\ Cardinality(control) \in Nat /\ Cardinality(replacements) \in Nat
      /\ Cardinality(healthy) \in Nat /\ Cardinality({}) = 0
  BY Sizes, FS_EmptySet DEF SInv, SetsOK
<1>1. ASSUME NEW r \in Relay, ProbePasses(r) PROVE Filling'
  <2>1. r \notin healthy /\ healthy \subseteq Relay
    BY <1>1 DEF ProbePasses, SInv, SetsOK, Apart
  <2>2. Cardinality(healthy \cup {r}) = Cardinality(healthy) + 1
    BY <2>1, Sizes
  <2>3. CASE Unfilled
    <3>1. healthy' = healthy \cup {r}
      BY <1>1, <2>3 DEF ProbePasses
    <3>2. Cardinality(healthy') = Cardinality(healthy) + 1
      BY <2>2, <3>1, Zenon
    <3>3. probing \in {"seeds", "backfill"} => Cardinality(healthy') <= target
      BY <1>0, <2>3, <3>2 DEF Unfilled
    <3> QED
      BY <1>1, <3>3 DEF ProbePasses, offerVars
  <2>4. CASE ~Unfilled
    BY <1>1, <2>4 DEF ProbePasses, offerVars
  <2> QED
    BY <2>3, <2>4
<1>2. ASSUME NEW r \in Relay, Probe(r) \/ ProbeFails(r) \/ SweepProbe(r) PROVE Filling'
  BY <1>2 DEF Probe, ProbeFails, SweepProbe, offerVars, checkVars
<1>12. probing \in {"seeds", "backfill"} => Cardinality(replacements) = 0
  <2>1. probing \in {"seeds", "backfill"} => replacements = {}
    BY DEF SInv, Stages, NoLeftover
  <2> QED
    BY <1>0, <2>1, Zenon
<1>3. CASE SeedsSuffice
  BY <1>0, <1>12, <1>3 DEF SeedsSuffice, CheckEnds, BeginCheck
<1>4. CASE Backfill
  <2>1. probing = "seeds" /\ probing' = "backfill" /\ offer = "pending" /\ healthy' = {}
    BY <1>4 DEF Backfill, CheckEnds, BeginCheck, SInv, Stages
  <2> QED
    BY <1>0, <1>12, <1>4, <2>1 DEF Backfill, BeginCheck
<1>5. CASE Defer
  BY <1>5 DEF Defer, checkVars
<1>6. CASE BackfillEnds
  <2>1. control \subseteq Relay /\ healthy \subseteq Relay /\ control \cap healthy = {}
    BY <1>6 DEF BackfillEnds, CheckEnds, SInv, SetsOK, Stages
  <2>2. Cardinality(control \cup healthy) = Cardinality(control) + Cardinality(healthy)
    BY <2>1, DisjointSizes
  <2>3. Cardinality(replacements) = 0 /\ probing = "backfill" /\ probing' = "none"
    BY <1>6, <1>12 DEF BackfillEnds, CheckEnds, BeginCheck
  <2>4. CASE deferred
    BY <1>0, <1>6, <2>3, <2>4 DEF BackfillEnds
  <2>5. CASE ~deferred
    <3>1. control' = control \cup healthy /\ replacements' = replacements
      BY <1>6, <2>5 DEF BackfillEnds
    <3>2. Cardinality(control') = Cardinality(control) + Cardinality(healthy)
      BY <2>2, <3>1, Zenon
    <3> QED
      BY <1>0, <1>6, <2>3, <2>5, <3>1, <3>2 DEF BackfillEnds
  <2> QED
    BY <2>4, <2>5
<1>7. CASE BackfillFails
  BY <1>7 DEF BackfillFails, BeginCheck, SInv, Stages
<1>8. CASE PrepareRing \/ RingFills \/ RingFails
  BY <1>8 DEF PrepareRing, RingFills, RingFails, BeginCheck, offerVars
<1>9. CASE SweepBegins
  BY <1>9 DEF SweepBegins, checkVars, offerVars
<1>10. CASE UNCHANGED selectionVars
  BY <1>10 DEF selectionVars
<1>11. CASE Sending \/ Receiving \/ UNCHANGED vars
  BY <1>10, <1>11 DEF Sending, Receiving, vars, OpenChannel, BuildAvail, Publish,
     PublishAccepted, PublishGaveUp, ReplacementsArrive, ReserveArrives, Finish, Close,
     ReceiverHears, ReceiverDemotes
<1> QED
  BY <1>1, <1>2, <1>3, <1>4, <1>5, <1>6, <1>7, <1>8, <1>9, <1>11
     DEF Next, Probing, Selecting

LEMMA UpToSizes ==
  ASSUME NEW n \in Nat, NEW S, S \subseteq Relay, NEW Q \in UpTo(n, S)
  PROVE  Cardinality(Q) <= n
<1>1. Cardinality(S) \in Nat
  BY Sizes
<1>2. Cardinality(Q) = Smaller(n, Cardinality(S))
  BY DEF UpTo, kSubset
<1> QED
  BY <1>1, <1>2 DEF Smaller

\* A promotion fills or leaves owed every place it was asked for.
LEMMA PromoteSizes ==
  ASSUME NEW inHand, inHand \subseteq Relay, NEW places \in Nat,
         NEW knew, NEW was, was \subseteq knew, was \subseteq Relay, NEW heard,
         Promote(inHand, places, knew, was, heard)
  PROVE  /\ owed' \in Nat /\ Cardinality(active') \in Nat
         /\ Cardinality(active') + owed' = Cardinality(was) + places
         /\ Cardinality(active') >= Cardinality(was)
         /\ owed' > 0 => spares' = {}
<1>1. PICK P \in Accept(inHand, knew) : \E Q \in UpTo(places, P) :
        /\ active' = was \cup Q
        /\ owed' = places - Cardinality(Q)
        /\ spares' = IF owed' > 0 THEN {} ELSE inHand \ Q
  BY DEF Promote
<1>2. P \subseteq Relay /\ P \cap was = {}
  BY AcceptFacts
<1>3. PICK Q \in UpTo(places, P) :
        /\ active' = was \cup Q
        /\ owed' = places - Cardinality(Q)
        /\ spares' = IF owed' > 0 THEN {} ELSE inHand \ Q
  BY <1>1
<1>4. Q \subseteq Relay /\ was \cap Q = {}
  BY <1>2, UpToFacts
<1>5. Cardinality(was \cup Q) = Cardinality(was) + Cardinality(Q)
  BY <1>4, DisjointSizes
<1>6. Cardinality(active') = Cardinality(was) + Cardinality(Q)
  BY <1>3, <1>5, Zenon
<1>7. Cardinality(Q) <= places /\ Cardinality(Q) \in Nat /\ Cardinality(was) \in Nat
  BY <1>2, <1>4, UpToSizes, Sizes
<1> QED
  BY <1>3, <1>6, <1>7

LEMMA PlacesStart == Init => Places /\ PlacesAccounted
BY DEF Init, Places, PlacesAccounted

LEMMA PlacesStep ==
  SInv /\ CInv /\ Filling /\ Places /\ PlacesAccounted /\ [Next]_vars
    => Places' /\ PlacesAccounted'
<1> SUFFICES ASSUME SInv, CInv, Filling, Places, PlacesAccounted, [Next]_vars
             PROVE  Places' /\ PlacesAccounted'
  OBVIOUS
<1> DEFINE Goal == Places' /\ PlacesAccounted'
<1> USE DEF Places, PlacesAccounted
<1>0. /\ known \subseteq Relay /\ active \subseteq Relay /\ spares \subseteq Relay
      /\ reserve \subseteq Relay /\ control \subseteq Relay /\ replacements \subseteq Relay
      /\ active \subseteq known
  BY DEF SInv, SetsOK, CInv, Opened, Known
<1>01. /\ Cardinality(active) \in Nat /\ Cardinality(control) \in Nat
       /\ Cardinality(replacements) \in Nat
  BY <1>0, Sizes
<1>1. CASE Probing
  BY <1>1 DEF Probing, Probe, ProbePasses, ProbeFails, SweepProbe, offerVars, channelVars
<1>2. CASE Selecting
  <2>1. UNCHANGED channelVars
    BY <1>2 DEF Selecting, SeedsSuffice, Backfill, Defer, BackfillEnds, BackfillFails,
       PrepareRing, RingFills, RingFails, SweepBegins
  <2>2. chan # "unopened" => control' = control
    BY <1>2 DEF Selecting, SeedsSuffice, Backfill, Defer, BackfillEnds, BackfillFails,
       PrepareRing, RingFills, RingFails, SweepBegins, CheckEnds, offerVars, SInv, Stages,
       CInv, Opened
  <2> QED
    BY <2>1, <2>2 DEF channelVars
<1>3. CASE OpenChannel
  BY <1>3, <1>0, <1>01 DEF OpenChannel, selectionVars, CInv, Known, Filling
<1>4. CASE BuildAvail \/ Finish \/ Close
  BY <1>4 DEF BuildAvail, Finish, Close, selectionVars, setVars
<1>5. CASE ReplacementsArrive
  <2>1. PICK added \in Accept(replacements, known) :
          LET missing == Count - Cardinality(control) - Cardinality(added) IN
          Promote(spares, owed + (IF missing > 0 THEN missing ELSE 0),
                  known \cup added, active \cup added, subscribed \cup added)
    BY <1>5 DEF ReplacementsArrive
  <2>2. /\ added \subseteq Relay /\ added \subseteq replacements /\ active \cap added = {}
    BY <1>0, AcceptFacts
  <2>3. /\ Cardinality(added) \in Nat /\ Cardinality(added) <= Cardinality(replacements)
    BY <1>0, <2>2, Sizes, FS_Subset
  <2>4. Cardinality(active \cup added) = Cardinality(active) + Cardinality(added)
    BY <1>0, <2>2, DisjointSizes
  <2> DEFINE missing == Count - Cardinality(control) - Cardinality(added)
  <2>5. missing \in Nat
    BY <1>01, <2>3 DEF Filling
  <2>6. Promote(spares, owed + missing, known \cup added, active \cup added,
                subscribed \cup added)
    BY <2>1, <2>5
  <2>7. owed + missing \in Nat /\ active \cup added \subseteq known \cup added
        /\ active \cup added \subseteq Relay
    BY <1>0, <2>2, <2>5
  <2>8. /\ owed' \in Nat /\ Cardinality(active') \in Nat
        /\ Cardinality(active') + owed' = Cardinality(active \cup added) + (owed + missing)
        /\ Cardinality(active') >= Cardinality(active \cup added)
        /\ owed' > 0 => spares' = {}
    BY <1>0, <2>6, <2>7, PromoteSizes
  <2>9. /\ "replacements" \notin arrived /\ "replacements" \in arrived'
        /\ chan # "unopened" /\ chan' = chan
    BY <1>5 DEF ReplacementsArrive
  <2>10. Cardinality(active') + owed' = Count
    BY <1>01, <2>3, <2>4, <2>8, <2>9
  <2> QED
    BY <1>01, <2>3, <2>4, <2>8, <2>9, <2>10
<1>6. CASE ReserveArrives
  <2>1. Promote(spares \cup reserve, owed, known, active, subscribed)
    BY <1>6 DEF ReserveArrives
  <2>2. /\ owed' \in Nat /\ Cardinality(active') \in Nat
        /\ Cardinality(active') + owed' = Cardinality(active) + owed
        /\ Cardinality(active') >= Cardinality(active)
        /\ owed' > 0 => spares' = {}
    BY <1>0, <2>1, PromoteSizes
  <2>3. /\ chan # "unopened" /\ chan' = chan /\ control' = control
        /\ "replacements" \in arrived' <=> "replacements" \in arrived
    BY <1>6 DEF ReserveArrives, selectionVars
  <2> QED
    BY <1>01, <2>2, <2>3
<1>7. ASSUME NEW m \in DOMAIN sends, Publish(m) \/ \E r \in Relay : PublishAccepted(m, r)
      PROVE  Goal
  BY <1>7 DEF Publish, PublishAccepted, selectionVars, setVars
<1>8. ASSUME NEW m \in DOMAIN sends, NEW r \in Relay, PublishGaveUp(m, r) PROVE Goal
  <2>1. /\ chan # "unopened" /\ chan' # "unopened" /\ control' = control
        /\ arrived' = arrived
    BY <1>8 DEF PublishGaveUp, selectionVars, Listening
  <2>2. CASE Condemned(r)
    <3>1. Cardinality(active) > MinControl /\ r \in active
      BY <2>2 DEF Condemned, AboveFloor
    <3>2. Cardinality(active \ {r}) = Cardinality(active) - 1
      BY <1>0, <3>1, Sizes
    <3>3. Promote(spares, owed + 1, known, active \ {r}, subscribed)
      BY <1>8, <2>2 DEF PublishGaveUp, Owing
    <3>4. owed + 1 \in Nat /\ active \ {r} \subseteq known /\ active \ {r} \subseteq Relay
      BY <1>0
    <3>5. /\ owed' \in Nat /\ Cardinality(active') \in Nat
          /\ Cardinality(active') + owed' = Cardinality(active \ {r}) + (owed + 1)
          /\ Cardinality(active') >= Cardinality(active \ {r})
          /\ owed' > 0 => spares' = {}
      BY <1>0, <3>3, <3>4, PromoteSizes
    <3> QED
      BY <1>01, <2>1, <3>1, <3>2, <3>5
  <2>3. CASE ~Condemned(r)
    BY <1>8, <2>1, <2>3 DEF PublishGaveUp
  <2> QED
    BY <2>2, <2>3
<1>9. CASE Receiving
  BY <1>9 DEF Receiving, ReceiverHears, ReceiverDemotes, selectionVars, setVars
<1>10. CASE UNCHANGED vars
  BY <1>10 DEF vars, selectionVars, channelVars
<1> QED
  BY <1>1, <1>2, <1>3, <1>4, <1>5, <1>6, <1>7, <1>8, <1>9, <1>10 DEF Next, Sending

-----------------------------------------------------------------------------
(* Sends *)

Send == [ctl : SUBSET Relay, to : SUBSET Relay, flying : SUBSET Relay,
         state : {"built", "waiting", "ok", "refused"}]
Sends == sends \in Seq(Send)

LEMMA SendsStart == Init => Sends /\ SendsAnswered
BY DEF Init, Sends, SendsAnswered

\* What publishing and the answers make of one send, a field at a time.
Sent(ctl, to, fly, state) == [ctl |-> ctl, to |-> to, flying |-> fly, state |-> state]

LEMMA SendIsSent ==
  ASSUME NEW s \in Send
  PROVE  s = Sent(s.ctl, s.to, s.flying, s.state)
BY DEF Send, Sent

LEMMA ToFact ==
  ASSUME NEW c, NEW t, NEW g, NEW b, NEW x
  PROVE  [Sent(c, t, g, b) EXCEPT !.to = x] = Sent(c, x, g, b)
BY DEF Sent
LEMMA FlyingFact ==
  ASSUME NEW c, NEW t, NEW g, NEW b, NEW x
  PROVE  [Sent(c, t, g, b) EXCEPT !.flying = x] = Sent(c, t, x, b)
BY DEF Sent
LEMMA StateFact ==
  ASSUME NEW c, NEW t, NEW g, NEW b, NEW x
  PROVE  [Sent(c, t, g, b) EXCEPT !.state = x] = Sent(c, t, g, x)
BY DEF Sent

LEMMA AnsweredFacts ==
  ASSUME NEW s \in Send, NEW f, NEW a
  PROVE  [s EXCEPT !.flying = f, !.state = a] = Sent(s.ctl, s.to, f, a)
<1> DEFINE t == [s EXCEPT !.flying = f]
<1>1. t = Sent(s.ctl, s.to, f, s.state)
  BY SendIsSent, FlyingFact
<1>2. [s EXCEPT !.flying = f, !.state = a] = [t EXCEPT !.state = a]
  OBVIOUS
<1> HIDE DEF t
<1> QED
  BY <1>1, <1>2, StateFact

LEMMA PublishedFacts ==
  ASSUME NEW s \in Send, NEW S
  PROVE  [s EXCEPT !.to = S, !.flying = S, !.state = "waiting"]
           = Sent(s.ctl, S, S, "waiting")
<1> DEFINE t == [s EXCEPT !.to = S]
<1> DEFINE u == [t EXCEPT !.flying = S]
<1>1. t = Sent(s.ctl, S, s.flying, s.state)
  BY SendIsSent, ToFact
<1>2. [s EXCEPT !.to = S, !.flying = S, !.state = "waiting"] = [u EXCEPT !.state = "waiting"]
  OBVIOUS
<1> HIDE DEF t
<1>3. u = Sent(s.ctl, S, S, s.state)
  BY <1>1, FlyingFact
<1> HIDE DEF u
<1> QED
  BY <1>2, <1>3, StateFact

LEMMA SendsStep ==
  SInv /\ CInv /\ PlacesAccounted /\ Sends /\ SendsAnswered /\ [Next]_vars
    => Sends' /\ SendsAnswered'
<1> SUFFICES ASSUME SInv, CInv, PlacesAccounted, Sends, SendsAnswered, [Next]_vars
             PROVE  Sends' /\ SendsAnswered'
  OBVIOUS
<1> DEFINE Goal == Sends' /\ SendsAnswered'
<1>0. /\ known \subseteq Relay /\ active \subseteq Relay
  BY DEF SInv, SetsOK, CInv, Opened, Known
<1>1. CASE UNCHANGED sends
  BY <1>1 DEF Sends, SendsAnswered
<1>2. CASE Probing \/ Selecting \/ Receiving \/ UNCHANGED vars
  BY <1>1, <1>2 DEF Probing, Probe, ProbePasses, ProbeFails, SweepProbe, Selecting,
     SeedsSuffice, Backfill, Defer, BackfillEnds, BackfillFails, PrepareRing, RingFills,
     RingFails, SweepBegins, Receiving, ReceiverHears, ReceiverDemotes, channelVars, vars
<1>3. CASE OpenChannel \/ ReplacementsArrive \/ ReserveArrives \/ Finish \/ Close
  BY <1>1, <1>3 DEF OpenChannel, ReplacementsArrive, ReserveArrives, Finish, Close
<1>4. CASE BuildAvail
  <2> DEFINE s == [ctl |-> Announced, to |-> {}, flying |-> {}, state |-> "built"]
  <2>1. s \in Send /\ s.state = "built"
    BY <1>0 DEF Send, Announced
  <2>2. sends' = Append(sends, s)
    BY <1>4 DEF BuildAvail
  <2> HIDE DEF s
  <2> QED
    BY <2>1, <2>2 DEF Sends, SendsAnswered
\* One send changes, into one that is answered as it should be.
<1>5. ASSUME NEW m \in DOMAIN sends, NEW s \in Send, sends' = [sends EXCEPT ![m] = s],
             s.state = "refused" => s.flying = {}, s.state = "waiting" => s.flying # {}
      PROVE  Goal
  BY <1>5 DEF Sends, SendsAnswered
<1>6. ASSUME NEW m \in DOMAIN sends, Publish(m) PROVE Goal
  <2>1. Cardinality(active) >= MinControl /\ IsFiniteSet(active)
    BY <1>0, <1>6, Sizes DEF Publish, Listening, PlacesAccounted
  <2>2. active # {}
    BY <2>1, FS_EmptySet
  <2>3. sends[m] \in Send
    BY DEF Sends
  <2> DEFINE s == Sent(sends[m].ctl, active, active, "waiting")
  <2>4. s \in Send
    BY <1>0, <2>3 DEF Send, Sent
  <2>5. sends' = [sends EXCEPT ![m] = [sends[m] EXCEPT !.to = active, !.flying = active,
                                                       !.state = "waiting"]]
    BY <1>6 DEF Publish
  <2>6. sends' = [sends EXCEPT ![m] = s]
    BY <2>3, <2>5, PublishedFacts
  <2>7. s.state = "waiting" /\ s.flying = active
    BY DEF Sent
  <2> HIDE DEF s
  <2> QED
    BY <1>5, <2>2, <2>4, <2>6, <2>7
<1>7. ASSUME NEW m \in DOMAIN sends, NEW r \in Relay,
             PublishAccepted(m, r) \/ PublishGaveUp(m, r)
      PROVE  Goal
  <2>1. sends[m] \in Send /\ r \in sends[m].flying
    BY <1>7 DEF Sends, PublishAccepted, PublishGaveUp
  <2>2. PICK a \in {"built", "waiting", "ok", "refused"} :
          /\ sends' = [sends EXCEPT ![m] = [sends[m] EXCEPT !.flying = sends[m].flying \ {r},
                                                            !.state = a]]
          /\ a = "refused" => sends[m].flying = {r}
          /\ a = "waiting" => sends[m].flying # {r}
    <3>1. CASE PublishAccepted(m, r)
      BY <3>1 DEF PublishAccepted
    <3>2. CASE PublishGaveUp(m, r) /\ LastToGiveUp(m, r)
      BY <3>2 DEF PublishGaveUp, LastToGiveUp
    <3>3. CASE PublishGaveUp(m, r) /\ ~LastToGiveUp(m, r)
      <4>1. sends[m].state \in {"built", "waiting", "ok", "refused"}
        BY <2>1 DEF Send
      <4>2. sends[m].state # "refused"
        BY <2>1 DEF SendsAnswered
      <4> QED
        BY <3>3, <4>1, <4>2 DEF PublishGaveUp, LastToGiveUp
    <3> QED
      BY <1>7, <3>1, <3>2, <3>3
  <2> DEFINE s == Sent(sends[m].ctl, sends[m].to, sends[m].flying \ {r}, a)
  <2>3. s \in Send
    BY <2>1 DEF Send, Sent
  <2>4. [sends[m] EXCEPT !.flying = sends[m].flying \ {r}, !.state = a] = s
    BY <2>1, AnsweredFacts
  <2>5. sends' = [sends EXCEPT ![m] = s]
    BY <2>2, <2>4, Zenon
  <2>6. s.state = a /\ s.flying = sends[m].flying \ {r}
    BY DEF Sent
  <2>7. (a = "refused" => s.flying = {}) /\ (a = "waiting" => s.flying # {})
    BY <2>1, <2>2, <2>6
  <2> HIDE DEF s
  <2> QED
    BY <1>5, <2>3, <2>5, <2>6, <2>7
<1> QED
  BY <1>2, <1>3, <1>4, <1>6, <1>7 DEF Next, Sending

-----------------------------------------------------------------------------
(* The theorems *)

IInv == SInv /\ CInv /\ Filling /\ Places /\ PlacesAccounted /\ Sends /\ SendsAnswered

LEMMA Invariance == Spec => []IInv
<1>1. Init => IInv
  BY SelectionStart, ChannelStart, FillingStart, PlacesStart, SendsStart DEF IInv
<1>2. IInv /\ [Next]_vars => IInv'
  BY SelectionStep, ChannelStep, FillingStep, PlacesStep, SendsStep DEF IInv
<1> QED
  BY <1>1, <1>2, PTL DEF Spec

\* No probe, sweep, discovery or selection closes a relay that carries the channel.
THEOREM SubscriptionsCorrect == Spec => []SubscriptionsStand
<1>1. IInv => SubscriptionsStand
  BY DEF IInv, CInv, Known, SubscriptionsStand
<1> QED
  BY <1>1, Invariance, PTL

\* The sender listens wherever the receiver publishes.
THEOREM PeerIsHeardCorrect == Spec => []PeerIsHeard
<1>1. IInv => PeerIsHeard
  BY DEF IInv, CInv, Known, PeerIsHeard
<1> QED
  BY <1>1, Invariance, PTL

\* Every place of the control set is filled or owed, and the floor holds.
THEOREM PlacesCorrect == Spec => []PlacesAccounted
<1>1. IInv => PlacesAccounted
  BY DEF IInv
<1> QED
  BY <1>1, Invariance, PTL

\* A send nobody took is refused with the last relay that gives up.
THEOREM SendsCorrect == Spec => []SendsAnswered
<1>1. IInv => SendsAnswered
  BY DEF IInv
<1> QED
  BY <1>1, Invariance, PTL

-----------------------------------------------------------------------------
(* Why there are no spares.  A probe passes too late only while others fly, so a  *)
(* check leaves fewer than Concurrency relays proven and not taken; the ring has   *)
(* room for all of them, and takes no more than fill it.                          *)

CodeCounts == Concurrency <= RingCount

NoSpares == reserve = {} /\ spares = {}

FewLate ==
  /\ probing = "backfill" =>
       /\ Unfilled => late = {} /\ Cardinality(flying) <= Concurrency
       /\ ~Unfilled => Cardinality(late) + Cardinality(flying) < Concurrency
  /\ Cardinality(leftover.proven) < Concurrency
  /\ probing = "ring" =>
       /\ target = RingCount - Cardinality(leftover.proven)
       /\ Cardinality(healthy) <= target
  /\ reserve = {}

LEMMA FewLateStart == Init => FewLate
BY FS_EmptySet DEF Init, FewLate, NoLeftover

\* A probe that passes while the check is unfilled is one more taken.
LEMMA Taken ==
  ASSUME SInv, NEW r \in Relay, ProbePasses(r), Unfilled
  PROVE  Cardinality(healthy') = Cardinality(healthy) + 1
<1>1. r \notin healthy /\ healthy \subseteq Relay /\ healthy' = healthy \cup {r}
  BY DEF ProbePasses, SInv, SetsOK, Apart
<1>2. Cardinality(healthy \cup {r}) = Cardinality(healthy) + 1
  BY <1>1, Sizes
<1> QED
  BY <1>1, <1>2, Zenon

LEMMA ChecksTypes ==
  ASSUME SInv
  PROVE  /\ Cardinality(todo) \in Nat /\ Cardinality(flying) \in Nat
         /\ Cardinality(healthy) \in Nat /\ Cardinality(late) \in Nat
         /\ Cardinality(leftover.proven) \in Nat /\ Cardinality(control) \in Nat
         /\ Cardinality({}) = 0
BY Sizes, FS_EmptySet DEF SInv, SetsOK

LEMMA FlyingShrinks ==
  ASSUME SInv, NEW r, r \in flying, flying' = flying \ {r}
  PROVE  Cardinality(flying') = Cardinality(flying) - 1
<1>1. Cardinality(flying \ {r}) = Cardinality(flying) - 1
  BY Sizes DEF SInv, SetsOK
<1> QED
  BY <1>1, Zenon

LEMMA FewLateProbes ==
  ASSUME CodeCounts, SInv, Filling, FewLate, NEW r \in Relay,
         Probe(r) \/ ProbePasses(r) \/ ProbeFails(r) \/ SweepProbe(r)
  PROVE  FewLate'
<1> USE DEF FewLate
<1>0. CASE SweepProbe(r)
  BY <1>0 DEF SweepProbe, checkVars, offerVars, Unfilled
<1>1. CASE Probe(r)
  <2>1. r \notin flying /\ flying \subseteq Relay
    BY <1>1 DEF Probe, SInv, SetsOK, Apart
  <2>2. Cardinality(flying \cup {r}) = Cardinality(flying) + 1
    BY <2>1, Sizes
  <2>3. flying' = flying \cup {r}
    BY <1>1 DEF Probe
  <2>4. Cardinality(flying') = Cardinality(flying) + 1
    BY <2>2, <2>3, Zenon
  <2> QED
    BY <1>1, <2>4, ChecksTypes DEF Probe, Unfilled, offerVars, ringVars
<1>2. CASE ProbeFails(r)
  <2>1. Cardinality(flying') = Cardinality(flying) - 1
    BY <1>2, FlyingShrinks DEF ProbeFails
  <2> QED
    BY <1>2, <2>1, ChecksTypes DEF ProbeFails, Unfilled, offerVars, ringVars
<1>3. CASE ProbePasses(r) /\ Unfilled
  <2>1. Cardinality(flying') = Cardinality(flying) - 1
    BY <1>3, FlyingShrinks DEF ProbePasses
  <2>2. Cardinality(healthy') = Cardinality(healthy) + 1
    BY <1>3, Taken
  <2>3. /\ probing' = probing /\ late' = late /\ target' = target
        /\ leftover' = leftover /\ reserve' = reserve
    BY <1>3 DEF ProbePasses, offerVars, ringVars
  <2>4. probing = "backfill" => Cardinality(late) = 0
    BY <1>3, ChecksTypes, Zenon
  <2>5. Cardinality(healthy) < target
    BY <1>3 DEF Unfilled
  <2>6. CASE probing = "backfill"
    <3>1. target \in Int
      BY <2>6, ChecksTypes DEF Filling
    <3> QED
      BY <1>3, <2>1, <2>2, <2>3, <2>4, <2>5, <2>6, <3>1, ChecksTypes DEF Unfilled
  <2>7. CASE probing = "ring"
    BY <2>2, <2>3, <2>5, <2>7, ChecksTypes
  <2> QED
    BY <2>3, <2>6, <2>7
<1>4. CASE ProbePasses(r) /\ ~Unfilled
  <2>1. Cardinality(flying') = Cardinality(flying) - 1
    BY <1>4, FlyingShrinks DEF ProbePasses
  <2>2. r \notin late /\ late \subseteq Relay /\ late' = late \cup {r}
    BY <1>4 DEF ProbePasses, SInv, SetsOK, Apart
  <2>3. Cardinality(late \cup {r}) = Cardinality(late) + 1
    BY <2>2, Sizes
  <2>4. Cardinality(late') = Cardinality(late) + 1
    BY <2>2, <2>3, Zenon
  <2>5. /\ probing' = probing /\ healthy' = healthy /\ target' = target
        /\ leftover' = leftover /\ reserve' = reserve
    BY <1>4 DEF ProbePasses, offerVars, ringVars
  <2> QED
    BY <1>4, <2>1, <2>4, <2>5, ChecksTypes DEF Unfilled
<1> QED
  BY <1>0, <1>1, <1>2, <1>3, <1>4

\* What the ring is chosen from is no more than it has room for.
LEMMA RingTakesAll ==
  ASSUME CodeCounts, SInv, FewLate, RingFills
  PROVE  reserve' = {}
<1> DEFINE usable == leftover.proven \cup healthy
<1>1. probing = "ring"
  BY DEF RingFills, CheckEnds
<1>2. usable \subseteq Relay /\ leftover.proven \subseteq Relay /\ healthy \subseteq Relay
  BY DEF SInv, SetsOK
<1>3. Cardinality(leftover.proven) + Cardinality(healthy) <= RingCount
  BY <1>1, ChecksTypes DEF FewLate
<1>4. Cardinality(usable) <= Cardinality(leftover.proven) + Cardinality(healthy)
  <2>1. IsFiniteSet(leftover.proven) /\ IsFiniteSet(healthy)
    BY <1>2, Sizes
  <2>2. Cardinality(usable) = Cardinality(leftover.proven) + Cardinality(healthy)
                                - Cardinality(leftover.proven \cap healthy)
    BY <2>1, FS_Union
  <2>3. Cardinality(leftover.proven \cap healthy) \in Nat
    BY <1>2, Sizes
  <2> QED
    BY <2>2, <2>3, ChecksTypes
<1>5. PICK chosen \in UpTo(RingCount, usable) :
        reserve' \in UpTo(ReserveCount, usable \ chosen)
  BY DEF RingFills
<1> HIDE DEF usable
<1>6. IsFiniteSet(usable) /\ Cardinality(usable) \in Nat
  BY <1>2, Sizes
<1>7. Cardinality(chosen) = Smaller(RingCount, Cardinality(usable)) /\ chosen \subseteq usable
  BY <1>5 DEF UpTo, kSubset
<1>8. Smaller(RingCount, Cardinality(usable)) = Cardinality(usable)
  BY <1>3, <1>4, <1>6, ChecksTypes DEF Smaller
<1>9. chosen = usable
  BY <1>6, <1>7, <1>8, FS_Subset
<1> QED
  BY <1>5, <1>9, UpToFacts

LEMMA FewLateStep == CodeCounts /\ SInv /\ Filling /\ FewLate /\ [Next]_vars => FewLate'
<1> SUFFICES ASSUME CodeCounts, SInv, Filling, FewLate, [Next]_vars PROVE FewLate'
  OBVIOUS
<1> USE DEF FewLate
<1>1. CASE Probing
  BY <1>1, FewLateProbes DEF Probing
<1>2. CASE SeedsSuffice
  BY <1>2 DEF SeedsSuffice, BeginCheck, ringVars
<1>3. CASE Backfill
  <2>1. /\ healthy' = {} /\ flying' = {} /\ late' = {} /\ probing' = "backfill"
        /\ target' = Count - Cardinality(healthy) /\ Cardinality(healthy) < Count
        /\ leftover' = leftover /\ reserve' = reserve
    BY <1>3 DEF Backfill, BeginCheck, ringVars
  <2>2. Cardinality(healthy') = 0 /\ Cardinality(flying') = 0
    BY <2>1, FS_EmptySet, Zenon
  <2>3. Unfilled'
    BY <2>1, <2>2, ChecksTypes DEF Unfilled
  <2> QED
    BY <2>1, <2>2, <2>3
<1>4. CASE Defer
  BY <1>4 DEF Defer, checkVars, ringVars, Unfilled
<1>5. CASE BackfillEnds
  <2>1. /\ probing = "backfill" /\ flying = {} /\ leftover'.proven = late
        /\ probing' = "none" /\ reserve' = reserve
    BY <1>5 DEF BackfillEnds, CheckEnds, BeginCheck, Proven, ringVars
  <2>2. Cardinality(flying) = 0
    BY <2>1, FS_EmptySet, Zenon
  <2>3. Unfilled => Cardinality(late) = 0
    BY <2>1, FS_EmptySet, Zenon
  <2>4. Cardinality(late) < Concurrency
    BY <2>1, <2>2, <2>3, ChecksTypes
  <2>5. Cardinality(leftover'.proven) < Concurrency
    BY <2>1, <2>4, Zenon
  <2> QED
    BY <2>1, <2>5
<1>6. CASE BackfillFails
  BY <1>6 DEF BackfillFails, BeginCheck, ringVars
<1>7. CASE PrepareRing
  <2>1. /\ healthy' = {} /\ probing' = "ring" /\ leftover' = leftover /\ reserve' = reserve
    BY <1>7 DEF PrepareRing, BeginCheck, offerVars, ringVars
  <2>2. ~leftover.found => Cardinality(leftover.proven) = 0
    <3>1. ~leftover.found => leftover.proven = {}
      BY DEF SInv, Stages
    <3> QED
      BY <3>1, FS_EmptySet, Zenon
  <2>3. target' = RingCount - Cardinality(leftover.proven)
    BY <1>7, <2>2 DEF PrepareRing, BeginCheck
  <2>4. Cardinality(healthy') = 0
    BY <2>1, FS_EmptySet, Zenon
  <2> QED
    BY <2>1, <2>3, <2>4, ChecksTypes DEF CodeCounts
<1>8. CASE RingFills
  BY <1>8, RingTakesAll DEF RingFills, BeginCheck, offerVars
<1>9. CASE RingFails
  BY <1>9 DEF RingFails, BeginCheck, offerVars
<1>10. CASE SweepBegins
  BY <1>10 DEF SweepBegins, checkVars, offerVars, Unfilled
<1>11. CASE UNCHANGED selectionVars
  BY <1>11 DEF selectionVars, Unfilled
<1>12. CASE Sending \/ Receiving \/ UNCHANGED vars
  BY <1>11, <1>12 DEF Sending, Receiving, vars, OpenChannel, BuildAvail, Publish,
     PublishAccepted, PublishGaveUp, ReplacementsArrive, ReserveArrives, Finish, Close,
     ReceiverHears, ReceiverDemotes
<1> QED
  BY <1>1, <1>2, <1>3, <1>4, <1>5, <1>6, <1>7, <1>8, <1>9, <1>10, <1>12 DEF Next, Selecting

\* With the code's counts, where no more relays are probed at once than the ring
\* takes, no relay is ever kept as a spare, so no demoted one is replaced by one.
THEOREM NoSparesCorrect == ASSUME CodeCounts PROVE Spec => []NoSpares
<1>1. Init => FewLate
  BY FewLateStart
<1>2. IInv /\ FewLate /\ [Next]_vars => FewLate'
  BY FewLateStep DEF IInv
<1>3. IInv /\ FewLate => NoSpares
  BY DEF IInv, CInv, Known, FewLate, NoSpares
<1> QED
  BY <1>1, <1>2, <1>3, Invariance, PTL DEF Spec
=============================================================================
