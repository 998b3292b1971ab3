-------------------------- MODULE PinRendezvousProofs --------------------------
(* Theorems about PinRendezvous, for every number of receivers, PINs and buckets  *)
(* and every budget.                                                             *)
EXTENDS PinRendezvous, TLAPS, FiniteSetTheorems

USE PinRendezvousAssumption

-----------------------------------------------------------------------------
(* Types *)

\* A locked transfer is locked to a claim, which is what its confirm answers.
LockedToAClaim == settled = "locked" => lockedTo \in Claim
TypeInv == TypeOK /\ LockedToAClaim

LEMMA InitType == Init => TypeInv
<1>1. SUFFICES ASSUME Init PROVE TypeInv
  OBVIOUS
<1>2. PinsTypeOK
  BY <1>1 DEF Init, PinsTypeOK, Pin, Bucket
<1>3. WaitTypeOK
  <2>1. cancelled \in BOOLEAN
    BY <1>1, Zenon DEF Init
  <2>2. QED
    BY <1>1, <2>1 DEF Init, WaitTypeOK, Bucket
<1>4. PeersTypeOK
  BY <1>1 DEF Init, PeersTypeOK, Bucket
<1>5. QED
  BY <1>1, <1>2, <1>3, <1>4 DEF TypeOK, TypeInv, LockedToAClaim, Init

\* Minting keeps the types of what it changes.
LEMMA MintType ==
  ASSUME PinsTypeOK, NEW by \in {"first", "rotation", "refresh"}, NEW e \in Nat,
         Mint(by, e)
  PROVE  /\ minted' \in Pin
         /\ mintedIn' \in [Pin -> Bucket] /\ mintedEpoch' \in [Pin -> Nat]
         /\ task' \in [Pin -> {"none", "deriving", "publishing"}]
         /\ cause' \in [Pin -> {"first", "rotation", "refresh"}]
<1>1. minted' = minted + 1 /\ minted' \in Pin
  BY DEF Mint, PinsTypeOK, Pin
<1>2. mintedIn' \in [Pin -> Bucket] /\ mintedEpoch' \in [Pin -> Nat]
  BY DEF Mint, PinsTypeOK
<1>3. /\ task' \in [Pin -> {"none", "deriving", "publishing"}]
      /\ cause' \in [Pin -> {"first", "rotation", "refresh"}]
  BY DEF Mint, PinsTypeOK
<1>4. QED
  BY <1>1, <1>2, <1>3

\* Publishing PINs keeps the types.
LEMMA PublishingType == TypeOK /\ Publishing => TypeOK'
<1> SUFFICES ASSUME TypeOK, Publishing PROVE TypeOK'
  OBVIOUS
<1> USE DEF TypeOK
<1>1. CASE Rotate
  <2>1. PinsTypeOK'
    <3>1. Mint("rotation", epoch) /\ epoch \in Nat
      BY <1>1 DEF Rotate, WaitTypeOK
    <3>2. UNCHANGED <<clock, live, runs, budget>>
      BY <1>1 DEF Rotate, runVars
    <3>3. QED
      BY <3>1, <3>2, MintType DEF PinsTypeOK
  <2>2. WaitTypeOK'
    BY <1>1 DEF Rotate, PinsTypeOK, WaitTypeOK, claimVars, outcomeVars
  <2>3. PeersTypeOK'
    BY <1>1 DEF Rotate, PeersTypeOK, relayVars, receiverVars
  <2>4. QED
    BY <2>1, <2>2, <2>3
<1>2. CASE Refresh
  <2>1. PinsTypeOK'
    <3>1. Mint("refresh", epoch + 1) /\ epoch + 1 \in Nat
      BY <1>2 DEF Refresh, WaitTypeOK
    <3>2. UNCHANGED <<clock, live, runs, budget>>
      BY <1>2 DEF Refresh, runVars
    <3>3. QED
      BY <3>1, <3>2, MintType DEF PinsTypeOK
  <2>2. WaitTypeOK'
    BY <1>2 DEF Refresh, PinsTypeOK, WaitTypeOK, claimVars, outcomeVars
  <2>3. PeersTypeOK'
    BY <1>2 DEF Refresh, PeersTypeOK, relayVars, receiverVars
  <2>4. QED
    BY <2>1, <2>2, <2>3
<1>3. CASE \E p \in Pin : Register(p)
  <2>1. PICK p \in Pin : Register(p)
    BY <1>3
  <2>2. PinsTypeOK'
    BY <2>1 DEF Register, PinsTypeOK, pinVars, runVars
  <2>3. WaitTypeOK'
    BY <2>1 DEF Register, WaitTypeOK, claimVars, outcomeVars
  <2>4. PeersTypeOK'
    BY <2>1 DEF Register, Announce, PinsTypeOK, PeersTypeOK, Run, receiverVars
  <2>5. QED
    BY <2>2, <2>3, <2>4
<1>4. CASE \E p \in Pin : Published(p)
  <2>1. PICK p \in Pin : Published(p)
    BY <1>4
  <2>2. PinsTypeOK'
    BY <2>1 DEF Published, PinsTypeOK, pinVars, runVars
  <2>3. WaitTypeOK'
    BY <2>1 DEF Published, WaitTypeOK, claimVars, outcomeVars, Pin
  <2>4. PeersTypeOK'
    BY <2>1 DEF Published, PeersTypeOK, relayVars, receiverVars
  <2>5. QED
    BY <2>2, <2>3, <2>4
<1>5. CASE \E p \in Pin : PublishRefused(p)
  <2>1. PICK p \in Pin : PublishRefused(p)
    BY <1>5
  <2>2. PinsTypeOK'
    BY <2>1 DEF PublishRefused, PinsTypeOK, pinVars, runVars
  <2>3. WaitTypeOK'
    BY <2>1 DEF PublishRefused, GiveUp, EpochAfterSettling, WaitTypeOK, claimVars,
                outcomeVars
  <2>4. PeersTypeOK'
    BY <2>1 DEF PublishRefused, PeersTypeOK, relayVars, receiverVars
  <2>5. QED
    BY <2>2, <2>3, <2>4
<1>6. QED
  BY <1>1, <1>2, <1>3, <1>4, <1>5 DEF Publishing

\* So does verifying claims.
LEMMA VerifyingType == TypeOK /\ Verifying => TypeOK'
<1> SUFFICES ASSUME TypeOK, Verifying PROVE TypeOK'
  OBVIOUS
<1> USE DEF TypeOK
<1>1. CASE \E c \in claims : ClaimArrives(c)
  <2>1. PICK c \in claims : ClaimArrives(c)
    BY <1>1
  <2>2. c \in Claim /\ c.run[1] \in Pin
    BY DEF PeersTypeOK, Claim, Run
  <2>3. PinsTypeOK'
    BY <2>1, <2>2 DEF ClaimArrives, Claimable, Spend, PinsTypeOK, pinVars
  <2>4. WaitTypeOK'
    BY <2>1, <2>2 DEF ClaimArrives, WaitTypeOK, outcomeVars
  <2>5. PeersTypeOK'
    BY <2>1 DEF ClaimArrives, PeersTypeOK, relayVars, receiverVars
  <2>6. QED
    BY <2>3, <2>4, <2>5
<1>2. ASSUME NEW c \in verifying,
             VerifyDropped(c) \/ VerifyRefused(c) \/ Lock(c) \/ VerifyFails(c)
      PROVE  TypeOK'
  <2>1. c \in Claim /\ c.run[1] \in Pin
    BY DEF WaitTypeOK, Claim, Run
  <2>2. PinsTypeOK'
    BY <1>2 DEF VerifyDropped, VerifyRefused, Lock, VerifyFails, PinsTypeOK, pinVars,
                runVars
  <2>3. WaitTypeOK'
    BY <1>2, <2>1 DEF VerifyDropped, VerifyRefused, Lock, VerifyFails, GiveUp,
                      EpochAfterSettling, WaitTypeOK, outcomeVars, claimVars
  <2>4. PeersTypeOK'
    BY <1>2 DEF VerifyDropped, VerifyRefused, Lock, VerifyFails, PeersTypeOK,
                relayVars, receiverVars
  <2>5. QED
    BY <2>2, <2>3, <2>4
<1>3. CASE \E t \in replacing : Replace(t)
  <2>1. PICK t \in replacing : Replace(t)
    BY <1>3
  <2>2. t.pin \in Pin
    BY DEF WaitTypeOK
  <2>3. PinsTypeOK'
    BY <2>1, <2>2 DEF Replace, Claimed, PinsTypeOK, pinVars
  <2>4. WaitTypeOK'
    BY <2>1 DEF Replace, WaitTypeOK, outcomeVars, claimVars
  <2>5. PeersTypeOK'
    BY <2>1, <2>2 DEF Replace, Announce, PinsTypeOK, PeersTypeOK, Run, receiverVars
  <2>6. QED
    BY <2>3, <2>4, <2>5
<1>4. QED
  BY <1>1, <1>2, <1>3 DEF Verifying

\* So do the ends and the clock.
LEMMA EndingType == TypeInv /\ (Ending \/ Tick) => TypeOK'
<1> SUFFICES ASSUME TypeInv, Ending \/ Tick PROVE TypeOK'
  OBVIOUS
<1> USE DEF TypeInv, TypeOK
<1>1. PinsTypeOK'
  BY DEF Ending, Cancel, WaitEnds, Close, Confirm, Tick, PinsTypeOK, Bucket, pinVars,
         runVars
<1>2. WaitTypeOK'
  <2>1. cancelled' \in BOOLEAN
    BY Zenon DEF Ending, Cancel, WaitEnds, Close, Confirm, Tick, WaitTypeOK
  <2>2. QED
    BY <2>1 DEF Ending, Cancel, WaitEnds, Close, Confirm, Tick, GiveUp, EpochAfterSettling,
         RetireAll, WaitTypeOK, claimVars, outcomeVars
<1>3. CASE Confirm
  <2>1. lockedTo \in Claim
    BY <1>3 DEF Confirm, LockedToAClaim
  <2>2. QED
    BY <1>1, <1>2, <1>3, <2>1 DEF Confirm, PeersTypeOK, receiverVars
<1>4. CASE Cancel \/ WaitEnds \/ Close \/ Tick
  BY <1>1, <1>2, <1>4 DEF Cancel, WaitEnds, Close, Tick, PeersTypeOK, relayVars,
                          receiverVars
<1>5. QED
  BY <1>3, <1>4 DEF Ending

\* So do the receivers.
LEMMA ReceivingType == TypeOK /\ Receiving => TypeOK'
<1> SUFFICES ASSUME TypeOK, NEW r \in Receiver,
                    \/ ReadPin(r) \/ Search(r) \/ HearElement(r) \/ ConfirmArrives(r)
                    \/ ReceiverStops(r)
             PROVE  TypeOK'
  BY DEF Receiving
<1> USE DEF TypeOK
<1>1. UNCHANGED senderVars /\ UNCHANGED clock
  BY DEF ReadPin, Search, HearElement, ConfirmArrives, ReceiverStops
<1>2. PinsTypeOK' /\ WaitTypeOK'
  BY <1>1 DEF PinsTypeOK, WaitTypeOK, senderVars, pinVars, runVars, claimVars, outcomeVars
<1>3. \A hint : \A e \in Found(r, hint) : e.run \in Run
  BY DEF Found, PeersTypeOK
<1>4. CASE ReadPin(r)
  BY <1>2, <1>4 DEF ReadPin, PeersTypeOK, WaitTypeOK, relayVars
<1>5. CASE Search(r)
  BY <1>2, <1>3, <1>5 DEF Search, Send, PeersTypeOK, PinsTypeOK, Claim
<1>6. CASE HearElement(r)
  BY <1>2, <1>3, <1>6 DEF HearElement, Send, PeersTypeOK, Claim
<1>7. CASE ConfirmArrives(r)
  BY <1>2, <1>7 DEF ConfirmArrives, PeersTypeOK, Claim, relayVars
<1>8. CASE ReceiverStops(r)
  BY <1>2, <1>8 DEF ReceiverStops, PeersTypeOK, relayVars
<1>9. QED
  BY <1>4, <1>5, <1>6, <1>7, <1>8

\* A transfer is locked by Lock alone.
LEMMA LockedType == TypeInv /\ [Next]_vars => LockedToAClaim'
<1> SUFFICES ASSUME TypeInv, [Next]_vars, settled' = "locked" PROVE lockedTo' \in Claim
  BY DEF LockedToAClaim
<1> USE DEF TypeInv, LockedToAClaim
<1>1. ASSUME NEW c \in verifying, Lock(c) PROVE lockedTo' \in Claim
  BY <1>1 DEF Lock, TypeOK, WaitTypeOK
<1>2. CASE UNCHANGED outcomeVars
  BY <1>2 DEF outcomeVars
<1>3. CASE GiveUp \/ Confirm
  BY <1>3 DEF GiveUp, Confirm, outcomeVars
<1>4. CASE Publishing
  BY <1>2, <1>3, <1>4 DEF Publishing, Rotate, Refresh, Register, Published, PublishRefused
<1>5. CASE Verifying
  BY <1>1, <1>2, <1>3, <1>5 DEF Verifying, ClaimArrives, VerifyDropped, VerifyRefused,
                                VerifyFails, Replace
<1>6. CASE Ending
  BY <1>2, <1>3, <1>6 DEF Ending, Cancel, WaitEnds, Close
<1>7. CASE Receiving
  BY <1>2, <1>7 DEF Receiving, ReadPin, Search, HearElement, ConfirmArrives,
                    ReceiverStops, senderVars
<1>8. CASE Tick \/ Over \/ UNCHANGED vars
  BY <1>2, <1>8 DEF Tick, Over, vars
<1>9. QED
  BY <1>4, <1>5, <1>6, <1>7, <1>8 DEF Next

\* The types of the rendezvous are right in every reachable state.
LEMMA TypesHold == Spec => []TypeInv
<1>1. TypeInv /\ [Next]_vars => TypeInv'
  <2>1. SUFFICES ASSUME TypeInv, [Next]_vars PROVE TypeOK'
    BY LockedType DEF TypeInv
  <2>2. CASE Over \/ UNCHANGED vars
    <3>1. /\ UNCHANGED <<clock, task, retained, replacing, epoch, rotatedIn, shown>>
          /\ UNCHANGED cancelled /\ UNCHANGED pinVars /\ UNCHANGED runVars
          /\ UNCHANGED claimVars /\ UNCHANGED outcomeVars /\ UNCHANGED relayVars
          /\ UNCHANGED receiverVars
      BY <2>2 DEF Over, vars
    <3>2. PinsTypeOK'
      BY <2>1, <3>1 DEF pinVars, runVars, TypeInv, TypeOK, PinsTypeOK
    <3>3. WaitTypeOK'
      BY <2>1, <3>1 DEF claimVars, outcomeVars, TypeInv, TypeOK, WaitTypeOK
    <3>4. PeersTypeOK'
      BY <2>1, <3>1 DEF relayVars, receiverVars, TypeInv, TypeOK, PeersTypeOK
    <3>5. QED
      BY <3>2, <3>3, <3>4 DEF TypeOK
  <2>3. QED
    BY <2>1, <2>2, PublishingType, VerifyingType, EndingType, ReceivingType
       DEF Next, TypeInv
<1>2. QED
  BY <1>1, InitType, PTL DEF Spec

\* Every variable of the rendezvous keeps its type.
THEOREM TypeCorrect == Spec => []TypeOK
<1>1. TypeInv => TypeOK
  BY DEF TypeInv
<1>2. QED
  BY <1>1, TypesHold, PTL

-----------------------------------------------------------------------------
(* Epochs: what was begun under an earlier one is dropped *)

\* A PIN or a replacement belongs to the epoch it was begun in, which settling and
\* refreshing leave behind; and a PIN on its way to the screen is retained, unless
\* it was retired or expired.
EpochOfPin(p) ==
  /\ mintedIn[p] <= clock
  /\ mintedEpoch[p] <= epoch /\ (settled # "open" => mintedEpoch[p] < epoch)
  /\ p > minted => task[p] = "none" /\ p \notin retained
  /\ settled = "open" /\ p \in retained => mintedEpoch[p] = epoch
  /\ task[p] = "publishing" /\ mintedEpoch[p] = epoch
       => p \in retained \/ mintedIn[p] < clock - 1
EpochInv ==
  /\ \A p \in Pin : EpochOfPin(p)
  /\ \A t \in replacing : t.epoch <= epoch /\ (settled # "open" => t.epoch < epoch)

LEMMA InitEpoch == Init => EpochInv
BY DEF Init, EpochInv, EpochOfPin, Pin

\* A new PIN is of the current epoch and was not in use before.
LEMMA MintEpoch ==
  ASSUME TypeOK, EpochInv, settled = "open", settled' = settled,
         replacing' = replacing, clock' = clock, epoch' \in {epoch, epoch + 1},
         retained' = IF epoch' = epoch THEN retained ELSE {},
         NEW by, Mint(by, epoch')
  PROVE  EpochInv'
<1> USE DEF TypeOK, PinsTypeOK, WaitTypeOK
<1>1. minted + 1 \in Pin /\ minted' = minted + 1
  BY DEF Mint, Pin
<1>2. ASSUME NEW p \in Pin PROVE EpochOfPin(p)'
  <2>1. EpochOfPin(p)
    BY DEF EpochInv
  <2>2. CASE p = minted + 1
    BY <1>1, <2>1, <2>2 DEF EpochOfPin, Mint, Bucket, Pin
  <2>3. CASE p # minted + 1
    <3>1. UNCHANGED <<mintedIn[p], mintedEpoch[p], task[p]>>
      BY <2>3, <1>1 DEF Mint
    <3>2. /\ mintedIn[p] \in Int /\ mintedEpoch[p] \in Int /\ clock \in Int /\ minted \in Int
          /\ p \in Int
      BY DEF Bucket, Pin
    <3>3. CASE epoch' = epoch
      BY <1>1, <2>1, <2>3, <3>1, <3>2, <3>3 DEF EpochOfPin
    <3>4. CASE epoch' = epoch + 1 /\ retained' = {}
      BY <1>1, <2>1, <2>3, <3>1, <3>2, <3>4 DEF EpochOfPin
    <3>5. QED
      BY <3>3, <3>4
  <2>4. QED
    BY <2>2, <2>3
<1>3. \A t \in replacing : t.epoch <= epoch'
  BY DEF EpochInv
<1>4. QED
  BY <1>2, <1>3 DEF EpochInv

\* Settling leaves the epoch of everything begun behind.
LEMMA SettlingEpoch ==
  ASSUME TypeOK, EpochInv, UNCHANGED <<clock, minted, mintedIn, mintedEpoch>>,
         retained' \subseteq retained, replacing' \subseteq replacing,
         \A p \in Pin : task'[p] \in {task[p], "none"},
         \/ epoch' = epoch + 1 /\ settled' # "open"
         \/ epoch' = epoch /\ settled' # "open" /\ settled # "open"
         \/ epoch' = epoch /\ settled' = settled /\ retained' = retained
  PROVE  EpochInv'
<1> USE DEF TypeOK, PinsTypeOK, WaitTypeOK
<1>1. ASSUME NEW p \in Pin PROVE EpochOfPin(p)'
  <2>1. EpochOfPin(p) /\ mintedIn[p] \in Int /\ mintedEpoch[p] \in Int /\ clock \in Int
    BY DEF EpochInv, Bucket
  <2>2. task'[p] \in {task[p], "none"}
    OBVIOUS
  <2>3. p \in retained' => p \in retained
    OBVIOUS
  <2>4. CASE epoch' = epoch + 1 /\ settled' # "open"
    BY <2>1, <2>2, <2>3, <2>4 DEF EpochOfPin
  <2>5. CASE epoch' = epoch /\ settled' # "open" /\ settled # "open"
    BY <2>1, <2>2, <2>3, <2>5 DEF EpochOfPin
  <2>6. CASE epoch' = epoch /\ settled' = settled /\ retained' = retained
    BY <2>1, <2>2, <2>6 DEF EpochOfPin
  <2>7. QED
    BY <2>4, <2>5, <2>6
<1>2. QED
  BY <1>1 DEF EpochInv

\* Every step keeps the epochs.
LEMMA NextEpoch == TypeOK /\ EpochInv /\ [Next]_vars => EpochInv'
<1> SUFFICES ASSUME TypeOK, EpochInv, [Next]_vars PROVE EpochInv'
  OBVIOUS
<1> USE DEF TypeOK, PinsTypeOK, WaitTypeOK
<1>1. CASE Rotate
  BY <1>1, MintEpoch DEF Rotate, outcomeVars
<1>2. CASE Refresh
  BY <1>2, MintEpoch DEF Refresh, outcomeVars
<1>3. ASSUME NEW p \in Pin, Register(p) PROVE EpochInv'
  <2>1. UNCHANGED <<clock, minted, mintedIn, mintedEpoch, epoch, settled, replacing>>
    BY <1>3 DEF Register, pinVars, outcomeVars
  <2>2. CASE ~Current(p)
    <3>1. retained' = retained /\ \A q \in Pin : task'[q] \in {task[q], "none"}
      BY <1>3, <2>2 DEF Register
    <3>2. QED
      BY <2>1, <3>1, SettlingEpoch
  <2>3. CASE Current(p)
    <3>1. ASSUME NEW q \in Pin PROVE EpochOfPin(q)'
      <4>1. EpochOfPin(q) /\ EpochOfPin(p) /\ mintedIn[q] \in Int /\ clock \in Int
        BY DEF EpochInv, Bucket
      <4>2. retained' = {g \in retained \cup {p} : Active(mintedIn[g])}
        BY <1>3, <2>3 DEF Register
      <4>3. task'[q] = IF q = p THEN "publishing" ELSE task[q]
        BY <1>3, <2>3 DEF Register
      <4>4. mintedEpoch[p] = epoch /\ task[p] # "none"
        BY <1>3, <2>3 DEF Current, Register
      <4>5. q \in retained \cup {p} /\ q \notin retained' => mintedIn[q] < clock - 1
        BY <4>1, <4>2 DEF Active, EpochOfPin
      <4>6. q \in retained' => q \in retained \/ q = p
        BY <4>2
      <4>7. CASE q = p
        BY <2>1, <4>1, <4>3, <4>4, <4>5, <4>7 DEF EpochOfPin
      <4>8. CASE q # p
        BY <2>1, <4>1, <4>3, <4>5, <4>6, <4>8 DEF EpochOfPin
      <4>9. QED
        BY <4>7, <4>8
    <3>2. QED
      BY <2>1, <3>1 DEF EpochInv
  <2>4. QED
    BY <2>2, <2>3
<1>4. ASSUME NEW p \in Pin, Published(p) \/ PublishRefused(p) PROVE EpochInv'
  <2>1. \A q \in Pin : task'[q] \in {task[q], "none"}
    BY <1>4 DEF Published, PublishRefused
  <2>2. UNCHANGED <<clock, minted, mintedIn, mintedEpoch, retained, replacing>>
    BY <1>4 DEF Published, PublishRefused, pinVars
  <2>3. \/ UNCHANGED <<epoch, settled>>
        \/ epoch' = epoch + 1 /\ settled' # "open"
    BY <1>4 DEF Published, PublishRefused, GiveUp, EpochAfterSettling, outcomeVars
  <2>4. QED
    BY <2>1, <2>2, <2>3, SettlingEpoch
<1>5. CASE \E c \in claims : ClaimArrives(c)
  BY <1>5, SettlingEpoch DEF ClaimArrives, pinVars, outcomeVars
<1>6. ASSUME NEW c \in verifying, VerifyDropped(c) \/ VerifyRefused(c) \/ Lock(c)
      PROVE  EpochInv'
  <2>1. UNCHANGED <<clock, minted, mintedIn, mintedEpoch, task, replacing>>
    BY <1>6 DEF VerifyDropped, VerifyRefused, Lock, pinVars
  <2>2. retained' \subseteq retained
    BY <1>6 DEF VerifyDropped, VerifyRefused, Lock
  <2>3. \/ epoch' = epoch + 1 /\ settled' # "open"
        \/ UNCHANGED <<epoch, settled, retained>>
    BY <1>6 DEF VerifyDropped, VerifyRefused, Lock, Waiting, GiveUp, EpochAfterSettling,
                outcomeVars
  <2>4. QED
    BY <2>1, <2>2, <2>3, SettlingEpoch
<1>7. ASSUME NEW c \in verifying, VerifyFails(c) PROVE EpochInv'
  <2>1. /\ UNCHANGED <<clock, minted, mintedIn, mintedEpoch, task, retained, epoch, settled>>
        /\ settled = "open"
    BY <1>7 DEF VerifyFails, Waiting, pinVars, outcomeVars
  <2>2. \A t \in replacing' : t \in replacing \/ t.epoch = epoch
    BY <1>7 DEF VerifyFails
  <2>3. \A p \in Pin : EpochOfPin(p)'
    BY <2>1 DEF EpochInv, EpochOfPin
  <2>4. QED
    BY <2>1, <2>2, <2>3 DEF EpochInv
<1>8. CASE \E t \in replacing : Replace(t)
  BY <1>8, SettlingEpoch DEF Replace, pinVars, outcomeVars
<1>9. CASE Ending
  <2>1. UNCHANGED <<clock, minted, mintedIn, mintedEpoch, task, replacing>>
    BY <1>9 DEF Ending, Cancel, WaitEnds, Close, Confirm, pinVars
  <2>2. retained' \subseteq retained
    BY <1>9 DEF Ending, Cancel, WaitEnds, Close, Confirm, RetireAll
  <2>3. \/ epoch' = epoch + 1 /\ settled' # "open"
        \/ epoch' = epoch /\ settled' # "open" /\ settled # "open"
        \/ UNCHANGED <<epoch, settled, retained>>
    BY <1>9 DEF Ending, Cancel, WaitEnds, Close, Confirm, GiveUp, EpochAfterSettling,
                outcomeVars
  <2>4. QED
    BY <2>1, <2>2, <2>3, SettlingEpoch
<1>10. CASE Tick
  <2>1. /\ UNCHANGED <<minted, mintedIn, mintedEpoch, task, retained, replacing, epoch>>
        /\ UNCHANGED settled /\ clock' = clock + 1
    BY <1>10 DEF Tick, pinVars, outcomeVars
  <2>2. \A p \in Pin : EpochOfPin(p)'
    BY <2>1 DEF EpochInv, EpochOfPin, Bucket
  <2>3. QED
    BY <2>1, <2>2 DEF EpochInv
<1>11. CASE Receiving \/ Over \/ UNCHANGED vars
  <2>1. UNCHANGED <<clock, minted, mintedIn, mintedEpoch, task, retained, replacing,
                    epoch, settled>>
    BY <1>11 DEF Receiving, ReadPin, Search, HearElement, ConfirmArrives, ReceiverStops,
                 Over, vars, senderVars, pinVars, outcomeVars
  <2>2. QED
    BY <2>1, SettlingEpoch
<1>12. QED
  BY <1>1, <1>2, <1>3, <1>4, <1>5, <1>6, <1>7, <1>8, <1>9, <1>10, <1>11
     DEF Next, Publishing, Verifying

LEMMA EpochsHold == Spec => [](TypeOK /\ EpochInv)
<1>1. TypeOK /\ EpochInv /\ [Next]_vars => EpochInv'
  BY NextEpoch
<1>2. QED
  BY <1>1, TypeCorrect, InitEpoch, PTL DEF Spec

\* While the wait is open, claims are honoured only for PINs minted since the last
\* refresh, however many publishes it overtook.
THEOREM RetainedCorrect == Spec => []RetainedAreCurrent
<1>1. TypeOK /\ EpochInv => RetainedAreCurrent
  BY DEF TypeOK, WaitTypeOK, EpochInv, EpochOfPin, RetainedAreCurrent
<1>2. QED
  BY <1>1, EpochsHold, PTL

\* A PIN that comes on screen is honoured, unless it expired on its way.
THEOREM ShownCorrect == Spec => ShownIsHonoured
<1>1. TypeOK /\ EpochInv /\ [Next]_vars
        => [shown' # shown => shown' \in retained' \/ ~Active(mintedIn[shown'])]_vars
  <2>1. SUFFICES ASSUME TypeOK, EpochInv, Next, shown' # shown
                 PROVE  shown' \in retained' \/ ~Active(mintedIn[shown'])
    OBVIOUS
  <2>2. PICK p \in Pin : Published(p)
    BY <2>1 DEF Next, Publishing, Verifying, Ending, Tick, Receiving, Over, Rotate,
                Refresh, Register, PublishRefused, ClaimArrives, VerifyDropped,
                VerifyRefused, Lock, VerifyFails, Replace, Cancel, WaitEnds, Close,
                Confirm, ReadPin, Search, HearElement, ConfirmArrives, ReceiverStops,
                senderVars, vars
  <2>3. /\ shown' = p /\ retained' = retained
        /\ task[p] = "publishing" /\ mintedEpoch[p] = epoch
    BY <2>1, <2>2 DEF Published, StillCurrent, Current
  <2>4. p \in retained \/ mintedIn[p] < clock - 1
    BY <2>1, <2>3 DEF EpochInv, EpochOfPin
  <2>5. mintedIn[p] \in Int /\ clock \in Int
    BY <2>1 DEF TypeOK, PinsTypeOK, Bucket
  <2>6. QED
    BY <2>3, <2>4, <2>5 DEF Active
<1>2. QED
  BY <1>1, EpochsHold, PTL DEF Spec, ShownIsHonoured

\* The lock goes only to a claim verified while its PIN was active.
THEOREM LockCorrect == Spec => LockedInTime
<1>1. [Next]_vars => [lockedTo' # lockedTo => Active(mintedIn[lockedTo'.run[1]])]_vars
  <2>1. SUFFICES ASSUME Next, lockedTo' # lockedTo
                 PROVE  Active(mintedIn[lockedTo'.run[1]])
    OBVIOUS
  <2>2. PICK c \in verifying : Lock(c)
    BY <2>1 DEF Next, Publishing, Verifying, Ending, Tick, Receiving, Over, Rotate,
                Refresh, Register, Published, PublishRefused, ClaimArrives,
                VerifyDropped, VerifyRefused, VerifyFails, Replace, Cancel, WaitEnds,
                Close, Confirm, GiveUp, ReadPin, Search, HearElement, ConfirmArrives,
                ReceiverStops, outcomeVars, senderVars, vars
  <2>3. QED
    BY <2>2 DEF Lock, Verified
<1>2. QED
  BY <1>1, PTL DEF Spec, LockedInTime

\* Once the wait has ended, what was in flight finds its epoch gone: nothing more
\* is registered or published.
THEOREM EndCorrect == Spec => NothingAfterwards
<1>1. TypeOK /\ EpochInv /\ [Next]_vars
        => [settled # "open" => retained' \subseteq retained /\ events' = events]_vars
  <2>1. SUFFICES ASSUME TypeOK, EpochInv, Next, settled # "open"
                 PROVE  retained' \subseteq retained /\ events' = events
    OBVIOUS
  <2>2. ASSUME NEW p \in Pin, Register(p)
        PROVE  retained' \subseteq retained /\ events' = events
    <3>1. mintedEpoch[p] < epoch /\ mintedEpoch[p] \in Int /\ epoch \in Int
      BY <2>1 DEF EpochInv, EpochOfPin, TypeOK, PinsTypeOK, WaitTypeOK
    <3>2. ~Current(p)
      BY <3>1 DEF Current
    <3>3. QED
      BY <2>2, <3>2 DEF Register
  <2>3. ASSUME NEW t \in replacing, Replace(t)
        PROVE  retained' \subseteq retained /\ events' = events
    <3>1. t.epoch < epoch /\ t.epoch \in Int /\ epoch \in Int
      BY <2>1 DEF EpochInv, TypeOK, WaitTypeOK
    <3>2. Stale(t)
      BY <3>1 DEF Stale
    <3>3. QED
      BY <2>3, <3>2 DEF Replace
  <2>4. ASSUME NEW p \in Pin, Published(p) \/ PublishRefused(p)
        PROVE  retained' \subseteq retained /\ events' = events
    BY <2>4 DEF Published, PublishRefused, relayVars
  <2>5. CASE \E c \in claims : ClaimArrives(c)
    BY <2>1, <2>5 DEF ClaimArrives
  <2>6. ASSUME NEW c \in verifying,
               VerifyDropped(c) \/ VerifyRefused(c) \/ Lock(c) \/ VerifyFails(c)
        PROVE  retained' \subseteq retained /\ events' = events
    BY <2>6 DEF VerifyDropped, VerifyRefused, Lock, VerifyFails, relayVars
  <2>7. CASE Rotate \/ Refresh
    BY <2>1, <2>7 DEF Rotate, Refresh
  <2>8. CASE Ending \/ Tick
    BY <2>8 DEF Ending, Cancel, WaitEnds, Close, Confirm, Tick, RetireAll, relayVars
  <2>9. CASE Receiving \/ Over
    BY <2>9 DEF Receiving, ReadPin, Search, HearElement, ConfirmArrives, ReceiverStops,
                Over, vars, senderVars, relayVars
  <2>10. QED
    BY <2>1, <2>2, <2>3, <2>4, <2>5, <2>6, <2>7, <2>8, <2>9
       DEF Next, Publishing, Verifying
<1>2. QED
  BY <1>1, EpochsHold, PTL DEF Spec, NothingAfterwards

-----------------------------------------------------------------------------
(* One receiver is confirmed *)

\* Nobody is confirmed before the lock, only the locked claim after it, and a
\* receiver counts as won only by a confirm made for it.
ConfirmInv ==
  /\ settled = "open" => confirms = {}
  /\ confirms \subseteq {lockedTo}
  /\ \A r \in Receiver :
       rPhase[r] = "won" => [from |-> r, run |-> rWon[r]] \in confirms

LEMMA NextConfirm == TypeOK /\ ConfirmInv /\ [Next]_vars => ConfirmInv'
<1> SUFFICES ASSUME TypeOK, ConfirmInv, [Next]_vars PROVE ConfirmInv'
  OBVIOUS
<1> USE DEF TypeOK
<1>1. ASSUME UNCHANGED <<confirms, rPhase, rWon>>,
             \/ UNCHANGED outcomeVars
             \/ settled = "open"
             \/ settled' # "open" /\ lockedTo' = lockedTo
      PROVE  ConfirmInv'
  BY <1>1 DEF ConfirmInv, outcomeVars
<1>2. CASE Publishing
  <2>1. UNCHANGED <<confirms, rPhase, rWon>>
    BY <1>2 DEF Publishing, Rotate, Refresh, Register, Published, PublishRefused,
                relayVars, receiverVars
  <2>2. UNCHANGED outcomeVars \/ settled = "open"
    BY <1>2 DEF Publishing, Rotate, Refresh, Register, Published, PublishRefused,
                GiveUp
  <2>3. QED
    BY <1>1, <2>1, <2>2
<1>3. CASE Verifying
  <2>1. UNCHANGED <<confirms, rPhase, rWon>>
    BY <1>3 DEF Verifying, ClaimArrives, VerifyDropped, VerifyRefused, Lock,
                VerifyFails, Replace, relayVars, receiverVars
  <2>2. UNCHANGED outcomeVars \/ settled = "open"
    BY <1>3 DEF Verifying, ClaimArrives, VerifyDropped, VerifyRefused, Lock, Waiting,
                VerifyFails, Replace
  <2>3. QED
    BY <1>1, <2>1, <2>2
<1>4. CASE Cancel \/ WaitEnds \/ Close \/ Tick
  <2>1. UNCHANGED <<confirms, rPhase, rWon>>
    BY <1>4 DEF Cancel, WaitEnds, Close, Tick, relayVars, receiverVars
  <2>2. UNCHANGED outcomeVars \/ settled = "open"
    BY <1>4 DEF Cancel, WaitEnds, Close, Tick, GiveUp
  <2>3. QED
    BY <1>1, <2>1, <2>2
<1>5. CASE Confirm
  BY <1>5 DEF Confirm, ConfirmInv, receiverVars
<1>6. ASSUME NEW r \in Receiver, ConfirmArrives(r) PROVE ConfirmInv'
  <2>1. PICK c \in confirms : SealedFor(r, c) /\ rWon' = [rWon EXCEPT ![r] = c.run]
    BY <1>6 DEF ConfirmArrives
  <2>2. c = [from |-> r, run |-> c.run]
    BY <2>1 DEF SealedFor, PeersTypeOK, Claim
  <2>3. rPhase' = [rPhase EXCEPT ![r] = "won"] /\ UNCHANGED <<confirms, settled, lockedTo>>
    BY <1>6 DEF ConfirmArrives, relayVars, senderVars, outcomeVars
  <2>4. ASSUME NEW q \in Receiver, rPhase'[q] = "won"
        PROVE  [from |-> q, run |-> rWon'[q]] \in confirms
    <3>1. CASE q = r
      BY <2>1, <2>2, <3>1 DEF PeersTypeOK
    <3>2. CASE q # r
      BY <2>1, <2>3, <2>4, <3>2 DEF PeersTypeOK, ConfirmInv
    <3>3. QED
      BY <3>1, <3>2
  <2>5. QED
    BY <2>3, <2>4 DEF ConfirmInv
<1>7. ASSUME NEW r \in Receiver,
             ReadPin(r) \/ Search(r) \/ HearElement(r) \/ ReceiverStops(r)
      PROVE  ConfirmInv'
  <2>1. UNCHANGED <<confirms, rWon, settled, lockedTo>>
    BY <1>7 DEF ReadPin, Search, HearElement, ReceiverStops, relayVars, senderVars,
                outcomeVars
  <2>2. \A q \in Receiver : rPhase'[q] = "won" => rPhase[q] = "won"
    BY <1>7 DEF ReadPin, Search, HearElement, ReceiverStops, PeersTypeOK
  <2>3. QED
    BY <2>1, <2>2 DEF ConfirmInv
<1>8. CASE Over \/ UNCHANGED vars
  <2>1. UNCHANGED relayVars /\ UNCHANGED receiverVars /\ UNCHANGED outcomeVars
    BY <1>8 DEF Over, vars
  <2>2. QED
    BY <1>1, <2>1 DEF relayVars, receiverVars
<1>9. QED
  BY <1>2, <1>3, <1>4, <1>5, <1>6, <1>7, <1>8 DEF Next, Ending, Receiving

\* A receiver that was confirmed is the one the sender locked, by the same element,
\* with any number of receivers claiming any number of PINs at once.
THEOREM AgreementCorrect == Spec => []Agreement
<1>1. Init => ConfirmInv
  BY DEF Init, ConfirmInv
<1>2. TypeOK /\ ConfirmInv /\ [Next]_vars => ConfirmInv'
  BY NextConfirm
<1>3. ConfirmInv => Agreement
  BY DEF ConfirmInv, Agreement
<1>4. QED
  BY <1>1, <1>2, <1>3, TypeCorrect, PTL DEF Spec

-----------------------------------------------------------------------------
(* Every element and every guess once *)

\* The claims ever verified against a PIN, and how many.
Against(p) == {c \in checked : c.run[1] = p}
Guesses(p) == Cardinality(Against(p))

\* A PIN has one claimable element, or one claim under verification, or one
\* replacement under way, or none of them for good.
OneAtATime(p) ==
  /\ \A c, d \in verifying : c.run[1] = p /\ d.run[1] = p => c = d
  /\ \A t, u \in replacing : t.pin = p /\ u.pin = p => t = u
  /\ \A c \in verifying, t \in replacing : c.run[1] = p => t.pin # p
  /\ live[p] # 0 => /\ \A c \in verifying : c.run[1] # p
                   /\ \A t \in replacing : t.pin # p

\* Its elements are numbered in the order they are registered, each after the one
\* before it was spent; a replacement is begun only with budget left.
BooksOf(p) ==
  /\ task[p] # "none" => p <= minted
  /\ p > minted \/ task[p] = "deriving" => runs[p] = 0
  /\ p \in retained => runs[p] > 0
  /\ live[p] # 0 => live[p] = runs[p] /\ budget[p] > 0
  /\ \A c \in Against(p) : c.run[2] <= runs[p] /\ c.run[2] # live[p]
  /\ runs[p] = Guesses(p) + (IF live[p] = 0 THEN 0 ELSE 1)
  /\ budget[p] = Limit - Guesses(p)
  /\ \A t \in replacing : t.pin = p => budget[p] > 0 /\ runs[p] > 0
BooksInv ==
  /\ IsFiniteSet(checked) /\ checked \subseteq heard /\ verifying \subseteq checked
  /\ SingleUse
  /\ \A p \in Pin : BooksOf(p) /\ OneAtATime(p)

LEMMA GuessesType ==
  ASSUME IsFiniteSet(checked), NEW p
  PROVE  Guesses(p) \in Nat /\ (Guesses(p) = 0 => Against(p) = {})
<1>1. IsFiniteSet(Against(p))
  BY FS_Subset DEF Against
<1>2. QED
  BY <1>1, FS_CardinalityType, FS_EmptySet DEF Guesses

LEMMA InitBooks == Init => BooksInv
<1> SUFFICES ASSUME Init PROVE BooksInv
  OBVIOUS
<1>1. \A p : Against(p) = {} /\ Guesses(p) = 0
  BY FS_EmptySet DEF Init, Against, Guesses
<1>2. IsFiniteSet(checked)
  BY FS_EmptySet DEF Init
<1>3. ASSUME NEW p \in Pin PROVE BooksOf(p) /\ OneAtATime(p)
  BY <1>1 DEF Init, BooksOf, OneAtATime, Pin
<1>4. QED
  BY <1>2, <1>3 DEF Init, BooksInv, SingleUse

\* Steps that begin nothing: tasks and verifications end, generations retire.
LEMMA BooksFrame ==
  ASSUME TypeOK, BooksInv, UNCHANGED <<minted, live, runs, budget, checked, heard>>,
         \A p \in Pin : task'[p] \in {task[p], "none"},
         verifying' \subseteq verifying, replacing' \subseteq replacing,
         retained' \subseteq retained
  PROVE  BooksInv'
<1>1. \A p : Against(p)' = Against(p) /\ Guesses(p)' = Guesses(p)
  BY DEF Against, Guesses
<1>2. ASSUME NEW p \in Pin PROVE BooksOf(p)' /\ OneAtATime(p)'
  <2>1. BooksOf(p) /\ OneAtATime(p)
    BY DEF BooksInv
  <2>2. BooksOf(p)'
    BY <1>1, <2>1 DEF BooksOf
  <2>3. OneAtATime(p)'
    BY <2>1 DEF OneAtATime
  <2>4. QED
    BY <2>2, <2>3
<1>3. SingleUse'
  BY DEF BooksInv, SingleUse
<1>4. QED
  BY <1>2, <1>3 DEF BooksInv

\* A new PIN has no books yet.
LEMMA MintBooks ==
  ASSUME TypeOK, BooksInv, NEW by, NEW e, Mint(by, e),
         UNCHANGED <<live, runs, budget, checked, heard, verifying, replacing>>,
         retained' \subseteq retained
  PROVE  BooksInv'
<1>1. \A p : Against(p)' = Against(p) /\ Guesses(p)' = Guesses(p)
  BY DEF Against, Guesses
<1>2. minted \in Nat /\ minted' = minted + 1
  BY DEF Mint, TypeOK, PinsTypeOK, Pin
<1>3. ASSUME NEW p \in Pin PROVE BooksOf(p)' /\ OneAtATime(p)'
  <2>1. BooksOf(p) /\ OneAtATime(p) /\ p \in Int
    BY DEF BooksInv, Pin
  <2>2. task'[p] = IF p = minted + 1 THEN "deriving" ELSE task[p]
    BY <1>2 DEF Mint, TypeOK, PinsTypeOK
  <2>3. BooksOf(p)'
    BY <1>1, <1>2, <2>1, <2>2 DEF BooksOf
  <2>4. OneAtATime(p)'
    BY <2>1 DEF OneAtATime
  <2>5. QED
    BY <2>3, <2>4
<1>4. SingleUse'
  BY DEF BooksInv, SingleUse
<1>5. QED
  BY <1>3, <1>4 DEF BooksInv

\* A PIN is registered once, before anything was verified against it.
LEMMA RegisterBooks ==
  ASSUME TypeOK, BooksInv, NEW p \in Pin, Register(p)
  PROVE  BooksInv'
<1>1. UNCHANGED <<minted, checked, heard, verifying, replacing>>
  BY DEF Register, pinVars, claimVars
<1>2. \A q : Against(q)' = Against(q) /\ Guesses(q)' = Guesses(q)
  BY <1>1 DEF Against, Guesses
<1>3. CASE ~Current(p)
  <2>1. UNCHANGED <<live, runs, budget, retained>>
    BY <1>3 DEF Register, runVars
  <2>2. \A q \in Pin : task'[q] \in {task[q], "none"}
    BY <1>3 DEF Register, TypeOK, PinsTypeOK
  <2>3. QED
    BY <1>1, <2>1, <2>2, BooksFrame
<1>4. CASE Current(p)
  <2>1. /\ task' = [task EXCEPT ![p] = "publishing"] /\ live' = [live EXCEPT ![p] = 1]
        /\ runs' = [runs EXCEPT ![p] = 1] /\ budget' = [budget EXCEPT ![p] = Limit]
        /\ retained' \subseteq retained \cup {p} /\ task[p] = "deriving"
    BY <1>4 DEF Register
  <2>2. ASSUME NEW q \in Pin PROVE BooksOf(q)' /\ OneAtATime(q)'
    <3>1. BooksOf(q) /\ OneAtATime(q)
      BY DEF BooksInv
    <3>2. CASE q # p
      <4>1. /\ task'[q] = task[q] /\ live'[q] = live[q] /\ runs'[q] = runs[q]
            /\ budget'[q] = budget[q] /\ (q \in retained' => q \in retained)
        BY <2>1, <3>2 DEF TypeOK, PinsTypeOK
      <4>2. QED
        BY <1>1, <1>2, <3>1, <4>1 DEF BooksOf, OneAtATime
    <3>3. CASE q = p
      <4>1. /\ task'[p] = "publishing" /\ live'[p] = 1 /\ runs'[p] = 1
            /\ budget'[p] = Limit
        BY <2>1 DEF TypeOK, PinsTypeOK
      <4>2. Guesses(p) \in Nat /\ runs[p] = 0 /\ live[p] \in Nat
        BY <2>1, <3>1, <3>3, GuessesType DEF BooksInv, BooksOf, TypeOK, PinsTypeOK
      <4>3. Against(p) = {} /\ Guesses(p) = 0
        BY <3>1, <3>3, <4>2, GuessesType DEF BooksInv, BooksOf
      <4>4. \A c \in verifying : c.run[1] # p
        BY <4>3 DEF BooksInv, Against
      <4>5. \A t \in replacing : t.pin # p
        BY <3>1, <3>3, <4>2 DEF BooksOf
      <4>6. BooksOf(p)'
        <5>1. p <= minted /\ p \in Int /\ minted \in Int
          BY <2>1, <3>1, <3>3 DEF BooksOf, TypeOK, PinsTypeOK, Pin
        <5>2. QED
          BY <1>1, <1>2, <4>1, <4>3, <4>5, <5>1 DEF BooksOf
      <4>7. OneAtATime(p)'
        BY <1>1, <4>4, <4>5 DEF OneAtATime
      <4>8. QED
        BY <3>3, <4>6, <4>7
    <3>4. QED
      BY <3>2, <3>3
  <2>3. SingleUse'
    BY <1>1 DEF BooksInv, SingleUse
  <2>4. QED
    BY <1>1, <2>2, <2>3 DEF BooksInv
<1>5. QED
  BY <1>3, <1>4

\* A claim is verified against the one live element of its PIN, which is spent: no
\* claim was verified against it before, and none will be.
LEMMA ClaimBooks ==
  ASSUME TypeOK, BooksInv, NEW c \in claims, ClaimArrives(c)
  PROVE  BooksInv'
<1> DEFINE g == c.run[1]
<1>1. c \in Claim /\ g \in Pin /\ c.run \in Run /\ c.run[2] \in Nat \ {0}
  BY DEF TypeOK, PeersTypeOK, Claim, Run
<1>2. /\ UNCHANGED <<minted, task, runs, retained, replacing>>
      /\ heard' = heard \cup {c} /\ c \notin heard
  BY DEF ClaimArrives, pinVars
<1>3. CASE ~Claimable(c.run)
  <2>1. UNCHANGED <<live, budget, verifying, checked>>
    BY <1>3 DEF ClaimArrives
  <2>2. \A p : Against(p)' = Against(p) /\ Guesses(p)' = Guesses(p)
    BY <2>1 DEF Against, Guesses
  <2>3. \A p \in Pin : BooksOf(p)' /\ OneAtATime(p)'
    BY <1>2, <2>1, <2>2 DEF BooksInv, BooksOf, OneAtATime
  <2>4. QED
    BY <1>2, <2>1, <2>3 DEF BooksInv, SingleUse
<1>4. CASE Claimable(c.run)
  <2>1. /\ live' = [live EXCEPT ![g] = 0] /\ budget' = [budget EXCEPT ![g] = @ - 1]
        /\ verifying' = verifying \cup {c} /\ checked' = checked \cup {c}
        /\ live[g] = c.run[2] /\ budget[g] > 0
    BY <1>4 DEF ClaimArrives, Claimable, Spend
  <2>2. c \notin checked /\ IsFiniteSet(checked) /\ IsFiniteSet(checked')
    BY <1>2, <2>1, FS_AddElement DEF BooksInv
  <2>3. BooksOf(g) /\ OneAtATime(g) /\ live[g] # 0 /\ live[g] = runs[g]
    BY <1>1, <2>1 DEF BooksInv, BooksOf
  <2>4. Against(g)' = Against(g) \cup {c} /\ Guesses(g)' = Guesses(g) + 1
    <3>1. Against(g)' = Against(g) \cup {c} /\ c \notin Against(g)
      BY <2>1, <2>2 DEF Against
    <3>2. IsFiniteSet(Against(g))
      BY <2>2, FS_Subset DEF Against
    <3>3. QED
      BY <3>1, <3>2, FS_AddElement DEF Guesses
  <2>5. ASSUME NEW p \in Pin PROVE BooksOf(p)' /\ OneAtATime(p)'
    <3>1. BooksOf(p) /\ OneAtATime(p)
      BY DEF BooksInv
    <3>2. CASE p # g
      <4>1. live'[p] = live[p] /\ budget'[p] = budget[p]
        BY <1>1, <2>1, <3>2 DEF TypeOK, PinsTypeOK
      <4>2. Against(p)' = Against(p) /\ Guesses(p)' = Guesses(p)
        BY <2>1, <3>2 DEF Against, Guesses
      <4>3. BooksOf(p)'
        BY <1>2, <3>1, <4>1, <4>2 DEF BooksOf
      <4>4. OneAtATime(p)'
        BY <1>2, <2>1, <3>1, <3>2, <4>1 DEF OneAtATime
      <4>5. QED
        BY <4>3, <4>4
    <3>3. CASE p = g
      <4>1. live'[g] = 0 /\ budget'[g] = budget[g] - 1
        BY <1>1, <2>1 DEF TypeOK, PinsTypeOK
      <4>2. Guesses(g) \in Nat /\ runs[g] \in Nat /\ budget[g] \in Nat
        BY <1>1, <2>2, GuessesType DEF TypeOK, PinsTypeOK
      <4>3. \A t \in replacing : t.pin # g
        BY <2>3 DEF OneAtATime
      <4>4. \A d \in Against(g)' : d.run[2] <= runs[g] /\ d.run[2] # 0
        <5>1. SUFFICES ASSUME NEW d \in Against(g)'
                       PROVE  d.run[2] <= runs[g] /\ d.run[2] # 0
          OBVIOUS
        <5>2. CASE d = c
          <6>1. c.run[2] = runs[g] /\ c.run[2] # 0
            BY <2>1, <2>3
          <6>2. c.run[2] <= runs[g]
            BY <4>2, <6>1
          <6>3. QED
            BY <5>2, <6>1, <6>2
        <5>3. CASE d \in Against(g)
          <6>1. d \in Claim
            BY <5>3 DEF Against, TypeOK, WaitTypeOK
          <6>2. QED
            BY <2>3, <5>3, <6>1 DEF BooksOf, Claim, Run
        <5>4. QED
          BY <2>4, <5>2, <5>3
      <4>5. BooksOf(g)'
        BY <1>2, <2>3, <2>4, <4>1, <4>2, <4>3, <4>4 DEF BooksOf
      <4>6. OneAtATime(g)'
        BY <1>2, <2>1, <2>3, <4>1, <4>3 DEF OneAtATime
      <4>7. QED
        BY <3>3, <4>5, <4>6
    <3>4. QED
      BY <3>2, <3>3
  <2>6. SingleUse'
    <3>1. \A d \in checked : d.run # c.run
      <4>1. SUFFICES ASSUME NEW d \in checked, d.run = c.run PROVE FALSE
        OBVIOUS
      <4>2. d \in Against(g)
        BY <4>1 DEF Against
      <4>3. QED
        BY <2>1, <2>3, <4>1, <4>2 DEF BooksOf
    <3>2. QED
      BY <2>1, <3>1 DEF BooksInv, SingleUse
  <2>7. QED
    BY <1>2, <2>1, <2>2, <2>5, <2>6 DEF BooksInv
<1>5. QED
  BY <1>3, <1>4

\* A failed verification is followed by one replacement, if anything is left.
LEMMA VerifyFailsBooks ==
  ASSUME TypeOK, BooksInv, NEW c \in verifying, VerifyFails(c)
  PROVE  BooksInv'
<1> DEFINE g == c.run[1]
<1>1. g \in Pin
  BY DEF TypeOK, WaitTypeOK, Claim, Run
<1>2. /\ UNCHANGED <<minted, task, retained, live, runs, budget, heard, checked>>
      /\ verifying' = verifying \ {c}
  BY DEF VerifyFails, pinVars, runVars
<1>3. \A t \in replacing' : t \in replacing \/ (t.pin = g /\ budget[g] > 0 /\ g \in retained)
  BY DEF VerifyFails, Replaceable
<1>4. \A t, u \in replacing' : t \notin replacing /\ u \notin replacing => t = u
  BY DEF VerifyFails
<1>5. \A p : Against(p)' = Against(p) /\ Guesses(p)' = Guesses(p)
  BY <1>2 DEF Against, Guesses
<1>6. OneAtATime(g) /\ BooksOf(g)
  BY <1>1 DEF BooksInv
<1>7. /\ \A d \in verifying' : d.run[1] # g
      /\ \A t \in replacing : t.pin # g
      /\ live[g] = 0
  BY <1>2, <1>6 DEF OneAtATime
<1>8. ASSUME NEW p \in Pin PROVE BooksOf(p)' /\ OneAtATime(p)'
  <2>1. BooksOf(p) /\ OneAtATime(p)
    BY DEF BooksInv
  <2>2. \A t \in replacing' : t.pin = p => budget[p] > 0 /\ runs[p] > 0
    BY <1>3, <1>6, <2>1 DEF BooksOf
  <2>3. BooksOf(p)'
    BY <1>2, <1>5, <2>1, <2>2 DEF BooksOf
  <2>4. OneAtATime(p)'
    BY <1>2, <1>3, <1>4, <1>7, <2>1 DEF OneAtATime
  <2>5. QED
    BY <2>3, <2>4
<1>9. SingleUse'
  BY <1>2 DEF BooksInv, SingleUse
<1>10. QED
  BY <1>2, <1>8, <1>9 DEF BooksInv

\* A replacement is a new element, with a number no claim was made for yet.
LEMMA ReplaceBooks ==
  ASSUME TypeOK, BooksInv, NEW t \in replacing, Replace(t)
  PROVE  BooksInv'
<1> DEFINE g == t.pin
<1>1. g \in Pin
  BY DEF TypeOK, WaitTypeOK
<1>2. /\ UNCHANGED <<minted, task, retained, budget, heard, checked, verifying>>
      /\ replacing' = replacing \ {t}
  BY DEF Replace, pinVars, claimVars
<1>3. CASE Stale(t)
  <2>1. UNCHANGED <<live, runs>>
    BY <1>3 DEF Replace
  <2>2. QED
    BY <1>2, <2>1, BooksFrame
<1>4. CASE ~Stale(t)
  <2>1. /\ live' = [live EXCEPT ![g] = runs[g] + 1]
        /\ runs' = [runs EXCEPT ![g] = @ + 1]
    BY <1>4 DEF Replace, Claimed
  <2>2. \A p : Against(p)' = Against(p) /\ Guesses(p)' = Guesses(p)
    BY <1>2 DEF Against, Guesses
  <2>3. ASSUME NEW p \in Pin PROVE BooksOf(p)' /\ OneAtATime(p)'
    <3>1. BooksOf(p) /\ OneAtATime(p)
      BY DEF BooksInv
    <3>2. CASE p # g
      <4>1. live'[p] = live[p] /\ runs'[p] = runs[p]
        BY <1>1, <2>1, <3>2 DEF TypeOK, PinsTypeOK
      <4>2. BooksOf(p)'
        BY <1>2, <2>2, <3>1, <4>1 DEF BooksOf
      <4>3. OneAtATime(p)'
        BY <1>2, <3>1, <4>1 DEF OneAtATime
      <4>4. QED
        BY <4>2, <4>3
    <3>3. CASE p = g
      <4>1. live'[g] = runs[g] + 1 /\ runs'[g] = runs[g] + 1
        BY <1>1, <2>1 DEF TypeOK, PinsTypeOK
      <4>2. /\ Guesses(g) \in Nat /\ runs[g] \in Nat
            /\ live[g] = 0 /\ budget[g] > 0 /\ runs[g] > 0
            /\ \A c \in verifying : c.run[1] # g
            /\ \A u \in replacing' : u.pin # g
        BY <1>1, <1>2, <3>1, <3>3, GuessesType
           DEF TypeOK, PinsTypeOK, BooksInv, BooksOf, OneAtATime
      <4>3. \A c \in Against(g) : c.run[2] <= runs[g] + 1 /\ c.run[2] # runs[g] + 1
        <5>1. \A c \in Against(g) : c.run[2] \in Nat /\ c.run[2] <= runs[g]
          BY <3>1, <3>3 DEF BooksOf, Against, TypeOK, WaitTypeOK, Claim, Run
        <5>2. QED
          BY <4>2, <5>1
      <4>4. BooksOf(g)'
        BY <1>2, <2>2, <3>1, <3>3, <4>1, <4>2, <4>3 DEF BooksOf
      <4>5. OneAtATime(g)'
        BY <1>2, <3>1, <3>3, <4>2 DEF OneAtATime
      <4>6. QED
        BY <3>3, <4>4, <4>5
    <3>4. QED
      BY <3>2, <3>3
  <2>4. QED
    BY <1>2, <2>3 DEF BooksInv, SingleUse
<1>5. QED
  BY <1>3, <1>4

LEMMA NextBooks == TypeOK /\ BooksInv /\ [Next]_vars => BooksInv'
<1> SUFFICES ASSUME TypeOK, BooksInv, [Next]_vars PROVE BooksInv'
  OBVIOUS
<1>1. CASE Rotate
  BY <1>1, MintBooks DEF Rotate, runVars, claimVars
<1>2. CASE Refresh
  BY <1>2, MintBooks DEF Refresh, runVars, claimVars
<1>3. ASSUME NEW p \in Pin, Register(p) PROVE BooksInv'
  BY <1>3, RegisterBooks
<1>4. ASSUME NEW p \in Pin, Published(p) \/ PublishRefused(p) PROVE BooksInv'
  <2>1. /\ UNCHANGED <<minted, live, runs, budget, checked, heard>>
        /\ UNCHANGED <<verifying, replacing, retained>>
        /\ task' = [task EXCEPT ![p] = "none"]
    BY <1>4 DEF Published, PublishRefused, pinVars, runVars, claimVars
  <2>2. \A q \in Pin : task'[q] \in {task[q], "none"}
    BY <2>1 DEF TypeOK, PinsTypeOK
  <2>3. QED
    BY <2>1, <2>2, BooksFrame
<1>5. ASSUME NEW c \in claims, ClaimArrives(c) PROVE BooksInv'
  BY <1>5, ClaimBooks
<1>6. ASSUME NEW c \in verifying, VerifyDropped(c) \/ VerifyRefused(c) \/ Lock(c)
      PROVE  BooksInv'
  <2>1. /\ UNCHANGED <<minted, task, live, runs, budget, checked, heard, replacing>>
        /\ verifying' \subseteq verifying /\ retained' \subseteq retained
    BY <1>6 DEF VerifyDropped, VerifyRefused, Lock, pinVars, runVars
  <2>2. QED
    BY <2>1, BooksFrame
<1>7. ASSUME NEW c \in verifying, VerifyFails(c) PROVE BooksInv'
  BY <1>7, VerifyFailsBooks
<1>8. ASSUME NEW t \in replacing, Replace(t) PROVE BooksInv'
  BY <1>8, ReplaceBooks
<1>9. CASE Ending \/ Tick \/ Receiving \/ Over \/ UNCHANGED vars
  <2>1. /\ UNCHANGED <<minted, task, live, runs, budget, checked, heard>>
        /\ UNCHANGED <<verifying, replacing>> /\ retained' \subseteq retained
    <3>1. CASE Ending \/ Tick
      BY <3>1 DEF Ending, Cancel, WaitEnds, Close, Confirm, Tick, RetireAll, pinVars,
                  runVars, claimVars
    <3>2. CASE Receiving
      BY <3>2 DEF Receiving, ReadPin, Search, HearElement, ConfirmArrives,
                  ReceiverStops, senderVars, pinVars, runVars, claimVars
    <3>3. CASE Over \/ UNCHANGED vars
      BY <3>3 DEF Over, vars, pinVars, runVars, claimVars
    <3>4. QED
      BY <1>9, <3>1, <3>2, <3>3
  <2>2. QED
    BY <2>1, BooksFrame
<1>10. QED
  BY <1>1, <1>2, <1>3, <1>4, <1>5, <1>6, <1>7, <1>8, <1>9
     DEF Next, Publishing, Verifying

LEMMA BooksHold == Spec => []BooksInv
<1>1. Init => BooksInv
  BY InitBooks
<1>2. TypeOK /\ BooksInv /\ [Next]_vars => BooksInv'
  BY NextBooks
<1>3. QED
  BY <1>1, <1>2, TypeCorrect, PTL DEF Spec

\* An element is verified against at most one claim, with any number of claims made
\* for it at once: the first takes it before anything is awaited.
THEOREM SingleUseCorrect == Spec => []SingleUse
<1>1. BooksInv => SingleUse
  BY DEF BooksInv
<1>2. QED
  BY <1>1, BooksHold, PTL

\* Whatever is claimed, replaced, rotated and refreshed, a PIN's budget is its limit
\* less the claims ever verified against it, and the elements published for it stay
\* within the limit: the next one is published only while a guess is left for it.
THEOREM GuessesCorrect == Spec => []GuessesMetered
<1>1. TypeOK /\ BooksInv => GuessesMetered
  <2>1. SUFFICES ASSUME TypeOK, BooksInv, NEW p \in Pin
                 PROVE  budget[p] = Limit - Guesses(p) /\ runs[p] <= Limit
    BY DEF GuessesMetered, Guesses, Against
  <2>2. BooksOf(p) /\ Guesses(p) \in Nat
    BY <2>1, GuessesType DEF BooksInv
  <2>3. budget[p] \in 0 .. Limit /\ runs[p] \in Nat /\ Limit \in Nat
    BY <2>1, PinRendezvousAssumption DEF TypeOK, PinsTypeOK
  <2>4. QED
    BY <2>2, <2>3 DEF BooksOf
<1>2. QED
  BY <1>1, BooksHold, TypeCorrect, PTL

================================================================================
