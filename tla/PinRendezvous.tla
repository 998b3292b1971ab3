----------------------------- MODULE PinRendezvous -----------------------------
(***************************************************************************)
(* The PIN rendezvous: how a sender that shows a rotating PIN and a receiver  *)
(* that was told one find each other on public relays.  The sender            *)
(* (startPinRendezvous) publishes an element for each PIN; a claim names the   *)
(* element it was made against and spends it, right or wrong; a wrong claim is *)
(* answered with a replacement element, at most Limit times per PIN.  The      *)
(* first claim that opens locks the transfer to its author, who learns of it   *)
(* from a confirm.  Rotation, refresh, cancellation and the wait's timeout run *)
(* beside the claims.                                                          *)
(*                                                                          *)
(* Abstractions.                                                            *)
(*  - A PIN is its number, an element (run) is its PIN and a number, and a     *)
(*    claim is its author and the element it names.  A seal opens when both    *)
(*    sides hold the same PIN.                                                *)
(*  - No two PINs share a hint, and there is one sender: other senders'        *)
(*    events are candidates nobody here answers.                              *)
(*  - Relays keep every event; who sees it when is left open, and nobody acts  *)
(*    on the same event twice (processedEventIds).                            *)
(*  - Time is the bucket of the wall clock, which both sides share.            *)
(***************************************************************************)
EXTENDS Integers, FiniteSets

CONSTANTS
  Receiver,
  Mistyped,     \* receivers whose PIN has the right locator and a wrong rest
  Older,        \* receivers on another protocol version
  Limit,        \* CLAIM_VERIFY_LIMIT
  Attempts,     \* MAX_CLAIM_ATTEMPTS
  MaxPins,      \* bound: PINs minted
  MaxBucket,    \* bound: buckets the clock goes through
  Slow,         \* whether a publish may outlast a rotation
  Impatient,    \* whether users refresh and cancel, and waits time out
  Lossy         \* whether publishes fail, and relays miss events

ASSUME PinRendezvousAssumption ==
  /\ Mistyped \subseteq Receiver /\ Older \subseteq Receiver
  /\ Limit \in Nat \ {0} /\ Attempts \in Nat \ {0}
  /\ MaxPins \in Nat \ {0} /\ MaxBucket \in Nat
  /\ Slow \in BOOLEAN /\ Impatient \in BOOLEAN /\ Lossy \in BOOLEAN

VARIABLES
  clock,
  \* Sender
  minted,       \* PINs minted so far: 1 .. minted
  mintedIn,     \* per PIN: its bucket
  mintedEpoch,  \* per PIN: pinEpoch when it was minted
  task,         \* per PIN: where its publishRendezvous is
  cause,        \* per PIN: what called it
  retained,     \* generations: the PINs whose claims are honoured
  live,         \* per PIN: number of the element claims may name, 0 for none
  runs,         \* per PIN: elements published
  budget,       \* per PIN: verifyBudget
  verifying,    \* claims being verified
  replacing,    \* replacements being derived
  heard,        \* processedEventIds
  epoch,        \* pinEpoch
  rotatedIn,    \* bucket in which the rotation timer last fired or was set
  shown,        \* PIN on screen
  cancelled,    \* isCancelled()
  settled,      \* `claimed`: "open", "locked", "confirmed", "failed"
  lockedTo,     \* the claim it resolved with
  checked,      \* history: claims whose verification began
  \* Relays
  events,       \* rendezvous events
  claims, confirms,
  \* Receivers
  rPhase, rPin,
  rHint,        \* bucket the lookup hints were derived in
  rClaims,      \* elements claimed
  rWon          \* the element whose confirm opened

pinVars == <<minted, mintedIn, mintedEpoch, cause>>
runVars == <<live, runs, budget>>
claimVars == <<verifying, heard, checked>>
outcomeVars == <<settled, lockedTo>>
relayVars == <<events, claims, confirms>>
receiverVars == <<rPhase, rPin, rHint, rClaims, rWon>>
vars == <<clock, pinVars, task, retained, runVars, claimVars, replacing, epoch,
          rotatedIn, shown, cancelled, outcomeVars, relayVars, receiverVars>>

-----------------------------------------------------------------------------
(* Values *)

Pin == 1 .. MaxPins
Bucket == 0 .. MaxBucket
Run == Pin \X (Nat \ {0})
Claim == [from : Receiver, run : Run]
NoRun == <<0, 0>>
NoClaim == [from |-> "nobody", run |-> NoRun]

\* isPinBucketActive: the current bucket or the one before it.
Active(b) == b = clock \/ b = clock - 1

-----------------------------------------------------------------------------
(* Sender: publishing PINs *)

\* generatePin and the derivations of a new publishRendezvous.
Mint(by, e) ==
  LET p == minted + 1 IN
  /\ minted < MaxPins
  /\ minted' = p
  /\ mintedIn' = [mintedIn EXCEPT ![p] = clock]
  /\ mintedEpoch' = [mintedEpoch EXCEPT ![p] = e]
  /\ cause' = [cause EXCEPT ![p] = by]
  /\ task' = [task EXCEPT ![p] = "deriving"]

\* The rotation timer fires once in each bucket.
Rotate ==
  /\ settled = "open" /\ ~cancelled
  /\ rotatedIn < clock
  /\ Slow \/ \A p \in Pin : task[p] = "none"
  /\ Mint("rotation", epoch)
  /\ rotatedIn' = clock
  /\ UNCHANGED <<clock, retained, runVars, claimVars, replacing, epoch, shown,
                 cancelled, outcomeVars, relayVars, receiverVars>>

\* refresh(): every PIN shown so far is dropped and the timer starts over.
Refreshing == \E p \in Pin : cause[p] = "refresh" /\ task[p] # "none"
Refresh ==
  /\ Impatient /\ settled = "open" /\ ~cancelled /\ ~Refreshing
  /\ epoch' = epoch + 1
  /\ retained' = {}
  /\ rotatedIn' = clock
  /\ Mint("refresh", epoch + 1)
  /\ UNCHANGED <<clock, runVars, claimVars, replacing, shown, cancelled, outcomeVars,
                 relayVars, receiverVars>>

NotCancelled(p) == ~cancelled                 \* mutant: a refresh is not noticed
Current(p) == ~cancelled /\ mintedEpoch[p] = epoch

Announce(p, k) == events' = events \cup {[run |-> <<p, k>>, bucket |-> clock]}

\* Before anything is published: the generation is registered, and expired ones
\* are retired. A stale one is dropped, its secret wiped.
Register(p) ==
  /\ task[p] = "deriving"
  /\ IF Current(p)
       THEN /\ task' = [task EXCEPT ![p] = "publishing"]
            /\ retained' = {g \in retained \cup {p} : Active(mintedIn[g])}
            /\ live' = [live EXCEPT ![p] = 1]
            /\ runs' = [runs EXCEPT ![p] = 1]
            /\ budget' = [budget EXCEPT ![p] = Limit]
            /\ Announce(p, 1)
       ELSE /\ task' = [task EXCEPT ![p] = "none"]
            /\ UNCHANGED <<retained, runVars, events>>
  /\ UNCHANGED <<clock, pinVars, claimVars, replacing, epoch, rotatedIn, shown,
                 cancelled, outcomeVars, claims, confirms, receiverVars>>

AlwaysShown(p) == TRUE                        \* mutant: shown once published
StillCurrent(p) == Current(p)

\* A relay took it: the PIN goes on screen, unless it was retired meanwhile.
Published(p) ==
  /\ task[p] = "publishing"
  /\ task' = [task EXCEPT ![p] = "none"]
  /\ shown' = IF StillCurrent(p) THEN p ELSE shown
  /\ UNCHANGED <<clock, pinVars, retained, runVars, claimVars, replacing, epoch,
                 rotatedIn, cancelled, outcomeVars, relayVars, receiverVars>>

EpochAfterSettling == epoch + 1
\* giveUp(): the wait fails, once.
GiveUp ==
  IF settled = "open"
    THEN settled' = "failed" /\ epoch' = EpochAfterSettling /\ UNCHANGED lockedTo
    ELSE UNCHANGED <<outcomeVars, epoch>>

\* No relay took it. The first PIN and a refreshed one are all there is; a
\* rotation is only logged.
PublishRefused(p) ==
  /\ Lossy /\ task[p] = "publishing"
  /\ task' = [task EXCEPT ![p] = "none"]
  /\ IF cause[p] = "rotation" THEN UNCHANGED <<outcomeVars, epoch>> ELSE GiveUp
  /\ UNCHANGED <<clock, pinVars, retained, runVars, claimVars, replacing, rotatedIn,
                 shown, cancelled, relayVars, receiverVars>>

-----------------------------------------------------------------------------
(* Sender: claims *)

\* The generation a claim names, if its element is unspent.
Claimable(run) ==
  LET p == run[1] IN
  /\ p \in retained /\ Active(mintedIn[p])
  /\ budget[p] > 0 /\ live[p] = run[2]

SpentLater(p) == UNCHANGED live               \* mutant: spent once verified
Spend(p) == live' = [live EXCEPT ![p] = 0]

\* The element is spent before anything is awaited.
ClaimArrives(c) ==
  /\ settled = "open" /\ ~cancelled
  /\ c \in claims \ heard
  /\ heard' = heard \cup {c}
  /\ IF Claimable(c.run)
       THEN /\ Spend(c.run[1])
            /\ budget' = [budget EXCEPT ![c.run[1]] = @ - 1]
            /\ verifying' = verifying \cup {c}
            /\ checked' = checked \cup {c}
       ELSE UNCHANGED <<live, budget, verifying, checked>>
  /\ UNCHANGED <<clock, pinVars, task, retained, runs, replacing, epoch, rotatedIn,
                 shown, cancelled, outcomeVars, relayVars, receiverVars>>

\* The seal opens, and everything in it is this element's.
Opens(c) == c.from \notin Mistyped
Verified(c) == Opens(c) /\ Active(mintedIn[c.run[1]])

StillWaiting == ~cancelled                    \* mutant: a second claim locks again
Waiting == settled = "open" /\ ~cancelled

VerifyDropped(c) ==
  /\ c \in verifying /\ ~Waiting
  /\ verifying' = verifying \ {c}
  /\ UNCHANGED <<clock, pinVars, task, retained, runVars, heard, checked, replacing,
                 epoch, rotatedIn, shown, cancelled, outcomeVars, relayVars,
                 receiverVars>>

\* A claimant that knew a PIN, on another protocol: this transfer cannot go on.
VerifyRefused(c) ==
  /\ c \in verifying /\ Waiting
  /\ Opens(c) /\ c.from \in Older
  /\ verifying' = verifying \ {c}
  /\ GiveUp /\ retained' = {}
  /\ UNCHANGED <<clock, pinVars, task, runVars, heard, checked, replacing, rotatedIn,
                 shown, cancelled, relayVars, receiverVars>>

Lock(c) ==
  /\ c \in verifying /\ Waiting
  /\ Verified(c) /\ c.from \notin Older
  /\ verifying' = verifying \ {c}
  /\ settled' = "locked" /\ lockedTo' = c
  /\ epoch' = EpochAfterSettling
  /\ retained' = {}
  /\ UNCHANGED <<clock, pinVars, task, runVars, heard, checked, replacing, rotatedIn,
                 shown, cancelled, relayVars, receiverVars>>

Exhaustible(p) == TRUE                        \* mutant: the budget does not stop it
Replaceable(p) == budget[p] > 0

\* publishReplacement begins, unless the PIN has no budget or time left. (A
\* retired one has no secret to derive from.)
VerifyFails(c) ==
  LET p == c.run[1] IN
  /\ c \in verifying /\ Waiting
  /\ ~Verified(c) /\ ~(Opens(c) /\ c.from \in Older)
  /\ verifying' = verifying \ {c}
  /\ replacing' = IF Replaceable(p) /\ Active(mintedIn[p]) /\ p \in retained
                    THEN replacing \cup {[pin |-> p, epoch |-> epoch]}
                    ELSE replacing
  /\ UNCHANGED <<clock, pinVars, task, retained, runVars, heard, checked, epoch,
                 rotatedIn, shown, cancelled, outcomeVars, relayVars, receiverVars>>

Abandoned(t) == cancelled                     \* mutant: the epoch is not looked at
Stale(t) == cancelled \/ t.epoch # epoch \/ t.pin \notin retained

Claimed(p) == live' = [live EXCEPT ![p] = runs[p] + 1]

\* The replacement is registered, and published; whether a relay took it changes
\* nothing here.
Replace(t) ==
  LET p == t.pin IN
  /\ t \in replacing
  /\ replacing' = replacing \ {t}
  /\ IF Stale(t)
       THEN UNCHANGED <<live, runs, events>>
       ELSE /\ Claimed(p)
            /\ runs' = [runs EXCEPT ![p] = @ + 1]
            /\ Announce(p, runs[p] + 1)
  /\ UNCHANGED <<clock, pinVars, task, retained, budget, claimVars, epoch, rotatedIn,
                 shown, cancelled, outcomeVars, claims, confirms, receiverVars>>

-----------------------------------------------------------------------------
(* Sender: ends *)

Cancel ==
  /\ Impatient /\ ~cancelled
  /\ cancelled' = TRUE
  /\ UNCHANGED <<clock, pinVars, task, retained, runVars, claimVars, replacing, epoch,
                 rotatedIn, shown, outcomeVars, relayVars, receiverVars>>

\* PIN_WAIT_TIMEOUT_MS, or the poll that notices a cancel.
WaitEnds ==
  /\ settled = "open"
  /\ cancelled \/ Impatient
  /\ GiveUp
  /\ UNCHANGED <<clock, pinVars, task, retained, runVars, claimVars, replacing,
                 rotatedIn, shown, cancelled, relayVars, receiverVars>>

KeepAll == UNCHANGED retained                 \* mutant: close() only gives up
RetireAll == retained' = {}

\* close(): the caller's way out of every failure.
Close ==
  /\ cancelled \/ settled = "failed"
  /\ settled = "open" \/ retained # {}
  /\ GiveUp /\ RetireAll
  /\ UNCHANGED <<clock, pinVars, task, runVars, claimVars, replacing, rotatedIn,
                 shown, cancelled, relayVars, receiverVars>>

\* confirmPinClaim: the caller answers the claim, if it may.
Confirm ==
  /\ settled = "locked" /\ ~cancelled
  /\ \/ settled' = "confirmed" /\ confirms' = confirms \cup {lockedTo}
     \/ Lossy /\ settled' = "failed" /\ confirms' \in {confirms, confirms \cup {lockedTo}}
  /\ UNCHANGED <<clock, pinVars, task, retained, runVars, claimVars, replacing, epoch,
                 rotatedIn, shown, cancelled, lockedTo, events, claims, receiverVars>>

Tick ==
  /\ clock < MaxBucket
  /\ clock' = clock + 1
  /\ UNCHANGED <<pinVars, task, retained, runVars, claimVars, replacing, epoch,
                 rotatedIn, shown, cancelled, outcomeVars, relayVars, receiverVars>>

senderVars == <<pinVars, task, retained, runVars, claimVars, replacing, epoch,
                rotatedIn, shown, cancelled, outcomeVars>>

-----------------------------------------------------------------------------
(* Receivers *)

\* A person is told the PIN on screen, and types it some time later.
ReadPin(r) ==
  /\ rPhase[r] = "idle" /\ shown # 0
  /\ rPhase' = [rPhase EXCEPT ![r] = "typing"]
  /\ rPin' = [rPin EXCEPT ![r] = shown]
  /\ UNCHANGED <<clock, senderVars, relayVars, rHint, rClaims, rWon>>

\* A claim for an element goes out; relays may drop it.
Send(r, run) ==
  /\ rClaims' = [rClaims EXCEPT ![r] = @ \cup {run}]
  /\ \/ claims' = claims \cup {[from |-> r, run |-> run]}
     \/ Lossy /\ UNCHANGED claims

\* The events a lookup finds: the hint names the PIN and the bucket it was minted
\* in; the event's own time must be one the sender still honours.
Found(r, hint) ==
  {e \in events : /\ e.run[1] = rPin[r]
                  /\ mintedIn[e.run[1]] \in {hint, hint - 1}
                  /\ Active(e.bucket)}

\* claimPin: one of the transfer's elements is claimed. (Which is the newest
\* goes by the second they were made in.)
Search(r) ==
  /\ rPhase[r] = "typing"
  /\ rHint' = [rHint EXCEPT ![r] = clock]
  /\ \/ /\ \E e \in Found(r, clock) : Send(r, e.run)
        /\ rPhase' = [rPhase EXCEPT ![r] = "claiming"]
     \/ /\ Lossy \/ Found(r, clock) = {}
        /\ rPhase' = [rPhase EXCEPT ![r] = "failed"]
        /\ UNCHANGED <<rClaims, claims>>
  /\ UNCHANGED <<clock, senderVars, events, confirms, rPin, rWon>>

FirstOnly(r) == FALSE                         \* mutant: no element is claimed again
MayClaim(r) == Cardinality(rClaims[r]) < Attempts

\* processReplacement: any other element of the same sender is claimed too.
HearElement(r) ==
  /\ rPhase[r] = "claiming" /\ MayClaim(r)
  /\ \E e \in Found(r, rHint[r]) : e.run \notin rClaims[r] /\ Send(r, e.run)
  /\ UNCHANGED <<clock, senderVars, events, confirms, rPhase, rPin, rHint, rWon>>

FirstOfMine(r, c) ==                          \* mutant: only the first claim's session
  c.from = r /\ \A run \in rClaims[r] : c.run[2] <= run[2]
SealedFor(r, c) == c.from = r /\ c.run \in rClaims[r]

\* A confirm opens under the session of one of this receiver's claims.
ConfirmArrives(r) ==
  /\ rPhase[r] = "claiming"
  /\ \E c \in confirms : SealedFor(r, c) /\ rWon' = [rWon EXCEPT ![r] = c.run]
  /\ rPhase' = [rPhase EXCEPT ![r] = "won"]
  /\ UNCHANGED <<clock, senderVars, relayVars, rPin, rHint, rClaims>>

\* CONFIRM_TIMEOUT_MS, a cancel, or a claim no relay took.
ReceiverStops(r) ==
  /\ Impatient /\ rPhase[r] \in {"typing", "claiming"}
  /\ rPhase' = [rPhase EXCEPT ![r] = "failed"]
  /\ UNCHANGED <<clock, senderVars, relayVars, rPin, rHint, rClaims, rWon>>

-----------------------------------------------------------------------------
(* Specification *)

\* The first publishRendezvous begins with the rendezvous.
Init ==
  /\ clock = 0 /\ minted = 1
  /\ mintedIn = [p \in Pin |-> 0] /\ mintedEpoch = [p \in Pin |-> 0]
  /\ task = [p \in Pin |-> IF p = 1 THEN "deriving" ELSE "none"]
  /\ cause = [p \in Pin |-> "first"]
  /\ retained = {} /\ live = [p \in Pin |-> 0] /\ runs = [p \in Pin |-> 0]
  /\ budget = [p \in Pin |-> Limit]
  /\ verifying = {} /\ replacing = {} /\ heard = {} /\ checked = {}
  /\ epoch = 0 /\ rotatedIn = 0 /\ shown = 0 /\ cancelled = FALSE
  /\ settled = "open" /\ lockedTo = NoClaim
  /\ events = {} /\ claims = {} /\ confirms = {}
  /\ rPhase = [r \in Receiver |-> "idle"] /\ rPin = [r \in Receiver |-> 0]
  /\ rHint = [r \in Receiver |-> 0] /\ rClaims = [r \in Receiver |-> {}]
  /\ rWon = [r \in Receiver |-> NoRun]

Publishing ==
  \/ Rotate \/ Refresh
  \/ \E p \in Pin : Register(p) \/ Published(p) \/ PublishRefused(p)

Verifying ==
  \/ \E c \in claims : ClaimArrives(c)
  \/ \E c \in verifying :
       VerifyDropped(c) \/ VerifyRefused(c) \/ Lock(c) \/ VerifyFails(c)
  \/ \E t \in replacing : Replace(t)

Ending == Cancel \/ WaitEnds \/ Close \/ Confirm

Receiving ==
  \E r \in Receiver :
    \/ ReadPin(r) \/ Search(r) \/ HearElement(r) \/ ConfirmArrives(r)
    \/ ReceiverStops(r)

\* The sender's wait is over and nothing of it is left; the receivers have ended.
Over ==
  /\ settled # "open" /\ retained = {} /\ verifying = {} /\ replacing = {}
  /\ \A p \in Pin : task[p] = "none"
  /\ \A r \in Receiver : rPhase[r] \in {"idle", "won", "failed"}
  /\ UNCHANGED vars

Next == Publishing \/ Verifying \/ Ending \/ Tick \/ Receiving \/ Over

Spec == Init /\ [][Next]_vars

\* What was begun goes on; publishes settle, relays deliver, and those who wait
\* for a PIN type it. Nobody has to refresh or cancel.
Fairness ==
  /\ \A p \in Pin : WF_vars(Register(p)) /\ WF_vars(Published(p) \/ PublishRefused(p))
  /\ WF_vars(Verifying) /\ WF_vars(cancelled /\ WaitEnds) /\ WF_vars(Close)
  /\ WF_vars(Confirm)
  /\ \A r \in Receiver :
       WF_vars(Search(r)) /\ WF_vars(HearElement(r)) /\ WF_vars(ConfirmArrives(r))
FairSpec == Spec /\ Fairness

-----------------------------------------------------------------------------
(* Properties *)

\* Every variable holds values of its kind.
PinsTypeOK ==
  /\ clock \in Bucket /\ minted \in Pin
  /\ mintedIn \in [Pin -> Bucket] /\ mintedEpoch \in [Pin -> Nat]
  /\ task \in [Pin -> {"none", "deriving", "publishing"}]
  /\ cause \in [Pin -> {"first", "rotation", "refresh"}]
  /\ live \in [Pin -> Nat] /\ runs \in [Pin -> Nat] /\ budget \in [Pin -> 0 .. Limit]
WaitTypeOK ==
  /\ retained \subseteq Pin
  /\ verifying \subseteq Claim /\ heard \subseteq Claim /\ checked \subseteq Claim
  /\ replacing \subseteq [pin : Pin, epoch : Nat]
  /\ epoch \in Nat /\ rotatedIn \in Bucket /\ shown \in 0 .. MaxPins
  /\ cancelled \in BOOLEAN
  /\ settled \in {"open", "locked", "confirmed", "failed"}
  /\ lockedTo \in Claim \cup {NoClaim}
PeersTypeOK ==
  /\ events \subseteq [run : Run, bucket : Bucket]
  /\ claims \subseteq Claim /\ confirms \subseteq Claim
  /\ rPhase \in [Receiver -> {"idle", "typing", "claiming", "won", "failed"}]
  /\ rPin \in [Receiver -> 0 .. MaxPins] /\ rHint \in [Receiver -> Bucket]
  /\ rClaims \in [Receiver -> SUBSET Run]
  /\ rWon \in [Receiver -> Run \cup {NoRun}]
TypeOK == PinsTypeOK /\ WaitTypeOK /\ PeersTypeOK

\* An element is verified against at most one claim, however many name it at once
\* and whatever publishes, retirements and other claims happen during the wait.
SingleUse == \A a, b \in checked : a.run = b.run => a = b

\* A PIN's budget counts every verification ever begun against it, and no more
\* elements are published for it than it may have verifications.
GuessesMetered ==
  \A p \in Pin :
    /\ budget[p] = Limit - Cardinality({c \in checked : c.run[1] = p})
    /\ runs[p] <= Limit

\* While the wait is open, a claim is honoured only for a PIN minted since the last
\* refresh: one that was being derived when the refresh came is not registered.
RetainedAreCurrent ==
  settled = "open" => \A p \in retained : mintedEpoch[p] = epoch

\* A receiver that was confirmed is the one the sender locked, by the same
\* element; nobody else was confirmed.
Agreement ==
  \A r \in Receiver :
    rPhase[r] = "won" => lockedTo = [from |-> r, run |-> rWon[r]]

\* A PIN that comes on screen is one whose claims are honoured, unless it expired
\* while it was published; a refresh during the publish keeps it off.
ShownIsHonoured ==
  [][shown' # shown => shown' \in retained' \/ ~Active(mintedIn[shown'])]_vars

\* The transfer is locked only to a claim whose PIN is still active when its
\* verification ends, however long ago it arrived.
LockedInTime ==
  [][lockedTo' # lockedTo => Active(mintedIn[lockedTo'.run[1]])]_vars

\* Once the wait has ended, whatever was in flight registers and publishes nothing
\* more.
NothingAfterwards ==
  [][settled # "open" => retained' \subseteq retained /\ events' = events]_vars

\* When the wait has ended, every PAKE secret is wiped for good.
EventuallyWiped ==
  settled # "open" ~> [](retained = {} /\ \A p \in Pin : task[p] = "none")

\* A receiver with the right PIN is not left waiting by claims made with wrong ones:
\* it stops by itself, the wait ends, or the PIN has run out of time, budget or
\* attempts.
HonestIsServed ==
  \A r \in Receiver \ Mistyped, p \in Pin :
    rPhase[r] = "claiming" /\ rPin[r] = p ~>
      \/ settled # "open" \/ budget[p] = 0 \/ rPhase[r] # "claiming"
      \/ ~Active(mintedIn[p]) \/ Cardinality(rClaims[r]) >= Attempts

\* A lock ends with its receiver knowing, unless one of the two stops or fails.
LockedLearns ==
  \A r \in Receiver : settled = "locked" /\ lockedTo.from = r ~>
    rPhase[r] \in {"won", "failed"} \/ settled = "failed" \/ cancelled

===============================================================================
