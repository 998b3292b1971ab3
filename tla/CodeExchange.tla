------------------------------ MODULE CodeExchange ------------------------------
(***************************************************************************)
(* Code Exchange after the offer: the receiver answers it, the sender is       *)
(* handed an answer by a person, both try a direct connection, and when none   *)
(* opens both go over to the fallback the offer named (completeSend,           *)
(* buildDirectAttempt, receiveOverFallback, the loop of use-code-receive).     *)
(* The receiver may flip the simulation switch, which trades the direct        *)
(* attempt for a dead route and back; both may cancel; the receiver may start  *)
(* again while its cancelled receive still unwinds.                            *)
(*                                                                          *)
(* Abstractions.                                                            *)
(*  - One offer, which every receive is given.  Keys are numbered: those of    *)
(*    one answer's key pair, and of the relay session derived from them.       *)
(*  - Which of the two fallbacks an offer names matters here only in where the *)
(*    receiver has the file at the end, in memory or in storage.               *)
(*  - The transfers themselves end, well or badly (DirectTransfer, LiveRelay). *)
(*  - The hour that a session lives ends for the sender like a cancel: the     *)
(*    timer sets the same flag and tears down the same things.                 *)
(***************************************************************************)
EXTENDS Integers, Sequences, FiniteSets

CONSTANTS
  Runs,         \* bound: receives started
  Flips         \* bound: flips of the simulation switch

ASSUME CodeExchangeAssumption ==
  Runs \in Nat \ {0} /\ Flips \in Nat

VARIABLES
  \* The offer
  named,      \* whether it names a fallback, over relays or over Tor
  fits,       \* whether the file is small enough for one
  \* Sender
  sPhase,
  sCancelled,
  sAnswer,    \* the answer it was handed
  sKeys,      \* relaySession.keyBytes: "none", "held", "owned", "wiped"
  sWhy,       \* what ended its direct attempt
  watching,   \* whether the hello watch is open
  sRtc,       \* whether its peer connection is open
  \* Between them
  answers,    \* answers that were on screen
  hellos,     \* keys whose session has a hello on the relays
  linked,     \* attempt whose channel has come up
  \* Receiver: shared by its runs
  curRun, rCancelled, receiving, flips,
  rtcRef, sinkRef,  \* attempts whose connection and storage are in the refs
  attempts,   \* connections and sinks created
  keysMade,
  \* Receiver: per run
  rPhase, rKeys, rAttempt, simulate,
  switched    \* switchedTo # null

senderVars == <<sPhase, sCancelled, sAnswer, sKeys, sWhy, watching, sRtc>>
refVars == <<curRun, rCancelled, receiving, flips, rtcRef, sinkRef, attempts, keysMade>>
runVars == <<rPhase, rKeys, rAttempt, simulate, switched>>
vars == <<named, fits, senderVars, answers, hellos, linked, refVars, runVars>>

Run == 1 .. Runs

Init ==
  /\ named \in BOOLEAN /\ fits \in BOOLEAN /\ (~named => fits)
  /\ sPhase = "showing" /\ sCancelled = FALSE /\ sAnswer = 0 /\ sKeys = "none"
  /\ sWhy = "none" /\ watching = FALSE /\ sRtc = TRUE
  /\ answers = <<>> /\ hellos = {} /\ linked = 0
  /\ curRun = 0 /\ rCancelled = FALSE /\ receiving = FALSE /\ flips = 0
  /\ rtcRef = 0 /\ sinkRef = 0 /\ attempts = <<>> /\ keysMade = 0
  /\ rPhase = [n \in Run |-> "idle"] /\ rKeys = [n \in Run |-> 0]
  /\ rAttempt = [n \in Run |-> 0] /\ simulate = [n \in Run |-> FALSE]
  /\ switched = [n \in Run |-> FALSE]

-----------------------------------------------------------------------------
(* The sender *)

SenderEnds == sPhase' = "ended" /\ sRtc' = FALSE /\ watching' = FALSE

AnswerAccepted ==
  /\ sPhase = "showing" /\ sAnswer' \in DOMAIN answers /\ sPhase' = "deriving"
  /\ UNCHANGED <<named, fits, sCancelled, sKeys, sWhy, watching, sRtc, answers, hellos,
                 linked, refVars, runVars>>

\* With a fallback, its session is derived now and its relays are watched.  A sender
\* that was cancelled has no pool left, or notices once the session is there.
Derived ==
  /\ sPhase = "deriving"
  /\ IF ~named \/ sCancelled
       THEN sPhase' = "connecting" /\ UNCHANGED sKeys
       ELSE sPhase' = "session" /\ sKeys' = "held"
  /\ UNCHANGED <<named, fits, sCancelled, sAnswer, sWhy, watching, sRtc, answers, hellos,
                 linked, refVars, runVars>>
SessionDerived ==
  /\ sPhase = "session"
  /\ IF sCancelled
       THEN sKeys' = "wiped" /\ SenderEnds
       ELSE sPhase' = "connecting" /\ watching' = TRUE /\ UNCHANGED <<sKeys, sRtc>>
  /\ UNCHANGED <<named, fits, sCancelled, sAnswer, sWhy, answers, hellos, linked,
                 refVars, runVars>>

Answer == answers[sAnswer]
Connected == Answer.attempt # 0 /\ linked = Answer.attempt

\* The channel of the answered attempt comes up; each side is told in its own time.
LinkUp ==
  /\ sPhase = "connecting" /\ sRtc /\ Answer.attempt # 0 /\ linked = 0
  /\ attempts[Answer.attempt].rtc = "open" /\ linked' = Answer.attempt
  /\ UNCHANGED <<named, fits, senderVars, answers, hellos, refVars, runVars>>

DirectOpens ==
  /\ sPhase = "connecting" /\ Connected
  /\ sKeys' = IF sKeys = "held" THEN "wiped" ELSE sKeys
  /\ \/ ~sCancelled /\ sPhase' = "direct" /\ watching' = FALSE /\ UNCHANGED sRtc
     \/ SenderEnds  \* cancelled, or the session has expired
  /\ UNCHANGED <<named, fits, sCancelled, sAnswer, sWhy, answers, hellos, linked,
                 refVars, runVars>>

\* mutant: with a fallback, only the receiver's hello ends the direct attempt
OnlyOnHello(why) ==
  IF sKeys = "held" THEN why = "hello" /\ watching /\ Answer.keys \in hellos
                    ELSE why \in {"timeout", "failed"}
\* What rejects waitForDataChannel.
GivesUpOn(why) ==
  \/ why \in {"timeout", "failed"}
  \/ why = "hello" /\ watching /\ Answer.keys \in hellos

GivesUp(why) ==
  /\ sPhase = "connecting" /\ GivesUpOn(why) /\ sWhy' = why
  /\ IF sKeys = "held" /\ ~sCancelled /\ fits
       THEN sPhase' = "preparing" /\ sRtc' = FALSE /\ watching' = FALSE /\ UNCHANGED sKeys
       ELSE SenderEnds /\ sKeys' = IF sKeys = "held" THEN "wiped" ELSE sKeys
  /\ UNCHANGED <<named, fits, sCancelled, sAnswer, answers, hellos, linked, refVars,
                 runVars>>

\* The file is read into memory, or the Tor client comes up, and then the session is
\* owned by the transfer that uses it.
Prepared ==
  /\ sPhase = "preparing" /\ ~sCancelled /\ sPhase' = "relaying" /\ sKeys' = "owned"
  /\ UNCHANGED <<named, fits, sCancelled, sAnswer, sWhy, watching, sRtc, answers, hellos,
                 linked, refVars, runVars>>
\* mutant: the session is left to a transfer that never starts
NotPreparedKept ==
  /\ sPhase = "preparing" /\ SenderEnds /\ UNCHANGED sKeys
  /\ UNCHANGED <<named, fits, sCancelled, sAnswer, sWhy, answers, hellos, linked,
                 refVars, runVars>>
NotPrepared ==
  /\ sPhase = "preparing" /\ SenderEnds /\ sKeys' = "wiped"
  /\ UNCHANGED <<named, fits, sCancelled, sAnswer, sWhy, answers, hellos, linked,
                 refVars, runVars>>
RelayingEnds ==
  /\ sPhase = "relaying" /\ SenderEnds /\ sKeys' = "wiped"
  /\ UNCHANGED <<named, fits, sCancelled, sAnswer, sWhy, answers, hellos, linked,
                 refVars, runVars>>

\* Sent, and lingering until the receiver hangs up, or failed.
DirectEnds ==
  /\ sPhase = "direct" /\ SenderEnds
  /\ UNCHANGED <<named, fits, sCancelled, sAnswer, sKeys, sWhy, answers, hellos, linked,
                 refVars, runVars>>

\* The user cancels, or the session expires.
SenderCancels ==
  /\ sPhase # "ended" /\ ~sCancelled /\ sCancelled' = TRUE /\ sRtc' = FALSE
  /\ watching' = FALSE /\ sPhase' = IF sPhase = "showing" THEN "ended" ELSE sPhase
  /\ UNCHANGED <<named, fits, sAnswer, sKeys, sWhy, answers, hellos, linked, refVars,
                 runVars>>

-----------------------------------------------------------------------------
(* The receiver's connections and sinks, and how a run ends *)

\* The relays of the fallback could carry the file.
Eligible == named /\ fits

Abandoned(n) == rCancelled \/ curRun # n

\* A connection is closed by its own receive or by the person, or is "taken": closed by
\* an earlier receive that was still at work.
HungUpAs(how, at, a) == IF a = 0 THEN at ELSE [at EXCEPT ![a].rtc = how]
HungUp(at, a) == HungUpAs("closed", at, a)
Discarded(at, a) == IF a = 0 THEN at ELSE [at EXCEPT ![a].sink = "discarded"]
Without(ref, a) == IF ref = a THEN 0 ELSE ref

\* attempt.dispose, which also clears the refs that hold the attempt.
Disposed(at, a) == HungUp(Discarded(at, a), a)

\* A run ends in the `finally` of doReceive, which closes the connection in the ref
\* unless a newer run is in charge; `at`, `rtc` and `sink` are what the return leaves.
\* What the run itself kept goes with it.
Returns(n, at, rtc, sink) ==
  /\ rPhase' = [rPhase EXCEPT ![n] = "ended"] /\ sinkRef' = sink
  /\ IF curRun = n
       THEN receiving' = FALSE /\ attempts' = HungUp(at, rtc) /\ rtcRef' = 0
       ELSE attempts' = at /\ rtcRef' = rtc /\ UNCHANGED receiving
  /\ rKeys' = [rKeys EXCEPT ![n] = 0] /\ rAttempt' = [rAttempt EXCEPT ![n] = 0]
  /\ simulate' = [simulate EXCEPT ![n] = FALSE]
  /\ switched' = [switched EXCEPT ![n] = FALSE]
  /\ UNCHANGED <<curRun, rCancelled, flips>>
\* mutant: the failure of a superseded run discards what the new one stores
ThrowsAnyway(n, at, rtc, sink) == Returns(n, Discarded(at, sink), rtc, 0)
Throws(n, at, rtc, sink) ==
  IF Abandoned(n) THEN Returns(n, at, rtc, sink)
                  ELSE Returns(n, Discarded(at, sink), rtc, 0)

ReturnsAsIs(n) == Returns(n, attempts, rtcRef, sinkRef)
ThrowsAsIs(n) == Throws(n, attempts, rtcRef, sinkRef)
ReturnsDisposed(n) == Returns(n, Disposed(attempts, rAttempt[n]),
                              Without(rtcRef, rAttempt[n]), Without(sinkRef, rAttempt[n]))
ThrowsDisposed(n) == Throws(n, Disposed(attempts, rAttempt[n]),
                            Without(rtcRef, rAttempt[n]), Without(sinkRef, rAttempt[n]))

\* The attempt of this stint is disposed and the receive goes on.
Moves(n, phase, sim) ==
  /\ rPhase' = [rPhase EXCEPT ![n] = phase] /\ simulate' = [simulate EXCEPT ![n] = sim]
  /\ switched' = [switched EXCEPT ![n] = FALSE]
  /\ UNCHANGED <<curRun, rCancelled, receiving, flips, rKeys, rAttempt>>
MovesDisposed(n, phase, sim) ==
  /\ Moves(n, phase, sim) /\ attempts' = Disposed(attempts, rAttempt[n])
  /\ rtcRef' = Without(rtcRef, rAttempt[n]) /\ sinkRef' = Without(sinkRef, rAttempt[n])
Stays == UNCHANGED <<attempts, rtcRef, sinkRef>>

-----------------------------------------------------------------------------
(* The receiver: the person *)

Elsewhere == UNCHANGED <<named, fits, senderVars, linked>>

\* Whatever the last receive stored is gone.
StartReceive ==
  /\ ~receiving /\ curRun < Runs
  /\ receiving' = TRUE /\ rCancelled' = FALSE /\ curRun' = curRun + 1
  /\ attempts' = Discarded(attempts, sinkRef) /\ sinkRef' = 0
  /\ rPhase' = [rPhase EXCEPT ![curRun + 1] = "offer"]
  /\ UNCHANGED <<answers, hellos, flips, rtcRef, keysMade, rKeys, rAttempt, simulate,
                 switched>>
  /\ Elsewhere

\* A receive that still waits for its offer ends at once; any other finds out.
Cancel ==
  /\ receiving /\ receiving' = FALSE /\ rCancelled' = TRUE
  /\ attempts' = HungUp(Discarded(attempts, sinkRef), rtcRef)
  /\ rtcRef' = 0 /\ sinkRef' = 0
  /\ rPhase' = [rPhase EXCEPT ![curRun] = IF @ = "offer" THEN "ended" ELSE @]
  /\ UNCHANGED <<answers, hellos, curRun, flips, keysMade, rKeys, rAttempt, simulate,
                 switched>>
  /\ Elsewhere

\* The switch is on the response page, when the fallback could carry the file.
Switchable(n) ==
  /\ curRun = n /\ ~rCancelled /\ Eligible /\ ~switched[n]
  /\ \/ rPhase[n] \in {"storing", "answer", "waiting", "simulating"}
     \/ rPhase[n] = "fallback" /\ simulate[n]
Flip(n) ==
  /\ Switchable(n) /\ flips < Flips /\ flips' = flips + 1
  /\ switched' = [switched EXCEPT ![n] = TRUE]
  /\ UNCHANGED <<answers, hellos, curRun, rCancelled, receiving, keysMade, rPhase,
                 rKeys, rAttempt, simulate>>
  /\ Stays /\ Elsewhere

-----------------------------------------------------------------------------
(* The receiver: keys and the direct attempt *)

OfferRead(n) ==
  /\ rPhase[n] = "offer" /\ rPhase' = [rPhase EXCEPT ![n] = "keys"]
  /\ UNCHANGED <<answers, hellos, curRun, rCancelled, receiving, flips, keysMade, rKeys,
                 rAttempt, simulate, switched>>
  /\ Stays /\ Elsewhere

\* mutant: the attempt after a simulated one answers with the same keys
KeptKeys(n) == IF rPhase[n] = "renewing" THEN rKeys[n] ELSE keysMade + 1
\* deriveAnswerKeys: a new key pair, and so a relay session with no history.
NewKeys(n) == keysMade + 1

KeysReady(n) ==
  /\ rPhase[n] \in {"keys", "renewing"} /\ keysMade' = keysMade + 1
  /\ IF Abandoned(n)
       THEN ReturnsAsIs(n)
       ELSE /\ rKeys' = [rKeys EXCEPT ![n] = NewKeys(n)]
            /\ rPhase' = [rPhase EXCEPT ![n] = "storing"]
            /\ simulate' = [simulate EXCEPT ![n] = FALSE]
            /\ switched' = [switched EXCEPT ![n] = FALSE]
            /\ Stays /\ UNCHANGED <<curRun, rCancelled, receiving, flips, rAttempt>>
  /\ UNCHANGED <<answers, hellos>> /\ Elsewhere

\* The storage is there, and with it the connection that answers the offer.
SinkCreated(n) ==
  /\ rPhase[n] = "storing"
  /\ IF Abandoned(n)
       THEN Returns(n, Append(attempts, [rtc |-> "closed", sink |-> "discarded"]),
                    rtcRef, sinkRef)
       ELSE /\ attempts' = Append(attempts, [rtc |-> "open", sink |-> "open"])
            /\ rtcRef' = Len(attempts') /\ sinkRef' = Len(attempts')
            /\ rAttempt' = [rAttempt EXCEPT ![n] = Len(attempts')]
            /\ rPhase' = [rPhase EXCEPT ![n] = "answer"]
            /\ UNCHANGED <<curRun, rCancelled, receiving, flips, rKeys, simulate, switched>>
  /\ UNCHANGED <<answers, hellos, keysMade>> /\ Elsewhere

Shows(n, attempt) == answers' = Append(answers, [attempt |-> attempt, keys |-> rKeys[n]])

\* The answer is signed, and on screen unless the run is over or the switch flipped.
AnswerBuilt(n) ==
  /\ rPhase[n] = "answer"
  /\ \/ Abandoned(n) /\ ReturnsDisposed(n) /\ UNCHANGED answers
     \/ ~Abandoned(n) /\ switched[n] /\ MovesDisposed(n, "simulating", TRUE)
        /\ UNCHANGED answers
     \/ /\ ~Abandoned(n) /\ ~switched[n] /\ Shows(n, rAttempt[n])
        /\ rPhase' = [rPhase EXCEPT ![n] = "waiting"]
        /\ Stays /\ UNCHANGED <<curRun, rCancelled, receiving, flips, rKeys, rAttempt,
                                simulate, switched>>
  /\ UNCHANGED <<hellos, keysMade>> /\ Elsewhere

BuildFails(n) ==
  /\ rPhase[n] = "answer" /\ ThrowsDisposed(n)
  /\ UNCHANGED <<answers, hellos, keysMade>> /\ Elsewhere

\* The route died, or was given up for the switch.
AttemptEnds(n) ==
  /\ rPhase[n] = "waiting"
  /\ \/ ~Abandoned(n) /\ switched[n] /\ MovesDisposed(n, "simulating", TRUE)
     \/ ~Abandoned(n) /\ ~switched[n] /\ Eligible /\ MovesDisposed(n, "fallback", FALSE)
     \/ (Abandoned(n) \/ ~Eligible) /\ ThrowsDisposed(n)
  /\ UNCHANGED <<answers, hellos, keysMade>> /\ Elsewhere

ChannelOpens(n) ==
  /\ rPhase[n] = "waiting" /\ linked = rAttempt[n] /\ ~switched[n]
  /\ IF Abandoned(n) THEN ReturnsAsIs(n)
                     ELSE Moves(n, "direct", FALSE) /\ Stays
  /\ UNCHANGED <<answers, hellos, keysMade>> /\ Elsewhere

\* The last bytes were stored before the poll for a cancel came round.  Whatever
\* connection the ref holds is hung up, a newer receive's too.
DirectDone(n) ==
  /\ rPhase[n] = "direct"
  /\ LET how == IF curRun = n THEN "closed" ELSE "taken"
     IN Returns(n, HungUpAs(how, attempts, rtcRef), 0, sinkRef)
  /\ UNCHANGED <<answers, hellos, keysMade>> /\ Elsewhere
DirectFails(n) ==
  /\ rPhase[n] = "direct" /\ ThrowsAsIs(n)
  /\ UNCHANGED <<answers, hellos, keysMade>> /\ Elsewhere

-----------------------------------------------------------------------------
(* The receiver: the simulated dead route and the fallback *)

SimulatedAnswer(n) ==
  /\ rPhase[n] = "simulating"
  /\ \/ Abandoned(n) /\ ReturnsAsIs(n) /\ UNCHANGED answers
     \/ ~Abandoned(n) /\ switched[n] /\ Moves(n, "storing", FALSE) /\ Stays
        /\ UNCHANGED answers
     \/ ~Abandoned(n) /\ ~switched[n] /\ Moves(n, "fallback", TRUE) /\ Stays
        /\ Shows(n, 0)
  /\ UNCHANGED <<hellos, keysMade>> /\ Elsewhere

\* Sealed under the session of this answer's keys, and kept by the relays.
SayHello(n) ==
  /\ rPhase[n] = "fallback" /\ rKeys[n] \notin hellos /\ hellos' = hellos \cup {rKeys[n]}
  /\ UNCHANGED <<answers, refVars, runVars>> /\ Elsewhere

FallbackSwitched(n) ==
  /\ rPhase[n] = "fallback" /\ simulate[n] /\ switched[n] /\ Moves(n, "renewing", TRUE)
  /\ UNCHANGED <<answers, hellos, keysMade>> /\ Stays /\ Elsewhere

\* Over Tor the file is stored like a direct receive's, over relays it is in memory.
FallbackDelivers(n) ==
  /\ rPhase[n] = "fallback"
  /\ \/ ReturnsAsIs(n)
     \/ LET sink == IF Abandoned(n) THEN "discarded" ELSE "open"
            at == Append(attempts, [rtc |-> "closed", sink |-> sink])
        IN Returns(n, at, rtcRef, IF Abandoned(n) THEN sinkRef ELSE Len(at))
  /\ UNCHANGED <<answers, hellos, keysMade>> /\ Elsewhere
FallbackFails(n) ==
  /\ rPhase[n] = "fallback" /\ ThrowsAsIs(n)
  /\ UNCHANGED <<answers, hellos, keysMade>> /\ Elsewhere

-----------------------------------------------------------------------------
(* Specification *)

\* What the programs do by themselves once their people have done their part.
SenderStep ==
  \/ Derived \/ SessionDerived \/ DirectOpens
  \/ GivesUp("timeout") \/ GivesUp("failed") \/ GivesUp("hello")
  \/ Prepared \/ NotPrepared \/ RelayingEnds \/ DirectEnds
ReceiverStep(n) ==
  \/ KeysReady(n) \/ SinkCreated(n) \/ AnswerBuilt(n) \/ BuildFails(n)
  \/ AttemptEnds(n) \/ ChannelOpens(n) \/ DirectDone(n) \/ DirectFails(n)
  \/ SimulatedAnswer(n) \/ FallbackSwitched(n) \/ FallbackDelivers(n) \/ FallbackFails(n)

Next ==
  \/ AnswerAccepted \/ Derived \/ SessionDerived \/ LinkUp \/ DirectOpens
  \/ \E why \in {"timeout", "failed", "hello"} : GivesUp(why)
  \/ Prepared \/ NotPrepared \/ RelayingEnds \/ DirectEnds \/ SenderCancels
  \/ StartReceive \/ Cancel
  \/ \E n \in Run : Flip(n)
  \/ \E n \in Run : OfferRead(n)
  \/ \E n \in Run : KeysReady(n)
  \/ \E n \in Run : SinkCreated(n)
  \/ \E n \in Run : AnswerBuilt(n)
  \/ \E n \in Run : BuildFails(n)
  \/ \E n \in Run : AttemptEnds(n)
  \/ \E n \in Run : ChannelOpens(n)
  \/ \E n \in Run : DirectDone(n)
  \/ \E n \in Run : DirectFails(n)
  \/ \E n \in Run : SimulatedAnswer(n)
  \/ \E n \in Run : SayHello(n)
  \/ \E n \in Run : FallbackSwitched(n)
  \/ \E n \in Run : FallbackDelivers(n)
  \/ \E n \in Run : FallbackFails(n)

Spec == Init /\ [][Next]_vars

\* Timers fire and awaited calls settle.  Nobody has to hand over a code, to flip the
\* switch or to cancel.
FairSpec ==
  Spec /\ WF_vars(SenderStep) /\ \A n \in Run : WF_vars(ReceiverStep(n))

-----------------------------------------------------------------------------
(* Properties *)

TypeOK ==
  /\ named \in BOOLEAN /\ fits \in BOOLEAN
  /\ sPhase \in {"showing", "deriving", "session", "connecting", "direct", "preparing",
                 "relaying", "ended"}
  /\ sCancelled \in BOOLEAN /\ sRtc \in BOOLEAN /\ watching \in BOOLEAN
  /\ sAnswer \in Nat /\ sKeys \in {"none", "held", "owned", "wiped"}
  /\ sWhy \in {"none", "timeout", "failed", "hello"}
  /\ answers \in Seq([attempt : Nat, keys : Nat]) /\ hellos \subseteq Nat
  /\ linked \in Nat /\ curRun \in 0 .. Runs /\ flips \in 0 .. Flips
  /\ rCancelled \in BOOLEAN /\ receiving \in BOOLEAN /\ rtcRef \in Nat /\ sinkRef \in Nat
  /\ attempts \in Seq([rtc : {"open", "closed", "taken"}, sink : {"open", "discarded"}])
  /\ keysMade \in Nat /\ rKeys \in [Run -> Nat] /\ rAttempt \in [Run -> Nat]
  /\ rPhase \in [Run -> {"idle", "offer", "keys", "storing", "answer", "waiting",
                         "direct", "simulating", "fallback", "renewing", "ended"}]
  /\ simulate \in [Run -> BOOLEAN] /\ switched \in [Run -> BOOLEAN]

\* A hello that makes the sender give up its direct attempt speaks of the answer the
\* sender holds: the connection that answer offered, if any, is gone.  The relays keep
\* a hello for the whole exchange, so one of an earlier stint must not reach an answer
\* built after it (the new keys of use-code-receive's loop).
HelloIsTrue ==
  sWhy = "hello" => Answer.attempt = 0 \/ attempts[Answer.attempt].rtc # "open"

\* However the exchange ends, for whichever of the two sides' reasons and wherever in
\* the hand-over to a fallback, the sender's session key does not outlive it
\* (wipeBufferSource in completeSend and its two fallbacks).
KeysWiped == sPhase = "ended" => sKeys \in {"none", "wiped"}

\* A connection or a storage file that is open is the one a ref holds, so a cancel, a
\* reset or the next receive can let go of it.  What the current receive stores is let go
\* of by no switch, failure or late step of a superseded receive, and its connection only
\* by one that stored its last bytes although it was cancelled, which empties the ref too.
InUse == {"answer", "waiting", "direct"}
NothingLeftBehind ==
  /\ \A a \in DOMAIN attempts : /\ attempts[a].sink = "open" => sinkRef = a
                                /\ attempts[a].rtc = "open" => rtcRef = a
  /\ \A n \in Run : ~Abandoned(n) /\ rPhase[n] \in InUse =>
       /\ sinkRef = rAttempt[n] /\ attempts[rAttempt[n]].sink = "open"
       /\ \/ rtcRef = rAttempt[n] /\ attempts[rAttempt[n]].rtc = "open"
          \/ rtcRef = 0 /\ attempts[rAttempt[n]].rtc = "taken"
  /\ ~receiving => rtcRef = 0

\* An exchange whose people have done their part ends on either side, on its own:
\* whatever the other side does, an answer taken in and an offer read lead to an end.
EverybodyEnds ==
  /\ sPhase = "deriving" ~> sPhase = "ended"
  /\ \A n \in Run : rPhase[n] = "keys" ~> rPhase[n] = "ended"

=============================================================================
