-------------------------- MODULE CodeExchangeProofs --------------------------
(* The sender's key, the receiver's connections and storage, and what a     *)
(* hello says, for any number of receives and flips of the switch.          *)
EXTENDS CodeExchange, TLAPS

(* The inductive invariant *)

Attempt == [rtc : {"open", "closed", "taken"}, sink : {"open", "discarded"}]
Shown == [attempt : Nat, keys : Nat]

\* Where a receive has no connection of its own, not yet or no longer.
Between == {"offer", "keys", "storing", "simulating", "fallback", "renewing"}
Keyless == {"idle", "offer", "keys", "ended"}

\* An attempt belongs to one receive, and refs and answers name attempts there are.
Attempts ==
  /\ rtcRef \in 0 .. Len(attempts) /\ sinkRef \in 0 .. Len(attempts)
  /\ \A n \in Run : rAttempt[n] \in 0 .. Len(attempts)
  /\ \A n \in Run : rPhase[n] \in InUse => rAttempt[n] # 0
  /\ \A n, m \in Run : rAttempt[n] = rAttempt[m] /\ rAttempt[n] # 0 => n = m
  /\ \A i \in 1 .. Len(answers) : answers[i].attempt \in 0 .. Len(attempts)

\* Keys belong to one receive, and a hello was said under them only past its attempt.
Keys ==
  /\ \A n \in Run : rKeys[n] \in 0 .. keysMade
  /\ \A n \in Run : rKeys[n] = 0 <=> rPhase[n] \in Keyless
  /\ \A n, m \in Run : rKeys[n] = rKeys[m] /\ rKeys[n] # 0 => n = m
  /\ \A i \in 1 .. Len(answers) : answers[i].keys \in 1 .. keysMade
  /\ hellos \subseteq 1 .. keysMade
  /\ \A n \in Run : rKeys[n] \in hellos => rPhase[n] \in {"fallback", "renewing"}

Closed(a) == attempts[a].rtc # "open"

\* Of the connections that answers under one receive's keys offered, only the one it
\* waits on may be open, and under keys with a hello none.
Answered ==
  /\ \A n \in Run : \A i \in 1 .. Len(answers) :
       rKeys[n] = answers[i].keys /\ answers[i].attempt # 0
         => \/ Closed(answers[i].attempt)
            \/ rPhase[n] \in {"waiting", "direct"} /\ answers[i].attempt = rAttempt[n]
  /\ \A i \in 1 .. Len(answers) :
       answers[i].keys \in hellos /\ answers[i].attempt # 0 => Closed(answers[i].attempt)

\* What the refs are to hold, if these were the attempts and the refs.  A connection in
\* use is missing only when an earlier receive took it away.
Kept(at, rtc, sink) ==
  /\ \A a \in 1 .. Len(at) : /\ at[a].sink = "open" => sink = a
                             /\ at[a].rtc = "open" => rtc = a
  /\ \A n \in Run : ~Abandoned(n) /\ rPhase[n] \in InUse =>
       /\ sink = rAttempt[n] /\ at[rAttempt[n]].sink = "open"
       /\ \/ rtc = rAttempt[n] /\ at[rAttempt[n]].rtc = "open"
          \/ rtc = 0 /\ at[rAttempt[n]].rtc = "taken"
  /\ \A n \in Run : ~Abandoned(n) /\ rPhase[n] \in Between => rtc = 0 /\ sink = 0
  /\ ~receiving => rtc = 0

\* A receive in charge is one that goes on; those to come have not begun.
InCharge ==
  /\ \A n \in Run : ~Abandoned(n) /\ rPhase[n] \notin {"idle", "ended"} => receiving
  /\ \A n \in Run : n > curRun => rPhase[n] = "idle"

ReceiverInv ==
  TypeOK /\ Attempts /\ Keys /\ Answered /\ Kept(attempts, rtcRef, sinkRef) /\ InCharge

\* The key is where the hand-over to a fallback has got it to.
KeyHeld ==
  /\ sPhase \in {"showing", "deriving"} => sKeys = "none"
  /\ sPhase \in {"session", "preparing"} => sKeys = "held"
  /\ sPhase = "connecting" => sKeys \in {"none", "held"}
  /\ sPhase = "relaying" => sKeys = "owned"
  /\ sPhase \in {"direct", "ended"} => sKeys \in {"none", "wiped"}

Told ==
  /\ sPhase \notin {"showing", "ended"} => sAnswer \in 1 .. Len(answers)
  /\ sPhase \in {"showing", "deriving", "session"} => sWhy = "none"
  /\ sWhy = "hello" => /\ sAnswer \in 1 .. Len(answers)
                       /\ Answer.attempt = 0 \/ Closed(Answer.attempt)

CInv == ReceiverInv /\ KeyHeld /\ Told

USE CodeExchangeAssumption

-----------------------------------------------------------------------------
(* Connections hung up and storage discarded *)

LEMMA HungUpAsFacts ==
  ASSUME NEW at \in Seq(Attempt), NEW a \in Nat, NEW how \in {"closed", "taken"}
  PROVE  /\ HungUpAs(how, at, a) \in Seq(Attempt) /\ Len(HungUpAs(how, at, a)) = Len(at)
         /\ \A i \in 1 .. Len(at) :
              /\ HungUpAs(how, at, a)[i].rtc = IF i = a THEN how ELSE at[i].rtc
              /\ HungUpAs(how, at, a)[i].sink = at[i].sink
<1>1. CASE a = 0
  BY <1>1 DEF HungUpAs
<1>2. CASE a # 0
  <2> DEFINE r == [at EXCEPT ![a].rtc = how]
  <2>1. HungUpAs(how, at, a) = r
    BY <1>2 DEF HungUpAs
  <2>2. \A i \in 1 .. Len(at) : at[i] \in Attempt
    OBVIOUS
  <2>3. DOMAIN r = 1 .. Len(at)
    OBVIOUS
  <2>4. \A i \in 1 .. Len(at) :
          r[i] = IF i = a THEN [at[i] EXCEPT !.rtc = how] ELSE at[i]
    OBVIOUS
  <2> HIDE DEF r
  <2>5. \A i \in 1 .. Len(at) : r[i] \in Attempt /\ r[i].sink = at[i].sink
                                /\ r[i].rtc = IF i = a THEN how ELSE at[i].rtc
    BY <2>2, <2>4 DEF Attempt
  <2>6. r \in Seq(Attempt) /\ Len(r) = Len(at)
    <3>1. r = [i \in 1 .. Len(at) |-> r[i]]
      BY <2>3, <2>4 DEF r
    <3> QED
      BY <2>3, <2>5, <3>1
  <2> QED
    BY <2>1, <2>5, <2>6
<1> QED
  BY <1>1, <1>2

LEMMA HungUpFacts ==
  ASSUME NEW at \in Seq(Attempt), NEW a \in Nat
  PROVE  /\ HungUp(at, a) \in Seq(Attempt) /\ Len(HungUp(at, a)) = Len(at)
         /\ \A i \in 1 .. Len(at) :
              /\ HungUp(at, a)[i].rtc = IF i = a THEN "closed" ELSE at[i].rtc
              /\ HungUp(at, a)[i].sink = at[i].sink
BY HungUpAsFacts DEF HungUp

LEMMA DiscardedFacts ==
  ASSUME NEW at \in Seq(Attempt), NEW a \in Nat
  PROVE  /\ Discarded(at, a) \in Seq(Attempt) /\ Len(Discarded(at, a)) = Len(at)
         /\ \A i \in 1 .. Len(at) :
              /\ Discarded(at, a)[i].sink = IF i = a THEN "discarded" ELSE at[i].sink
              /\ Discarded(at, a)[i].rtc = at[i].rtc
<1>1. CASE a = 0
  BY <1>1 DEF Discarded
<1>2. CASE a # 0
  <2> DEFINE r == [at EXCEPT ![a].sink = "discarded"]
  <2>1. Discarded(at, a) = r
    BY <1>2 DEF Discarded
  <2>2. \A i \in 1 .. Len(at) : at[i] \in Attempt
    OBVIOUS
  <2>3. DOMAIN r = 1 .. Len(at)
    OBVIOUS
  <2>4. \A i \in 1 .. Len(at) :
          r[i] = IF i = a THEN [at[i] EXCEPT !.sink = "discarded"] ELSE at[i]
    OBVIOUS
  <2> HIDE DEF r
  <2>5. \A i \in 1 .. Len(at) : r[i] \in Attempt /\ r[i].rtc = at[i].rtc
                                /\ r[i].sink = IF i = a THEN "discarded" ELSE at[i].sink
    BY <2>2, <2>4 DEF Attempt
  <2>6. r \in Seq(Attempt) /\ Len(r) = Len(at)
    <3>1. r = [i \in 1 .. Len(at) |-> r[i]]
      BY <2>3, <2>4 DEF r
    <3> QED
      BY <2>3, <2>5, <3>1
  <2> QED
    BY <2>1, <2>5, <2>6
<1> QED
  BY <1>1, <1>2

LEMMA DisposedFacts ==
  ASSUME NEW at \in Seq(Attempt), NEW a \in Nat
  PROVE  /\ Disposed(at, a) \in Seq(Attempt) /\ Len(Disposed(at, a)) = Len(at)
         /\ \A i \in 1 .. Len(at) :
              /\ Disposed(at, a)[i].sink = IF i = a THEN "discarded" ELSE at[i].sink
              /\ Disposed(at, a)[i].rtc = IF i = a THEN "closed" ELSE at[i].rtc
<1>1. /\ Discarded(at, a) \in Seq(Attempt) /\ Len(Discarded(at, a)) = Len(at)
      /\ \A i \in 1 .. Len(at) :
           /\ Discarded(at, a)[i].sink = IF i = a THEN "discarded" ELSE at[i].sink
           /\ Discarded(at, a)[i].rtc = at[i].rtc
  BY DiscardedFacts
<1>2. /\ Disposed(at, a) \in Seq(Attempt) /\ Len(Disposed(at, a)) = Len(Discarded(at, a))
      /\ \A i \in 1 .. Len(Discarded(at, a)) :
           /\ Disposed(at, a)[i].rtc = IF i = a THEN "closed" ELSE Discarded(at, a)[i].rtc
           /\ Disposed(at, a)[i].sink = Discarded(at, a)[i].sink
  BY <1>1, HungUpFacts DEF Disposed
<1> QED
  BY <1>1, <1>2

-----------------------------------------------------------------------------
(* The sender *)

\* The receiver's part does not look at the sender's.
LEMMA SenderApart ==
  ASSUME ReceiverInv, UNCHANGED <<answers, hellos, refVars, runVars>>, TypeOK'
  PROVE  ReceiverInv'
BY DEF refVars, runVars, ReceiverInv, Attempts, Keys, Answered, Kept, InCharge, Closed,
       Abandoned

SPhase == {"showing", "deriving", "session", "connecting", "direct", "preparing",
           "relaying", "ended"}

LEMMA SenderTypes ==
  ASSUME TypeOK, UNCHANGED <<answers, hellos, refVars, runVars, named, fits>>,
         sPhase' \in SPhase, sCancelled' \in BOOLEAN, sRtc' \in BOOLEAN,
         watching' \in BOOLEAN, sAnswer' \in Nat,
         sKeys' \in {"none", "held", "owned", "wiped"},
         sWhy' \in {"none", "timeout", "failed", "hello"}, linked' \in Nat
  PROVE  TypeOK'
BY DEF TypeOK, refVars, runVars, SPhase

\* Told stays true while the sender keeps its answer and its reason.
LEMMA ToldKept ==
  ASSUME Told, UNCHANGED <<answers, attempts, sAnswer, sWhy>>,
         sPhase' \in {"showing", "ended"} \/ sPhase \notin {"showing", "ended"},
         sPhase' \in {"showing", "deriving", "session"} => sPhase \in {"showing", "deriving", "session"}
  PROVE  Told'
BY DEF Told, Answer, Closed

LEMMA SenderKeeps ==
  ASSUME CInv,
         \/ AnswerAccepted \/ Derived \/ SessionDerived \/ LinkUp \/ DirectOpens
         \/ (\E why \in {"timeout", "failed", "hello"} : GivesUp(why))
         \/ Prepared \/ NotPrepared \/ RelayingEnds \/ DirectEnds \/ SenderCancels
         \/ UNCHANGED vars
  PROVE  CInv'
<1>0. TypeOK /\ KeyHeld /\ Told /\ ReceiverInv
  BY DEF CInv, ReceiverInv
<1>1. UNCHANGED <<answers, hellos, refVars, runVars, named, fits>>
  BY DEF AnswerAccepted, Derived, SessionDerived, LinkUp, DirectOpens, GivesUp, Prepared,
         NotPrepared, RelayingEnds, DirectEnds, SenderCancels, vars
<1> DEFINE Types == /\ sPhase' \in SPhase /\ sCancelled' \in BOOLEAN /\ sRtc' \in BOOLEAN
                    /\ watching' \in BOOLEAN /\ sAnswer' \in Nat
                    /\ sKeys' \in {"none", "held", "owned", "wiped"}
                    /\ sWhy' \in {"none", "timeout", "failed", "hello"} /\ linked' \in Nat
<1>2. ASSUME Types, KeyHeld', Told' PROVE CInv'
  <2>1. TypeOK'
    BY <1>0, <1>1, <1>2, SenderTypes
  <2> QED
    BY <1>0, <1>1, <1>2, <2>1, SenderApart DEF CInv
<1>3. CASE AnswerAccepted
  <2>1. Types /\ KeyHeld'
    BY <1>0, <1>3 DEF AnswerAccepted, TypeOK, KeyHeld, SPhase
  <2>2. Told'
    <3>1. sAnswer' \in 1 .. Len(answers) /\ sWhy' = sWhy /\ answers' = answers
      BY <1>0, <1>3 DEF AnswerAccepted, TypeOK
    <3>2. sPhase = "showing" /\ sPhase' = "deriving" /\ sWhy = "none"
      BY <1>0, <1>3 DEF AnswerAccepted, Told
    <3> QED
      BY <3>1, <3>2 DEF Told
  <2> QED
    BY <1>2, <2>1, <2>2
<1>4. CASE Derived
  <2>1. Types /\ KeyHeld'
    BY <1>0, <1>4 DEF Derived, TypeOK, KeyHeld, SPhase
  <2>2. Told'
    BY <1>0, <1>1, <1>4, ToldKept DEF Derived, refVars
  <2> QED
    BY <1>2, <2>1, <2>2
<1>5. CASE SessionDerived
  <2>1. Types /\ KeyHeld'
    BY <1>0, <1>5 DEF SessionDerived, SenderEnds, TypeOK, KeyHeld, SPhase
  <2>2. Told'
    BY <1>0, <1>1, <1>5, ToldKept DEF SessionDerived, SenderEnds, refVars
  <2> QED
    BY <1>2, <2>1, <2>2
<1>6. CASE LinkUp
  <2>1. UNCHANGED <<senderVars, answers, attempts>> /\ linked' = Answer.attempt
    BY <1>1, <1>6 DEF LinkUp, refVars
  <2>2. sAnswer \in 1 .. Len(answers)
    BY <1>0, <1>6 DEF LinkUp, Told
  <2>3. Answer.attempt \in Nat
    <3>1. answers[sAnswer] \in Shown
      <4>1. answers \in Seq(Shown)
        BY <1>0 DEF TypeOK, Shown
      <4> QED
        BY <2>2, <4>1
    <3> QED
      BY <3>1 DEF Answer, Shown
  <2>4. Types /\ KeyHeld'
    BY <1>0, <2>1, <2>3 DEF TypeOK, KeyHeld, SPhase, senderVars
  <2>5. Told'
    BY <1>0, <2>1 DEF Told, Answer, Closed, senderVars
  <2> QED
    BY <1>2, <2>4, <2>5
<1>7. CASE DirectOpens
  <2>1. Types /\ KeyHeld'
    BY <1>0, <1>7 DEF DirectOpens, SenderEnds, TypeOK, KeyHeld, SPhase
  <2>2. Told'
    BY <1>0, <1>1, <1>7, ToldKept DEF DirectOpens, SenderEnds, refVars
  <2> QED
    BY <1>2, <2>1, <2>2
<1>8. ASSUME NEW why \in {"timeout", "failed", "hello"}, GivesUp(why) PROVE CInv'
  <2>1. Types /\ KeyHeld'
    BY <1>0, <1>8 DEF GivesUp, SenderEnds, TypeOK, KeyHeld, SPhase
  <2>2. sAnswer \in 1 .. Len(answers) /\ UNCHANGED <<answers, attempts, sAnswer>>
    BY <1>0, <1>1, <1>8 DEF GivesUp, Told, refVars
  <2>3. sWhy' = "hello" => Answer.attempt = 0 \/ Closed(Answer.attempt)
    <3>1. sWhy' = "hello" => Answer.keys \in hellos
      BY <1>8 DEF GivesUp, GivesUpOn
    <3> QED
      BY <1>0, <2>2, <3>1 DEF ReceiverInv, Answered, Answer
  <2>4. Told'
    <3>1. sPhase' \in {"preparing", "ended"}
      BY <1>8 DEF GivesUp, SenderEnds
    <3> QED
      BY <2>2, <2>3, <3>1 DEF Told, Answer, Closed
  <2> QED
    BY <1>2, <2>1, <2>4
<1>9. CASE Prepared \/ NotPrepared
  <2>1. Types /\ KeyHeld'
    BY <1>0, <1>9 DEF Prepared, NotPrepared, SenderEnds, TypeOK, KeyHeld, SPhase
  <2>2. Told'
    BY <1>0, <1>1, <1>9, ToldKept DEF Prepared, NotPrepared, SenderEnds, refVars
  <2> QED
    BY <1>2, <2>1, <2>2
<1>10. CASE RelayingEnds \/ DirectEnds
  <2>1. Types /\ KeyHeld'
    BY <1>0, <1>10 DEF RelayingEnds, DirectEnds, SenderEnds, TypeOK, KeyHeld, SPhase
  <2>2. Told'
    BY <1>0, <1>1, <1>10, ToldKept DEF RelayingEnds, DirectEnds, SenderEnds, refVars
  <2> QED
    BY <1>2, <2>1, <2>2
<1>11. CASE SenderCancels
  <2>1. Types /\ KeyHeld'
    BY <1>0, <1>11 DEF SenderCancels, TypeOK, KeyHeld, SPhase
  <2>2. Told'
    BY <1>0, <1>1, <1>11, ToldKept DEF SenderCancels, refVars
  <2> QED
    BY <1>2, <2>1, <2>2
<1>12. CASE UNCHANGED vars
  <2>1. Types /\ KeyHeld'
    BY <1>0, <1>12 DEF vars, senderVars, TypeOK, KeyHeld, SPhase
  <2>2. Told'
    BY <1>0, <1>12 DEF vars, senderVars, refVars, Told, Answer, Closed
  <2> QED
    BY <1>2, <2>1, <2>2
<1> QED
  BY <1>3, <1>4, <1>5, <1>6, <1>7, <1>8, <1>9, <1>10, <1>11, <1>12

-----------------------------------------------------------------------------
(* A receive that ends *)

\* What is closed stays closed.
Lasting(at) ==
  /\ at \in Seq(Attempt) /\ Len(at) >= Len(attempts)
  /\ \A a \in 1 .. Len(attempts) : Closed(a) => at[a].rtc # "open"

\* Whatever is open is in a ref.
Referred(at, rtc, sink) ==
  \A a \in 1 .. Len(at) : /\ at[a].sink = "open" => sink = a
                          /\ at[a].rtc = "open" => rtc = a

\* The sender is left alone, and answers are only added to.
Alone ==
  /\ Lasting(attempts') /\ UNCHANGED <<named, fits, senderVars, linked>>
  /\ Len(answers') >= Len(answers)
  /\ \A i \in 1 .. Len(answers) : answers'[i] = answers[i]

LEMMA SenderLeftAlone ==
  ASSUME CInv, Alone
  PROVE  (KeyHeld /\ Told)'
<1>0. TypeOK /\ KeyHeld /\ Told /\ Attempts
  BY DEF CInv, ReceiverInv
<1>1. KeyHeld'
  BY <1>0 DEF KeyHeld, Alone, senderVars
<1>2. Told'
  <2>2. ASSUME sAnswer \in 1 .. Len(answers)
        PROVE  sAnswer \in 1 .. Len(answers') /\ answers'[sAnswer] = answers[sAnswer]
    BY <1>0, <2>2 DEF Alone, TypeOK
  <2>3. ASSUME sAnswer \in 1 .. Len(answers), Answer.attempt = 0 \/ Closed(Answer.attempt)
        PROVE  (Answer.attempt = 0 \/ Closed(Answer.attempt))'
    <3>1. Answer' = Answer /\ Answer.attempt \in 0 .. Len(attempts)
      BY <1>0, <2>2, <2>3 DEF Answer, Attempts, Alone, senderVars
    <3>2. Len(attempts) \in Nat
      BY <1>0 DEF TypeOK
    <3> QED
      BY <2>3, <3>1, <3>2 DEF Alone, Lasting, Closed
  <2> QED
    BY <1>0, <2>2, <2>3 DEF Told, Alone, senderVars
<1> QED
  BY <1>1, <1>2

\* A return leaves the invariant whole: a run in charge leaves no connection, and any
\* other only what is nobody's business.
LEMMA ReturnKeeps ==
  ASSUME CInv, NEW n \in Run, rPhase[n] # "idle",
         NEW at, Lasting(at), NEW rtc \in 0 .. Len(at), NEW sink \in 0 .. Len(at),
         Returns(n, at, rtc, sink), Referred(at, rtc, sink),
         curRun # n => Kept(at, rtc, sink),
         UNCHANGED <<answers, hellos, named, fits, senderVars, linked>>,
         keysMade' \in {keysMade, keysMade + 1}
  PROVE  CInv'
<1>0. /\ TypeOK /\ Attempts /\ Keys /\ Answered /\ InCharge
      /\ Kept(attempts, rtcRef, sinkRef)
  BY DEF CInv, ReceiverInv
<1>1. /\ at \in Seq(Attempt) /\ attempts \in Seq(Attempt) /\ answers \in Seq(Shown)
      /\ Len(at) \in Nat /\ Len(attempts) \in Nat /\ keysMade \in Nat /\ rtc \in Nat
      /\ Len(at) >= Len(attempts)
  BY <1>0 DEF Lasting, TypeOK, Attempt, Shown
<1>2. /\ \A m \in Run : rPhase'[m] = IF m = n THEN "ended" ELSE rPhase[m]
      /\ \A m \in Run : rKeys'[m] = IF m = n THEN 0 ELSE rKeys[m]
      /\ \A m \in Run : rAttempt'[m] = IF m = n THEN 0 ELSE rAttempt[m]
      /\ sinkRef' = sink /\ UNCHANGED <<curRun, rCancelled, flips>>
  BY <1>0 DEF Returns, TypeOK
<1>3. /\ attempts' \in Seq(Attempt) /\ Len(attempts') = Len(at)
      /\ rtcRef' \in 0 .. Len(at) /\ receiving' \in BOOLEAN
      /\ \A a \in 1 .. Len(at) : /\ attempts'[a].sink = at[a].sink
                                 /\ at[a].rtc # "open" => attempts'[a].rtc # "open"
  <2>1. CASE curRun = n
    <3>1. /\ HungUp(at, rtc) \in Seq(Attempt) /\ Len(HungUp(at, rtc)) = Len(at)
          /\ \A i \in 1 .. Len(at) :
               /\ HungUp(at, rtc)[i].rtc = IF i = rtc THEN "closed" ELSE at[i].rtc
               /\ HungUp(at, rtc)[i].sink = at[i].sink
      BY <1>1, HungUpFacts
    <3>2. attempts' = HungUp(at, rtc) /\ rtcRef' = 0 /\ receiving' = FALSE
      BY <2>1 DEF Returns
    <3>3. attempts' \in Seq(Attempt) /\ Len(attempts') = Len(at)
      BY <3>1, <3>2
    <3>4. \A a \in 1 .. Len(at) : /\ attempts'[a].sink = at[a].sink
                                  /\ at[a].rtc # "open" => attempts'[a].rtc # "open"
      BY <3>1, <3>2
    <3>5. rtcRef' \in 0 .. Len(at)
      BY <1>1, <3>2
    <3>6. receiving' \in BOOLEAN
      BY <3>2
    <3> QED
      BY <3>3, <3>4, <3>5, <3>6
  <2>2. CASE curRun # n
    BY <1>0, <1>1, <2>2 DEF Returns, TypeOK
  <2> QED
    BY <2>1, <2>2
<1>4. Alone
  BY <1>0, <1>1, <1>3 DEF Alone, Lasting, Closed, TypeOK
<1>5. TypeOK'
  <2>1. /\ rPhase' \in [Run -> {"idle", "offer", "keys", "storing", "answer", "waiting",
                         "direct", "simulating", "fallback", "renewing", "ended"}]
        /\ rKeys' \in [Run -> Nat] /\ rAttempt' \in [Run -> Nat]
        /\ simulate' \in [Run -> BOOLEAN] /\ switched' \in [Run -> BOOLEAN]
    BY <1>0 DEF Returns, TypeOK
  <2>2. rtcRef' \in Nat /\ sinkRef' \in Nat /\ keysMade' \in Nat
    BY <1>1, <1>2, <1>3
  <2>3. attempts' \in Seq([rtc : {"open", "closed", "taken"}, sink : {"open", "discarded"}])
    BY <1>3 DEF Attempt
  <2>4. UNCHANGED <<curRun, rCancelled, flips, answers, hellos, named, fits, senderVars, linked>>
    BY <1>2
  <2> QED
    BY <1>0, <1>3, <2>1, <2>2, <2>3, <2>4 DEF TypeOK, senderVars
<1>6. Attempts'
  <2>1. rtcRef' \in 0 .. Len(attempts') /\ sinkRef' \in 0 .. Len(attempts')
    BY <1>2, <1>3
  <2>2. \A m \in Run : rAttempt'[m] \in 0 .. Len(attempts')
    BY <1>0, <1>1, <1>2, <1>3 DEF Attempts
  <2>3. \A m \in Run : rPhase'[m] \in InUse => rAttempt'[m] # 0
    BY <1>0, <1>2 DEF Attempts, InUse
  <2>4. \A l, m \in Run : rAttempt'[l] = rAttempt'[m] /\ rAttempt'[l] # 0 => l = m
    BY <1>0, <1>2 DEF Attempts
  <2>5. \A i \in 1 .. Len(answers') : answers'[i].attempt \in 0 .. Len(attempts')
    BY <1>0, <1>1, <1>3 DEF Attempts
  <2> QED
    BY <2>1, <2>2, <2>3, <2>4, <2>5 DEF Attempts
<1>7. Keys'
  <2>1. \A m \in Run : rKeys'[m] \in 0 .. keysMade'
    BY <1>0, <1>1, <1>2 DEF Keys
  <2>2. \A i \in 1 .. Len(answers) : answers[i].keys \in 1 .. keysMade'
    BY <1>0, <1>1 DEF Keys
  <2>3. hellos \subseteq 1 .. keysMade'
    BY <1>0, <1>1 DEF Keys
  <2>4. \A m \in Run : rKeys'[m] = 0 <=> rPhase'[m] \in Keyless
    BY <1>0, <1>2 DEF Keys, Keyless
  <2>5. \A l, m \in Run : rKeys'[l] = rKeys'[m] /\ rKeys'[l] # 0 => l = m
    BY <1>0, <1>2 DEF Keys
  <2>6. \A m \in Run : rKeys'[m] \in hellos => rPhase'[m] \in {"fallback", "renewing"}
    <3>1. 0 \notin hellos
      BY <1>0 DEF Keys
    <3> QED
      BY <1>0, <1>2, <3>1 DEF Keys
  <2> QED
    BY <2>1, <2>2, <2>3, <2>4, <2>5, <2>6 DEF Keys
<1>8. Answered'
  <2>1. \A i \in 1 .. Len(answers) :
          /\ answers[i].attempt \in 0 .. Len(attempts) /\ answers[i].keys # 0
          /\ answers[i].attempt # 0 /\ Closed(answers[i].attempt) => Closed(answers[i].attempt)'
    BY <1>0, <1>1, <1>4 DEF Attempts, Keys, Alone, Lasting, Closed
  <2> QED
    BY <1>0, <1>2, <2>1 DEF Answered
<1>9. Kept(attempts, rtcRef, sinkRef)'
  <2>1. CASE curRun = n
    <3>1. /\ rtcRef' = 0 /\ \A a \in 1 .. Len(at) : attempts'[a].rtc # "open"
          /\ \A a \in 1 .. Len(at) : attempts'[a].sink = at[a].sink
      <4>1. /\ Len(HungUp(at, rtc)) = Len(at)
            /\ \A i \in 1 .. Len(at) :
                 /\ HungUp(at, rtc)[i].rtc = IF i = rtc THEN "closed" ELSE at[i].rtc
                 /\ HungUp(at, rtc)[i].sink = at[i].sink
        BY <1>1, HungUpFacts
      <4>2. attempts' = HungUp(at, rtc) /\ rtcRef' = 0
        BY <2>1 DEF Returns
      <4> QED
        BY <4>1, <4>2 DEF Referred
    <3>2. \A m \in Run : Abandoned(m)' \/ rPhase'[m] = "ended"
      BY <1>2, <2>1 DEF Abandoned
    <3> QED
      BY <1>2, <1>3, <3>1, <3>2 DEF Kept, Referred, InUse, Between
  <2>2. CASE curRun # n
    <3>1. attempts' = at /\ rtcRef' = rtc /\ receiving' = receiving
      BY <2>2 DEF Returns
    <3>2. \A m \in Run : ~Abandoned(m)' => ~Abandoned(m) /\ rPhase'[m] = rPhase[m]
                                            /\ rAttempt'[m] = rAttempt[m]
      BY <1>2, <2>2 DEF Abandoned
    <3> QED
      BY <1>2, <2>2, <3>1, <3>2 DEF Kept
  <2> QED
    BY <2>1, <2>2
<1>10. InCharge'
  <2>1. ASSUME NEW m \in Run, ~Abandoned(m)', rPhase'[m] \notin {"idle", "ended"}
        PROVE  receiving'
    <3>1. m # n /\ rPhase'[m] = rPhase[m] /\ curRun = m
      BY <1>2, <2>1 DEF Abandoned
    <3>2. receiving' = receiving
      BY <3>1 DEF Returns
    <3> QED
      BY <1>0, <1>2, <2>1, <3>1, <3>2 DEF InCharge, Abandoned
  <2>2. \A m \in Run : m > curRun => rPhase'[m] = "idle"
    BY <1>0, <1>2 DEF InCharge
  <2> QED
    BY <1>2, <2>1, <2>2 DEF InCharge
<1> QED
  BY <1>4, <1>5, <1>6, <1>7, <1>8, <1>9, <1>10, SenderLeftAlone DEF CInv, ReceiverInv

LEMMA Facts ==
  ASSUME CInv
  PROVE  /\ TypeOK /\ Attempts /\ Keys /\ Answered /\ InCharge
         /\ Kept(attempts, rtcRef, sinkRef)
         /\ attempts \in Seq(Attempt) /\ answers \in Seq(Shown)
         /\ Len(attempts) \in Nat /\ Len(answers) \in Nat /\ keysMade \in Nat
         /\ rtcRef \in 0 .. Len(attempts) /\ sinkRef \in 0 .. Len(attempts)
         /\ Lasting(attempts) /\ Referred(attempts, rtcRef, sinkRef)
<1>1. TypeOK /\ Attempts /\ Keys /\ Answered /\ InCharge /\ Kept(attempts, rtcRef, sinkRef)
  BY DEF CInv, ReceiverInv
<1>2. attempts \in Seq(Attempt) /\ answers \in Seq(Shown) /\ keysMade \in Nat
  BY <1>1 DEF TypeOK, Attempt, Shown
<1>3. Len(attempts) \in Nat /\ Len(answers) \in Nat
  BY <1>2
<1>4. Lasting(attempts)
  BY <1>2, <1>3 DEF Lasting, Closed
<1> QED
  BY <1>1, <1>2, <1>3, <1>4 DEF Kept, Referred, Attempts

\* Nothing that is stored survives a discard of what the ref holds.
LEMMA DiscardsAll ==
  ASSUME NEW at, Lasting(at), NEW rtc, NEW sink \in Nat, Referred(at, rtc, sink)
  PROVE  /\ Lasting(Discarded(at, sink)) /\ Referred(Discarded(at, sink), rtc, 0)
         /\ Len(Discarded(at, sink)) = Len(at)
<1>1. at \in Seq(Attempt)
  BY DEF Lasting
<1>2. /\ Discarded(at, sink) \in Seq(Attempt) /\ Len(Discarded(at, sink)) = Len(at)
      /\ \A i \in 1 .. Len(at) :
           /\ Discarded(at, sink)[i].sink = IF i = sink THEN "discarded" ELSE at[i].sink
           /\ Discarded(at, sink)[i].rtc = at[i].rtc
  BY <1>1, DiscardedFacts
<1>3. Lasting(Discarded(at, sink))
  <2>1. Len(at) \in Nat /\ Len(at) >= Len(attempts)
    BY <1>1 DEF Lasting
  <2>2. \A a \in 1 .. Len(attempts) : a \in 1 .. Len(at)
    BY <2>1
  <2> QED
    BY <1>2, <2>1, <2>2 DEF Lasting
<1>4. Referred(Discarded(at, sink), rtc, 0)
  BY <1>2 DEF Referred
<1> QED
  BY <1>2, <1>3, <1>4

\* A return, or a failure, with what the refs and the attempts happen to be.
LEMMA EndsAsIs ==
  ASSUME CInv, NEW n \in Run, rPhase[n] # "idle", ReturnsAsIs(n) \/ ThrowsAsIs(n),
         UNCHANGED <<answers, hellos, named, fits, senderVars, linked>>,
         keysMade' \in {keysMade, keysMade + 1}
  PROVE  CInv'
<1>0. /\ Lasting(attempts) /\ Referred(attempts, rtcRef, sinkRef)
      /\ rtcRef \in 0 .. Len(attempts) /\ sinkRef \in 0 .. Len(attempts)
      /\ Kept(attempts, rtcRef, sinkRef) /\ Len(attempts) \in Nat
  BY Facts
<1>1. CASE Returns(n, attempts, rtcRef, sinkRef)
  BY <1>0, <1>1, ReturnKeeps
<1>2. CASE ~Abandoned(n) /\ Returns(n, Discarded(attempts, sinkRef), rtcRef, 0)
  <2>1. /\ Lasting(Discarded(attempts, sinkRef))
        /\ Referred(Discarded(attempts, sinkRef), rtcRef, 0)
        /\ Len(Discarded(attempts, sinkRef)) = Len(attempts)
    BY <1>0, DiscardsAll
  <2>2. curRun = n /\ 0 \in 0 .. Len(attempts)
    BY <1>0, <1>2 DEF Abandoned
  <2> QED
    BY <1>0, <1>2, <2>1, <2>2, ReturnKeeps
<1> QED
  BY <1>1, <1>2 DEF ReturnsAsIs, ThrowsAsIs, Throws

\* What is left when a receive that has an attempt disposes of it.
LEMMA DisposedLeaves ==
  ASSUME CInv, NEW n \in Run, rPhase[n] \in InUse
  PROVE  LET a == rAttempt[n]
             at == Disposed(attempts, a)
             rtc == Without(rtcRef, a)
             sink == Without(sinkRef, a)
         IN  /\ Lasting(at) /\ Len(at) = Len(attempts) /\ a \in 1 .. Len(attempts)
             /\ rtc \in 0 .. Len(at) /\ sink \in 0 .. Len(at)
             /\ Referred(at, rtc, sink) /\ at[a].rtc = "closed"
             /\ curRun # n => Kept(at, rtc, sink)
             /\ ~Abandoned(n) => rtc = 0 /\ sink = 0
<1> DEFINE a == rAttempt[n]
           at == Disposed(attempts, a)
           rtc == Without(rtcRef, a)
           sink == Without(sinkRef, a)
<1>0. /\ attempts \in Seq(Attempt) /\ Len(attempts) \in Nat /\ Attempts
      /\ Kept(attempts, rtcRef, sinkRef) /\ Referred(attempts, rtcRef, sinkRef)
      /\ rtcRef \in 0 .. Len(attempts) /\ sinkRef \in 0 .. Len(attempts)
  BY Facts
<1>1. a \in 1 .. Len(attempts)
  BY <1>0 DEF Attempts
<1>2. /\ at \in Seq(Attempt) /\ Len(at) = Len(attempts)
      /\ \A i \in 1 .. Len(attempts) :
           /\ at[i].sink = IF i = a THEN "discarded" ELSE attempts[i].sink
           /\ at[i].rtc = IF i = a THEN "closed" ELSE attempts[i].rtc
  BY <1>0, <1>1, DisposedFacts
<1>3. Lasting(at)
  BY <1>0, <1>2 DEF Lasting, Closed
<1>4. rtc \in 0 .. Len(at) /\ sink \in 0 .. Len(at)
  BY <1>0, <1>2 DEF Without
<1>5. Referred(at, rtc, sink)
  BY <1>0, <1>2 DEF Referred, Without
<1>6. ASSUME curRun # n PROVE Kept(at, rtc, sink)
  <2>1. ASSUME NEW m \in Run, ~Abandoned(m), rPhase[m] \in InUse
        PROVE  /\ sink = rAttempt[m] /\ at[rAttempt[m]].sink = "open"
               /\ \/ rtc = rAttempt[m] /\ at[rAttempt[m]].rtc = "open"
                  \/ rtc = 0 /\ at[rAttempt[m]].rtc = "taken"
    <3>1. m # n /\ rAttempt[m] # a /\ rAttempt[m] \in 1 .. Len(attempts)
      BY <1>0, <1>1, <1>6, <2>1 DEF Attempts, Abandoned
    <3>2. /\ sinkRef = rAttempt[m] /\ attempts[rAttempt[m]].sink = "open"
          /\ \/ rtcRef = rAttempt[m] /\ attempts[rAttempt[m]].rtc = "open"
             \/ rtcRef = 0 /\ attempts[rAttempt[m]].rtc = "taken"
      BY <1>0, <2>1 DEF Kept
    <3> QED
      BY <1>2, <3>1, <3>2 DEF Without
  <2>2. ASSUME NEW m \in Run, ~Abandoned(m), rPhase[m] \in Between
        PROVE  rtc = 0 /\ sink = 0
    BY <1>0, <2>2 DEF Kept, Without
  <2>3. ~receiving => rtc = 0
    BY <1>0 DEF Kept, Without
  <2> QED
    BY <1>5, <2>1, <2>2, <2>3 DEF Kept, Referred
<1>7. ~Abandoned(n) => rtc = 0 /\ sink = 0
  BY <1>0 DEF Kept, Without
<1> QED
  BY <1>1, <1>2, <1>3, <1>4, <1>5, <1>6, <1>7

LEMMA EndsDisposed ==
  ASSUME CInv, NEW n \in Run, rPhase[n] \in InUse, ReturnsDisposed(n) \/ ThrowsDisposed(n),
         UNCHANGED <<answers, hellos, named, fits, senderVars, linked, keysMade>>
  PROVE  CInv'
<1> DEFINE a == rAttempt[n]
           at == Disposed(attempts, a)
           rtc == Without(rtcRef, a)
           sink == Without(sinkRef, a)
<1>0. /\ Lasting(at) /\ Len(at) = Len(attempts) /\ Len(attempts) \in Nat
      /\ rtc \in 0 .. Len(at) /\ sink \in 0 .. Len(at)
      /\ Referred(at, rtc, sink) /\ (curRun # n => Kept(at, rtc, sink))
      /\ rPhase[n] # "idle"
  BY DisposedLeaves, Facts DEF InUse
<1>a. \/ Returns(n, at, rtc, sink)
      \/ ~Abandoned(n) /\ Returns(n, Discarded(at, sink), rtc, 0)
  BY DEF ReturnsDisposed, ThrowsDisposed, Throws
<1> HIDE DEF at, rtc, sink
<1>1. CASE Returns(n, at, rtc, sink)
  BY <1>0, <1>1, ReturnKeeps
<1>2. CASE ~Abandoned(n) /\ Returns(n, Discarded(at, sink), rtc, 0)
  <2>1. /\ Lasting(Discarded(at, sink)) /\ Referred(Discarded(at, sink), rtc, 0)
        /\ Len(Discarded(at, sink)) = Len(at)
    BY <1>0, DiscardsAll
  <2>2. curRun = n /\ 0 \in 0 .. Len(at)
    BY <1>0, <1>2 DEF Abandoned
  <2> QED
    BY <1>0, <1>2, <2>1, <2>2, ReturnKeeps
<1> QED
  BY <1>a, <1>1, <1>2

\* One more attempt, which is closed from the start, with its storage kept or not.
LEMMA OneMore ==
  ASSUME CInv, NEW x \in Attempt, x.rtc = "closed"
  PROVE  LET at == Append(attempts, x)
         IN  /\ Lasting(at) /\ Len(at) = Len(attempts) + 1 /\ at[Len(attempts) + 1] = x
             /\ \A a \in 1 .. Len(attempts) : at[a] = attempts[a]
<1>1. attempts \in Seq(Attempt) /\ Len(attempts) \in Nat
  BY Facts
<1> QED
  BY <1>1 DEF Lasting, Closed

LEMMA StorageRefused ==
  ASSUME CInv, NEW n \in Run, rPhase[n] # "idle",
         Returns(n, Append(attempts, [rtc |-> "closed", sink |-> "discarded"]), rtcRef, sinkRef),
         UNCHANGED <<answers, hellos, named, fits, senderVars, linked, keysMade>>
  PROVE  CInv'
<1> DEFINE x == [rtc |-> "closed", sink |-> "discarded"]
           at == Append(attempts, x)
<1>0. /\ Referred(attempts, rtcRef, sinkRef) /\ Len(attempts) \in Nat
      /\ rtcRef \in 0 .. Len(attempts) /\ sinkRef \in 0 .. Len(attempts)
      /\ Kept(attempts, rtcRef, sinkRef) /\ Attempts
  BY Facts
<1>1. x \in Attempt /\ x.rtc = "closed" /\ x.sink = "discarded"
  BY DEF Attempt
<1> HIDE DEF x
<1>2. /\ Lasting(at) /\ Len(at) = Len(attempts) + 1 /\ at[Len(attempts) + 1] = x
      /\ \A a \in 1 .. Len(attempts) : at[a] = attempts[a]
  BY <1>1, OneMore
<1>3. rtcRef \in 0 .. Len(at) /\ sinkRef \in 0 .. Len(at)
  BY <1>0, <1>2
<1> HIDE DEF at
<1>4. Referred(at, rtcRef, sinkRef)
  <2> SUFFICES ASSUME NEW a \in 1 .. Len(at)
               PROVE  /\ at[a].sink = "open" => sinkRef = a
                      /\ at[a].rtc = "open" => rtcRef = a
    BY DEF Referred
  <2>1. CASE a = Len(attempts) + 1
    BY <1>1, <1>2, <2>1
  <2>2. CASE a # Len(attempts) + 1
    BY <1>0, <1>2, <2>2 DEF Referred
  <2> QED
    BY <2>1, <2>2
<1>5. Kept(at, rtcRef, sinkRef)
  <2>1. \A m \in Run : rPhase[m] \in InUse => rAttempt[m] \in 1 .. Len(attempts)
    BY <1>0 DEF Attempts
  <2> QED
    BY <1>0, <1>2, <1>4, <2>1 DEF Kept, Referred
<1>6. Returns(n, at, rtcRef, sinkRef)
  BY DEF at, x
<1> QED
  BY <1>2, <1>3, <1>4, <1>5, <1>6, ReturnKeeps

LEMMA DirectDoneKeeps ==
  ASSUME CInv, NEW n \in Run, DirectDone(n)
  PROVE  CInv'
<1> DEFINE how == IF curRun = n THEN "closed" ELSE "taken"
           at == HungUpAs(how, attempts, rtcRef)
<1>0. /\ Referred(attempts, rtcRef, sinkRef) /\ Lasting(attempts) /\ Len(attempts) \in Nat
      /\ rtcRef \in 0 .. Len(attempts) /\ sinkRef \in 0 .. Len(attempts)
      /\ attempts \in Seq(Attempt) /\ Kept(attempts, rtcRef, sinkRef) /\ rtcRef \in Nat
  BY Facts
<1>1. /\ at \in Seq(Attempt) /\ Len(at) = Len(attempts)
      /\ \A i \in 1 .. Len(attempts) :
           /\ at[i].rtc = IF i = rtcRef THEN how ELSE attempts[i].rtc
           /\ at[i].sink = attempts[i].sink
  BY <1>0, HungUpAsFacts
<1>2. /\ Returns(n, at, 0, sinkRef) /\ rPhase[n] # "idle"
      /\ UNCHANGED <<answers, hellos, named, fits, senderVars, linked, keysMade>>
  BY DEF DirectDone, Elsewhere
<1>3. how \in {"closed", "taken"} /\ (curRun # n => how = "taken")
  BY DEF how
<1> HIDE DEF at, how
<1>4. Lasting(at) /\ Referred(at, 0, sinkRef)
  BY <1>0, <1>1, <1>3 DEF Lasting, Referred, Closed
<1>5. ASSUME curRun # n PROVE Kept(at, 0, sinkRef)
  <2>1. ASSUME NEW m \in Run, ~Abandoned(m), rPhase[m] \in InUse
        PROVE  /\ sinkRef = rAttempt[m] /\ at[rAttempt[m]].sink = "open"
               /\ at[rAttempt[m]].rtc = "taken"
    <3>1. rAttempt[m] \in 1 .. Len(attempts)
      BY <1>0, <2>1, Facts DEF Attempts
    <3> QED
      BY <1>0, <1>1, <1>3, <1>5, <2>1, <3>1 DEF Kept
  <2> QED
    BY <1>0, <1>1, <1>4, <2>1 DEF Kept, Referred
<1>6. 0 \in 0 .. Len(at) /\ sinkRef \in 0 .. Len(at)
  BY <1>0, <1>1
<1> QED
  BY <1>2, <1>4, <1>5, <1>6, ReturnKeeps

LEMMA FallbackDeliversKeeps ==
  ASSUME CInv, NEW n \in Run, FallbackDelivers(n)
  PROVE  CInv'
<1>0. /\ rPhase[n] = "fallback" /\ rPhase[n] # "idle"
      /\ UNCHANGED <<answers, hellos, named, fits, senderVars, linked, keysMade>>
  BY DEF FallbackDelivers, Elsewhere
<1>1. CASE ReturnsAsIs(n)
  BY <1>0, <1>1, EndsAsIs
<1>2. CASE Abandoned(n) /\ Returns(n, Append(attempts, [rtc |-> "closed", sink |-> "discarded"]),
                                   rtcRef, sinkRef)
  BY <1>0, <1>2, StorageRefused
<1>3. CASE /\ ~Abandoned(n)
           /\ LET at == Append(attempts, [rtc |-> "closed", sink |-> "open"])
              IN  Returns(n, at, rtcRef, Len(at))
  <2> DEFINE x == [rtc |-> "closed", sink |-> "open"]
             at == Append(attempts, x)
  <2>0. /\ Referred(attempts, rtcRef, sinkRef) /\ Len(attempts) \in Nat
        /\ rtcRef \in 0 .. Len(attempts) /\ Kept(attempts, rtcRef, sinkRef)
    BY Facts
  <2>1. x \in Attempt /\ x.rtc = "closed"
    BY DEF Attempt
  <2>2. Returns(n, at, rtcRef, Len(at))
    BY <1>3
  <2> HIDE DEF x
  <2>3. /\ Lasting(at) /\ Len(at) = Len(attempts) + 1 /\ at[Len(attempts) + 1] = x
        /\ \A a \in 1 .. Len(attempts) : at[a] = attempts[a]
    BY <2>1, OneMore
  <2> HIDE DEF at
  <2>4. rtcRef = 0 /\ sinkRef = 0 /\ curRun = n
    BY <1>0, <1>3, <2>0 DEF Kept, Between, Abandoned
  <2>5. Referred(at, rtcRef, Len(at))
    <3> SUFFICES ASSUME NEW a \in 1 .. Len(at)
                 PROVE  /\ at[a].sink = "open" => Len(at) = a
                        /\ at[a].rtc = "open" => rtcRef = a
      BY DEF Referred
    <3>1. CASE a = Len(attempts) + 1
      BY <2>1, <2>3, <3>1
    <3>2. CASE a # Len(attempts) + 1
      BY <2>0, <2>3, <2>4, <3>2 DEF Referred
    <3> QED
      BY <3>1, <3>2
  <2>6. rtcRef \in 0 .. Len(at) /\ Len(at) \in 0 .. Len(at)
    BY <2>0, <2>3
  <2> QED
    BY <1>0, <2>2, <2>3, <2>4, <2>5, <2>6, ReturnKeeps
<1> QED
  BY <1>1, <1>2, <1>3 DEF FallbackDelivers

-----------------------------------------------------------------------------
(* A receive that goes on *)

\* It neither drops its keys nor takes new ones, keeps or disposes of its attempt, and
\* may show an answer of its own.
Onward(n, p) ==
  /\ rPhase[n] \notin Keyless \cup {"renewing"}
  /\ p \in {"storing", "waiting", "direct", "simulating", "fallback", "renewing"}
  /\ rPhase[n] = "fallback" => p = "renewing"
  /\ rPhase' = [rPhase EXCEPT ![n] = p]
  /\ simulate' \in [Run -> BOOLEAN] /\ switched' \in [Run -> BOOLEAN]
  /\ UNCHANGED <<rKeys, rAttempt, curRun, rCancelled, receiving, flips, keysMade, hellos,
                 named, fits, senderVars, linked>>
OnOrOff(n, p) ==
  \/ Stays /\ (p \in InUse <=> rPhase[n] \in InUse)
  \/ /\ ~Abandoned(n) /\ rPhase[n] \in InUse /\ p \in Between
     /\ attempts' = Disposed(attempts, rAttempt[n])
     /\ rtcRef' = Without(rtcRef, rAttempt[n]) /\ sinkRef' = Without(sinkRef, rAttempt[n])
SaidAs(n, p, x) ==
  /\ Shows(n, x) /\ rPhase[n] # "fallback" /\ (x = 0 \/ (x = rAttempt[n] /\ p = "waiting"))

LEMMA GoesOn ==
  ASSUME CInv, NEW n \in Run, NEW p, Onward(n, p), OnOrOff(n, p),
         NEW x, answers' = answers \/ SaidAs(n, p, x)
  PROVE  CInv'
<1>0. /\ TypeOK /\ Attempts /\ Keys /\ Answered /\ InCharge
      /\ Kept(attempts, rtcRef, sinkRef)
      /\ attempts \in Seq(Attempt) /\ answers \in Seq(Shown)
      /\ Len(attempts) \in Nat /\ Len(answers) \in Nat /\ keysMade \in Nat
      /\ rtcRef \in 0 .. Len(attempts) /\ sinkRef \in 0 .. Len(attempts)
      /\ Lasting(attempts) /\ Referred(attempts, rtcRef, sinkRef)
  BY Facts
<1>1. /\ \A m \in Run : rPhase'[m] = IF m = n THEN p ELSE rPhase[m]
      /\ p \notin Keyless /\ p \notin {"answer", "idle", "ended"}
      /\ UNCHANGED <<rKeys, rAttempt, curRun, rCancelled, receiving, flips, keysMade, hellos,
                     named, fits, senderVars, linked>>
  BY <1>0 DEF Onward, TypeOK, Keyless
<1>2. /\ attempts' \in Seq(Attempt) /\ Len(attempts') = Len(attempts) /\ Lasting(attempts')
      /\ rtcRef' \in 0 .. Len(attempts) /\ sinkRef' \in 0 .. Len(attempts)
  <2>1. CASE Stays
    BY <1>0, <2>1 DEF Stays
  <2>2. CASE ~Stays
    BY <1>0, <2>2, DisposedLeaves DEF OnOrOff, Lasting
  <2> QED
    BY <2>1, <2>2
<1>3. rPhase[n] \in InUse /\ p \notin InUse => attempts'[rAttempt[n]].rtc # "open"
  BY DisposedLeaves DEF OnOrOff
<1>4. \A a \in 0 .. Len(attempts) : a # 0 /\ Closed(a) => Closed(a)'
  BY <1>0, <1>2 DEF Lasting, Closed
<1>5. /\ \A i \in 1 .. Len(answers) : answers'[i] = answers[i]
      /\ answers' \in Seq(Shown)
      /\ answers' = answers \/ /\ Len(answers') = Len(answers) + 1
                               /\ answers'[Len(answers) + 1] = [attempt |-> x, keys |-> rKeys[n]]
                               /\ SaidAs(n, p, x)
  <2>1. CASE answers' = answers
    BY <1>0, <2>1
  <2>2. CASE SaidAs(n, p, x)
    <3>1. [attempt |-> x, keys |-> rKeys[n]] \in Shown
      BY <1>0, <2>2 DEF SaidAs, Shown, TypeOK
    <3> QED
      BY <1>0, <2>2, <3>1 DEF SaidAs, Shows
  <2> QED
    BY <2>1, <2>2
<1>6. Alone
  BY <1>0, <1>1, <1>2, <1>5 DEF Alone
<1>7. TypeOK'
  <2>1. rPhase' \in [Run -> {"idle", "offer", "keys", "storing", "answer", "waiting",
                         "direct", "simulating", "fallback", "renewing", "ended"}]
    BY <1>0 DEF Onward, TypeOK
  <2>2. rtcRef' \in Nat /\ sinkRef' \in Nat
    BY <1>0, <1>2
  <2>3. /\ attempts' \in Seq([rtc : {"open", "closed", "taken"}, sink : {"open", "discarded"}])
        /\ answers' \in Seq([attempt : Nat, keys : Nat])
    BY <1>2, <1>5 DEF Attempt, Shown
  <2>4. simulate' \in [Run -> BOOLEAN] /\ switched' \in [Run -> BOOLEAN]
    BY DEF Onward
  <2> QED
    BY <1>0, <1>1, <2>1, <2>2, <2>3, <2>4 DEF TypeOK, senderVars
<1>8. Attempts'
  <2>1. rtcRef' \in 0 .. Len(attempts') /\ sinkRef' \in 0 .. Len(attempts')
    BY <1>2
  <2>2. \A m \in Run : rAttempt'[m] \in 0 .. Len(attempts')
    BY <1>0, <1>1, <1>2 DEF Attempts
  <2>3. \A m \in Run : rPhase'[m] \in InUse => rAttempt'[m] # 0
    <3>1. p \in InUse => rPhase[n] \in InUse
      BY DEF OnOrOff, InUse, Between
    <3> QED
      BY <1>0, <1>1, <3>1 DEF Attempts
  <2>4. \A l, m \in Run : rAttempt'[l] = rAttempt'[m] /\ rAttempt'[l] # 0 => l = m
    BY <1>0, <1>1 DEF Attempts
  <2>5. \A i \in 1 .. Len(answers') : answers'[i].attempt \in 0 .. Len(attempts')
    <3>1. \A i \in 1 .. Len(answers) : answers'[i].attempt \in 0 .. Len(attempts')
      BY <1>0, <1>2, <1>5 DEF Attempts
    <3>2. answers' # answers => answers'[Len(answers) + 1].attempt \in 0 .. Len(attempts')
      BY <1>0, <1>2, <1>5 DEF Attempts, SaidAs
    <3> QED
      BY <1>0, <1>5, <3>1, <3>2
  <2> QED
    BY <2>1, <2>2, <2>3, <2>4, <2>5 DEF Attempts
<1>9. rKeys[n] # 0 /\ (SaidAs(n, p, x) => rKeys[n] \notin hellos)
  <2>1. rPhase[n] \notin Keyless \cup {"renewing"}
    BY DEF Onward
  <2> QED
    BY <1>0, <2>1 DEF Keys, SaidAs
<1>10. Keys'
  <2>1. \A m \in Run : rKeys'[m] \in 0 .. keysMade'
    BY <1>0, <1>1 DEF Keys
  <2>2. \A i \in 1 .. Len(answers') : answers'[i].keys \in 1 .. keysMade'
    <3>1. \A i \in 1 .. Len(answers) : answers'[i].keys \in 1 .. keysMade
      BY <1>0, <1>5 DEF Keys
    <3>2. answers' # answers => answers'[Len(answers) + 1].keys \in 1 .. keysMade
      BY <1>0, <1>5, <1>9 DEF Keys
    <3> QED
      BY <1>0, <1>1, <1>5, <3>1, <3>2
  <2>3. hellos' \subseteq 1 .. keysMade'
    BY <1>0, <1>1 DEF Keys
  <2>4. \A m \in Run : rKeys'[m] = 0 <=> rPhase'[m] \in Keyless
    BY <1>0, <1>1, <1>9 DEF Keys
  <2>5. \A l, m \in Run : rKeys'[l] = rKeys'[m] /\ rKeys'[l] # 0 => l = m
    BY <1>0, <1>1 DEF Keys
  <2>6. \A m \in Run : rKeys'[m] \in hellos' => rPhase'[m] \in {"fallback", "renewing"}
    <3>1. rKeys[n] \in hellos => p = "renewing"
      BY <1>0 DEF Keys, Onward
    <3> QED
      BY <1>0, <1>1, <3>1 DEF Keys
  <2> QED
    BY <2>1, <2>2, <2>3, <2>4, <2>5, <2>6 DEF Keys
<1>11. Answered'
  <2>1. ASSUME NEW m \in Run, NEW i \in 1 .. Len(answers'),
               rKeys'[m] = answers'[i].keys, answers'[i].attempt # 0
        PROVE  \/ attempts'[answers'[i].attempt].rtc # "open"
               \/ rPhase'[m] \in {"waiting", "direct"} /\ answers'[i].attempt = rAttempt'[m]
    <3>1. CASE i \in 1 .. Len(answers)
      <4>1. /\ answers[i].attempt \in 0 .. Len(attempts) /\ answers[i].attempt # 0
            /\ answers'[i] = answers[i]
        BY <1>0, <1>5, <2>1, <3>1 DEF Attempts
      <4>2. \/ Closed(answers[i].attempt)
            \/ rPhase[m] \in {"waiting", "direct"} /\ answers[i].attempt = rAttempt[m]
        BY <1>0, <1>1, <2>1, <3>1, <4>1 DEF Answered
      <4>3. CASE Closed(answers[i].attempt)
        BY <1>4, <4>1, <4>3 DEF Closed
      <4>4. CASE /\ rPhase[m] \in {"waiting", "direct"} /\ answers[i].attempt = rAttempt[m]
                 /\ (m # n \/ p \in InUse)
        BY <1>1, <4>1, <4>4 DEF InUse
      <4>5. CASE /\ rPhase[m] \in {"waiting", "direct"} /\ answers[i].attempt = rAttempt[m]
                 /\ m = n /\ p \notin InUse
        BY <1>3, <4>1, <4>5 DEF InUse, Closed
      <4> QED
        BY <4>2, <4>3, <4>4, <4>5
    <3>2. CASE i \notin 1 .. Len(answers)
      <4>1. answers'[i] = [attempt |-> x, keys |-> rKeys[n]] /\ SaidAs(n, p, x)
        BY <1>0, <1>5, <2>1, <3>2
      <4>2. m = n
        BY <1>0, <1>1, <1>9, <2>1, <4>1 DEF Keys
      <4> QED
        BY <1>1, <2>1, <4>1, <4>2 DEF SaidAs
    <3> QED
      BY <3>1, <3>2
  <2>2. ASSUME NEW i \in 1 .. Len(answers'), answers'[i].keys \in hellos',
               answers'[i].attempt # 0
        PROVE  attempts'[answers'[i].attempt].rtc # "open"
    <3>1. i \in 1 .. Len(answers) /\ answers'[i] = answers[i]
      BY <1>0, <1>1, <1>5, <1>9, <2>2
    <3>2. Closed(answers[i].attempt) /\ answers[i].attempt \in 0 .. Len(attempts)
      BY <1>0, <1>1, <2>2, <3>1 DEF Answered, Attempts
    <3> QED
      BY <1>4, <2>2, <3>1, <3>2 DEF Closed
  <2> QED
    BY <2>1, <2>2 DEF Answered, Closed
<1>12. Kept(attempts, rtcRef, sinkRef)'
  <2>1. CASE Stays /\ (p \in InUse <=> rPhase[n] \in InUse)
    <3>1. rPhase[n] \notin InUse => rPhase[n] \in Between
      BY <1>0 DEF Onward, TypeOK, InUse, Between, Keyless
    <3>2. \A m \in Run : Abandoned(m)' <=> Abandoned(m)
      BY <1>1 DEF Abandoned
    <3>3. p \in InUse \/ p \in Between => ~(p \in InUse /\ p \in Between)
      BY DEF InUse, Between
    <3> QED
      BY <1>0, <1>1, <2>1, <3>1, <3>2, <3>3 DEF Kept, Stays
  <2>2. CASE /\ ~Abandoned(n) /\ rPhase[n] \in InUse /\ p \in Between
             /\ attempts' = Disposed(attempts, rAttempt[n])
             /\ rtcRef' = Without(rtcRef, rAttempt[n])
             /\ sinkRef' = Without(sinkRef, rAttempt[n])
    <3>1. /\ rtcRef' = 0 /\ sinkRef' = 0 /\ Referred(attempts', 0, 0)
      BY <2>2, DisposedLeaves
    <3>2. \A m \in Run : ~Abandoned(m)' => m = n
      BY <1>1, <2>2 DEF Abandoned
    <3> QED
      BY <1>1, <2>2, <3>1, <3>2 DEF Kept, Referred, InUse, Between
  <2> QED
    BY <2>1, <2>2 DEF OnOrOff
<1>13. InCharge'
  <2>1. \A m \in Run : Abandoned(m)' <=> Abandoned(m)
    BY <1>1 DEF Abandoned
  <2>2. rPhase[n] \notin {"idle", "ended"}
    BY DEF Onward, Keyless
  <2> QED
    BY <1>0, <1>1, <2>1, <2>2 DEF InCharge
<1> QED
  BY <1>6, <1>7, <1>8, <1>10, <1>11, <1>12, <1>13, SenderLeftAlone DEF CInv, ReceiverInv

LEMMA AnswerBuiltKeeps ==
  ASSUME CInv, NEW n \in Run, AnswerBuilt(n)
  PROVE  CInv'
<1>0. TypeOK /\ rPhase[n] = "answer" /\ UNCHANGED <<hellos, keysMade>> /\ Elsewhere
  BY Facts DEF AnswerBuilt
<1>1. CASE Abandoned(n) /\ ReturnsDisposed(n) /\ UNCHANGED answers
  BY <1>0, <1>1, EndsDisposed DEF Elsewhere, InUse
<1>2. CASE /\ ~Abandoned(n) /\ switched[n] /\ MovesDisposed(n, "simulating", TRUE)
           /\ UNCHANGED answers
  <2>1. Onward(n, "simulating")
    BY <1>0, <1>2 DEF Onward, Keyless, MovesDisposed, Moves, Elsewhere, TypeOK
  <2>2. OnOrOff(n, "simulating")
    BY <1>0, <1>2 DEF OnOrOff, MovesDisposed, InUse, Between
  <2> QED
    BY <1>2, <2>1, <2>2, GoesOn
<1>3. CASE /\ ~Abandoned(n) /\ ~switched[n] /\ Shows(n, rAttempt[n])
           /\ rPhase' = [rPhase EXCEPT ![n] = "waiting"]
           /\ Stays /\ UNCHANGED <<curRun, rCancelled, receiving, flips, rKeys, rAttempt,
                                   simulate, switched>>
  <2>1. Onward(n, "waiting")
    BY <1>0, <1>3 DEF Onward, Keyless, Elsewhere, TypeOK
  <2>2. OnOrOff(n, "waiting") /\ SaidAs(n, "waiting", rAttempt[n])
    BY <1>0, <1>3 DEF OnOrOff, SaidAs, InUse
  <2> QED
    BY <2>1, <2>2, GoesOn
<1> QED
  BY <1>1, <1>2, <1>3 DEF AnswerBuilt

LEMMA AttemptEndsKeeps ==
  ASSUME CInv, NEW n \in Run, AttemptEnds(n)
  PROVE  CInv'
<1>0. TypeOK /\ rPhase[n] = "waiting" /\ UNCHANGED <<answers, hellos, keysMade>> /\ Elsewhere
  BY Facts DEF AttemptEnds
<1>1. ASSUME NEW p \in {"simulating", "fallback"}, NEW b \in BOOLEAN, ~Abandoned(n),
             MovesDisposed(n, p, b)
      PROVE  CInv'
  <2>1. Onward(n, p)
    BY <1>0, <1>1 DEF Onward, Keyless, MovesDisposed, Moves, Elsewhere, TypeOK
  <2>2. OnOrOff(n, p)
    BY <1>0, <1>1 DEF OnOrOff, MovesDisposed, InUse, Between
  <2> QED
    BY <1>0, <2>1, <2>2, GoesOn
<1>2. CASE ThrowsDisposed(n)
  BY <1>0, <1>2, EndsDisposed DEF Elsewhere, InUse
<1> QED
  BY <1>1, <1>2 DEF AttemptEnds

LEMMA ChannelOpensKeeps ==
  ASSUME CInv, NEW n \in Run, ChannelOpens(n)
  PROVE  CInv'
<1>0. TypeOK /\ rPhase[n] = "waiting" /\ UNCHANGED <<answers, hellos, keysMade>> /\ Elsewhere
  BY Facts DEF ChannelOpens
<1>1. CASE ReturnsAsIs(n)
  BY <1>0, <1>1, EndsAsIs DEF Elsewhere
<1>2. CASE Moves(n, "direct", FALSE) /\ Stays
  <2>1. Onward(n, "direct")
    BY <1>0, <1>2 DEF Onward, Keyless, Moves, Elsewhere, TypeOK
  <2>2. OnOrOff(n, "direct")
    BY <1>0, <1>2 DEF OnOrOff, InUse
  <2> QED
    BY <1>0, <2>1, <2>2, GoesOn
<1> QED
  BY <1>1, <1>2 DEF ChannelOpens

LEMMA SimulatedAnswerKeeps ==
  ASSUME CInv, NEW n \in Run, SimulatedAnswer(n)
  PROVE  CInv'
<1>0. TypeOK /\ rPhase[n] = "simulating" /\ UNCHANGED <<hellos, keysMade>> /\ Elsewhere
  BY Facts DEF SimulatedAnswer
<1>1. CASE ReturnsAsIs(n) /\ UNCHANGED answers
  BY <1>0, <1>1, EndsAsIs DEF Elsewhere
<1>2. ASSUME NEW p \in {"storing", "fallback"}, NEW b \in BOOLEAN, Moves(n, p, b), Stays,
             answers' = answers \/ Shows(n, 0)
      PROVE  CInv'
  <2>1. Onward(n, p)
    BY <1>0, <1>2 DEF Onward, Keyless, Moves, Elsewhere, TypeOK
  <2>2. OnOrOff(n, p)
    BY <1>0, <1>2 DEF OnOrOff, InUse
  <2>3. answers' = answers \/ SaidAs(n, p, 0)
    BY <1>0, <1>2 DEF SaidAs
  <2> QED
    BY <2>1, <2>2, <2>3, GoesOn
<1> QED
  BY <1>1, <1>2 DEF SimulatedAnswer

LEMMA FallbackSwitchedKeeps ==
  ASSUME CInv, NEW n \in Run, FallbackSwitched(n)
  PROVE  CInv'
<1>0. /\ TypeOK /\ rPhase[n] = "fallback" /\ Moves(n, "renewing", TRUE) /\ Stays
      /\ UNCHANGED <<answers, hellos, keysMade>> /\ Elsewhere
  BY Facts DEF FallbackSwitched
<1>1. Onward(n, "renewing")
  BY <1>0 DEF Onward, Keyless, Moves, Elsewhere, TypeOK
<1>2. OnOrOff(n, "renewing")
  BY <1>0 DEF OnOrOff, InUse
<1> QED
  BY <1>0, <1>1, <1>2, GoesOn

\* A receive that only reads its offer, a flip of the switch and a hello.
LEMMA OfferReadKeeps ==
  ASSUME CInv, NEW n \in Run, OfferRead(n)
  PROVE  CInv'
<1>0. TypeOK /\ Attempts /\ Keys /\ Answered /\ InCharge /\ Kept(attempts, rtcRef, sinkRef)
  BY Facts
<1>1. /\ rPhase[n] = "offer" /\ Elsewhere /\ Stays
      /\ UNCHANGED <<answers, hellos, curRun, rCancelled, receiving, flips, keysMade, rKeys,
                     rAttempt, simulate, switched>>
      /\ rPhase' = [rPhase EXCEPT ![n] = "keys"]
  BY DEF OfferRead
<1>2. \A m \in Run : rPhase'[m] = IF m = n THEN "keys" ELSE rPhase[m]
  BY <1>0, <1>1 DEF TypeOK
<1>3. Alone
  BY <1>1, Facts DEF Alone, Stays, Elsewhere
<1>4. TypeOK'
  BY <1>0, <1>1 DEF TypeOK, Stays, Elsewhere, senderVars
<1>5. Attempts'
  BY <1>0, <1>1, <1>2 DEF Attempts, Stays, InUse
<1>6. Keys'
  <2>1. \A m \in Run : rKeys'[m] = 0 <=> rPhase'[m] \in Keyless
    BY <1>0, <1>1, <1>2 DEF Keys, Keyless
  <2>2. \A m \in Run : rKeys'[m] \in hellos' => rPhase'[m] \in {"fallback", "renewing"}
    BY <1>0, <1>1, <1>2 DEF Keys
  <2> QED
    BY <1>0, <1>1, <2>1, <2>2 DEF Keys
<1>7. Answered'
  BY <1>0, <1>1, <1>2 DEF Answered, Closed, Stays
<1>8. Kept(attempts, rtcRef, sinkRef)'
  BY <1>0, <1>1, <1>2 DEF Kept, Stays, Abandoned, InUse, Between
<1>9. InCharge'
  BY <1>0, <1>1, <1>2 DEF InCharge, Abandoned
<1> QED
  BY <1>3, <1>4, <1>5, <1>6, <1>7, <1>8, <1>9, SenderLeftAlone DEF CInv, ReceiverInv

LEMMA FlipKeeps ==
  ASSUME CInv, NEW n \in Run, Flip(n)
  PROVE  CInv'
<1>0. TypeOK /\ Attempts /\ Keys /\ Answered /\ InCharge /\ Kept(attempts, rtcRef, sinkRef)
  BY Facts
<1>1. /\ Elsewhere /\ Stays /\ flips < Flips /\ flips' = flips + 1
      /\ UNCHANGED <<answers, hellos, curRun, rCancelled, receiving, keysMade, rPhase, rKeys,
                     rAttempt, simulate>>
      /\ switched' = [switched EXCEPT ![n] = TRUE]
  BY DEF Flip
<1>2. TypeOK'
  <2>1. flips' \in 0 .. Flips
    BY <1>0, <1>1 DEF TypeOK
  <2>2. switched' \in [Run -> BOOLEAN]
    BY <1>0, <1>1 DEF TypeOK
  <2> QED
    BY <1>0, <1>1, <2>1, <2>2 DEF TypeOK, Stays, Elsewhere, senderVars
<1>3. Alone
  BY <1>1, Facts DEF Alone, Stays, Elsewhere
<1>4. (Attempts /\ Keys /\ Answered /\ Kept(attempts, rtcRef, sinkRef) /\ InCharge)'
  BY <1>0, <1>1 DEF Attempts, Keys, Answered, Kept, InCharge, Closed, Abandoned, Stays
<1> QED
  BY <1>2, <1>3, <1>4, SenderLeftAlone DEF CInv, ReceiverInv

LEMMA SayHelloKeeps ==
  ASSUME CInv, NEW n \in Run, SayHello(n)
  PROVE  CInv'
<1>0. TypeOK /\ Attempts /\ Keys /\ Answered /\ InCharge /\ Kept(attempts, rtcRef, sinkRef)
  BY Facts
<1>1. /\ rPhase[n] = "fallback" /\ Elsewhere /\ UNCHANGED <<answers, refVars, runVars>>
      /\ hellos' = hellos \cup {rKeys[n]}
  BY DEF SayHello
<1>2. rKeys[n] \in 1 .. keysMade /\ keysMade \in Nat /\ rKeys[n] \in Nat
  <2>1. rKeys[n] \in 0 .. keysMade /\ keysMade \in Nat
    BY <1>0 DEF Keys, TypeOK
  <2>2. rKeys[n] # 0
    <3>1. rPhase[n] \notin Keyless
      BY <1>1 DEF Keyless
    <3> QED
      BY <1>0, <3>1 DEF Keys
  <2> QED
    BY <2>1, <2>2
<1>3. TypeOK'
  <2>1. hellos' \subseteq Nat
    BY <1>0, <1>1, <1>2 DEF TypeOK
  <2> QED
    BY <1>0, <1>1, <2>1 DEF TypeOK, Elsewhere, senderVars, refVars, runVars
<1>4. Alone
  BY <1>1, Facts DEF Alone, Elsewhere, refVars
<1>5. (Attempts /\ Kept(attempts, rtcRef, sinkRef) /\ InCharge)'
  BY <1>0, <1>1 DEF Attempts, Kept, InCharge, Abandoned, refVars, runVars
<1>6. Keys'
  <2>1. hellos' \subseteq 1 .. keysMade
    BY <1>0, <1>1, <1>2 DEF Keys
  <2>2. \A m \in Run : rKeys[m] \in hellos' => rPhase[m] \in {"fallback", "renewing"}
    BY <1>0, <1>1, <1>2 DEF Keys
  <2> QED
    BY <1>0, <1>1, <2>1, <2>2 DEF Keys, refVars, runVars
<1>7. Answered'
  <2>1. ASSUME NEW i \in 1 .. Len(answers), answers[i].keys \in hellos',
               answers[i].attempt # 0
        PROVE  Closed(answers[i].attempt)
    BY <1>0, <1>1, <2>1 DEF Answered
  <2> QED
    BY <1>0, <1>1, <2>1 DEF Answered, Closed, refVars, runVars
<1> QED
  BY <1>3, <1>4, <1>5, <1>6, <1>7, SenderLeftAlone DEF CInv, ReceiverInv

-----------------------------------------------------------------------------
(* New keys, a new attempt, a new receive, and a cancel *)

LEMMA KeysReadyKeeps ==
  ASSUME CInv, NEW n \in Run, KeysReady(n)
  PROVE  CInv'
<1>0. /\ TypeOK /\ Attempts /\ Keys /\ Answered /\ InCharge
      /\ Kept(attempts, rtcRef, sinkRef) /\ keysMade \in Nat
  BY Facts
<1>1. /\ rPhase[n] \in {"keys", "renewing"} /\ keysMade' = keysMade + 1
      /\ UNCHANGED <<answers, hellos>> /\ Elsewhere
  BY DEF KeysReady
<1>2. CASE Abandoned(n)
  BY <1>1, <1>2, EndsAsIs DEF KeysReady, Elsewhere
<1>3. CASE ~Abandoned(n)
  <2>1. /\ rKeys' = [rKeys EXCEPT ![n] = keysMade + 1]
        /\ rPhase' = [rPhase EXCEPT ![n] = "storing"]
        /\ simulate' = [simulate EXCEPT ![n] = FALSE]
        /\ switched' = [switched EXCEPT ![n] = FALSE]
        /\ Stays /\ UNCHANGED <<curRun, rCancelled, receiving, flips, rAttempt>>
    BY <1>3 DEF KeysReady, NewKeys
  <2>2. /\ \A m \in Run : rPhase'[m] = IF m = n THEN "storing" ELSE rPhase[m]
        /\ \A m \in Run : rKeys'[m] = IF m = n THEN keysMade + 1 ELSE rKeys[m]
    BY <1>0, <2>1 DEF TypeOK
  <2>3. Alone
    BY <1>1, <2>1, Facts DEF Alone, Stays, Elsewhere
  <2>4. TypeOK'
    <3>1. /\ rPhase' \in [Run -> {"idle", "offer", "keys", "storing", "answer", "waiting",
                            "direct", "simulating", "fallback", "renewing", "ended"}]
          /\ rKeys' \in [Run -> Nat]
          /\ simulate' \in [Run -> BOOLEAN] /\ switched' \in [Run -> BOOLEAN]
      BY <1>0, <2>1 DEF TypeOK
    <3>2. keysMade' \in Nat
      BY <1>0, <1>1
    <3> QED
      BY <1>0, <1>1, <2>1, <3>1, <3>2 DEF TypeOK, Stays, Elsewhere, senderVars
  <2>5. Attempts'
    BY <1>0, <1>1, <2>1, <2>2 DEF Attempts, Stays, InUse
  <2>6. Keys'
    <3>1. \A m \in Run : rKeys[m] \in 0 .. keysMade
      BY <1>0 DEF Keys
    <3>2. \A m \in Run : rKeys'[m] \in 0 .. keysMade'
      BY <1>0, <1>1, <2>2, <3>1
    <3>3. \A m \in Run : rKeys'[m] = 0 <=> rPhase'[m] \in Keyless
      BY <1>0, <1>1, <2>2 DEF Keys, Keyless
    <3>4. \A l, m \in Run : rKeys'[l] = rKeys'[m] /\ rKeys'[l] # 0 => l = m
      BY <1>0, <1>1, <2>2, <3>1 DEF Keys
    <3>5. /\ \A i \in 1 .. Len(answers) : answers[i].keys \in 1 .. keysMade'
          /\ hellos \subseteq 1 .. keysMade' /\ keysMade + 1 \notin hellos
      BY <1>0, <1>1 DEF Keys
    <3>6. \A m \in Run : rKeys'[m] \in hellos => rPhase'[m] \in {"fallback", "renewing"}
      BY <1>0, <2>2, <3>5 DEF Keys
    <3> QED
      BY <1>1, <3>2, <3>3, <3>4, <3>5, <3>6 DEF Keys
  <2>7. Answered'
    <3>1. \A i \in 1 .. Len(answers) : answers[i].keys # keysMade + 1
      BY <1>0 DEF Keys
    <3> QED
      BY <1>0, <1>1, <2>1, <2>2, <3>1 DEF Answered, Closed, Stays
  <2>8. Kept(attempts, rtcRef, sinkRef)'
    BY <1>0, <1>1, <2>1, <2>2 DEF Kept, Stays, Abandoned, InUse, Between
  <2>9. InCharge'
    BY <1>0, <1>1, <2>1, <2>2 DEF InCharge, Abandoned
  <2> QED
    BY <2>3, <2>4, <2>5, <2>6, <2>7, <2>8, <2>9, SenderLeftAlone DEF CInv, ReceiverInv
<1> QED
  BY <1>2, <1>3

LEMMA SinkCreatedKeeps ==
  ASSUME CInv, NEW n \in Run, SinkCreated(n)
  PROVE  CInv'
<1>0. /\ TypeOK /\ Attempts /\ Keys /\ Answered /\ InCharge
      /\ Kept(attempts, rtcRef, sinkRef) /\ attempts \in Seq(Attempt)
      /\ Len(attempts) \in Nat /\ Referred(attempts, rtcRef, sinkRef)
  BY Facts
<1>1. /\ rPhase[n] = "storing" /\ UNCHANGED <<answers, hellos, keysMade>> /\ Elsewhere
  BY DEF SinkCreated
<1>2. CASE Abandoned(n)
  BY <1>1, <1>2, StorageRefused DEF SinkCreated, Elsewhere
<1>3. CASE ~Abandoned(n)
  <2> DEFINE x == [rtc |-> "open", sink |-> "open"]
             k == Len(attempts) + 1
  <2>0. x \in Attempt /\ x.rtc = "open" /\ x.sink = "open" /\ k \in Nat /\ k # 0
    BY <1>0 DEF Attempt
  <2>1. /\ attempts' = Append(attempts, x)
        /\ rtcRef' = Len(attempts') /\ sinkRef' = Len(attempts')
        /\ rAttempt' = [rAttempt EXCEPT ![n] = Len(attempts')]
        /\ rPhase' = [rPhase EXCEPT ![n] = "answer"]
        /\ UNCHANGED <<curRun, rCancelled, receiving, flips, rKeys, simulate, switched>>
    BY <1>3 DEF SinkCreated
  <2> HIDE DEF x
  <2>2. /\ attempts' \in Seq(Attempt) /\ Len(attempts') = k /\ attempts'[k] = x
        /\ \A a \in 1 .. Len(attempts) : attempts'[a] = attempts[a]
    BY <1>0, <2>0, <2>1
  <2>3. /\ \A m \in Run : rPhase'[m] = IF m = n THEN "answer" ELSE rPhase[m]
        /\ \A m \in Run : rAttempt'[m] = IF m = n THEN k ELSE rAttempt[m]
        /\ rtcRef' = k /\ sinkRef' = k
    BY <1>0, <2>1, <2>2 DEF TypeOK
  <2>4. Alone
    BY <1>0, <1>1, <2>2, Facts DEF Alone, Lasting, Closed, Elsewhere
  <2>5. TypeOK'
    <3>1. /\ rPhase' \in [Run -> {"idle", "offer", "keys", "storing", "answer", "waiting",
                            "direct", "simulating", "fallback", "renewing", "ended"}]
          /\ rAttempt' \in [Run -> Nat]
      BY <1>0, <2>0, <2>1, <2>2 DEF TypeOK
    <3>2. /\ attempts' \in Seq([rtc : {"open", "closed", "taken"}, sink : {"open", "discarded"}])
          /\ rtcRef' \in Nat /\ sinkRef' \in Nat
      BY <2>0, <2>2, <2>3 DEF Attempt
    <3> QED
      BY <1>0, <1>1, <2>1, <3>1, <3>2 DEF TypeOK, Elsewhere, senderVars
  <2>6. Attempts'
    <3>1. \A m \in Run : rAttempt[m] \in 0 .. Len(attempts)
      BY <1>0 DEF Attempts
    <3>2. \A m \in Run : rAttempt'[m] \in 0 .. Len(attempts')
      BY <1>0, <2>2, <2>3, <3>1
    <3>3. rtcRef' \in 0 .. Len(attempts') /\ sinkRef' \in 0 .. Len(attempts')
      BY <1>0, <2>2, <2>3
    <3>4. \A m \in Run : rPhase'[m] \in InUse => rAttempt'[m] # 0
      BY <1>0, <2>0, <2>3 DEF Attempts
    <3>5. \A l, m \in Run : rAttempt'[l] = rAttempt'[m] /\ rAttempt'[l] # 0 => l = m
      BY <1>0, <2>3, <3>1 DEF Attempts
    <3>6. \A i \in 1 .. Len(answers) : answers[i].attempt \in 0 .. Len(attempts')
      BY <1>0, <2>2 DEF Attempts
    <3> QED
      BY <1>1, <3>2, <3>3, <3>4, <3>5, <3>6 DEF Attempts
  <2>7. Keys'
    <3>1. \A m \in Run : rKeys'[m] = 0 <=> rPhase'[m] \in Keyless
      BY <1>0, <1>1, <2>1, <2>3 DEF Keys, Keyless
    <3>2. \A m \in Run : rKeys'[m] \in hellos' => rPhase'[m] \in {"fallback", "renewing"}
      BY <1>0, <1>1, <2>1, <2>3 DEF Keys
    <3> QED
      BY <1>0, <1>1, <2>1, <3>1, <3>2 DEF Keys
  <2>8. Answered'
    <3>1. \A i \in 1 .. Len(answers) :
            answers[i].attempt # 0 => attempts'[answers[i].attempt] = attempts[answers[i].attempt]
      BY <1>0, <2>2 DEF Attempts
    <3> QED
      BY <1>0, <1>1, <2>1, <2>3, <3>1 DEF Answered, Closed
  <2>9. Kept(attempts, rtcRef, sinkRef)'
    <3>1. Referred(attempts, 0, 0)
      BY <1>0, <1>1, <1>3 DEF Kept, Between
    <3>2. \A a \in 1 .. Len(attempts') : /\ attempts'[a].sink = "open" => a = k
                                         /\ attempts'[a].rtc = "open" => a = k
      BY <1>0, <2>2, <3>1 DEF Referred
    <3>3. \A m \in Run : ~Abandoned(m)' => m = n
      BY <1>3, <2>1 DEF Abandoned
    <3>4. receiving'
      BY <1>0, <1>1, <1>3, <2>1 DEF InCharge
    <3> QED
      BY <2>0, <2>2, <2>3, <3>2, <3>3, <3>4 DEF Kept, Between
  <2>10. InCharge'
    BY <1>0, <1>1, <2>1, <2>3 DEF InCharge, Abandoned
  <2> QED
    BY <2>4, <2>5, <2>6, <2>7, <2>8, <2>9, <2>10, SenderLeftAlone DEF CInv, ReceiverInv
<1> QED
  BY <1>2, <1>3

LEMMA StartReceiveKeeps ==
  ASSUME CInv, StartReceive
  PROVE  CInv'
<1> DEFINE n == curRun + 1
           at == Discarded(attempts, sinkRef)
<1>0. /\ TypeOK /\ Attempts /\ Keys /\ Answered /\ InCharge
      /\ Kept(attempts, rtcRef, sinkRef) /\ Referred(attempts, rtcRef, sinkRef)
      /\ Lasting(attempts) /\ sinkRef \in Nat /\ Len(attempts) \in Nat
  BY Facts
<1>1. /\ ~receiving /\ receiving' = TRUE /\ rCancelled' = FALSE /\ curRun' = n
      /\ attempts' = at /\ sinkRef' = 0 /\ rtcRef' = rtcRef
      /\ rPhase' = [rPhase EXCEPT ![n] = "offer"] /\ Elsewhere
      /\ UNCHANGED <<answers, hellos, flips, keysMade, rKeys, rAttempt, simulate, switched>>
  BY DEF StartReceive
<1>2. n \in Run /\ rPhase[n] = "idle" /\ n # curRun /\ n > curRun
  <2>1. curRun < Runs
    BY DEF StartReceive
  <2>2. n \in Run /\ n # curRun /\ n > curRun
    BY <1>0, <2>1 DEF TypeOK, Run
  <2> QED
    BY <1>0, <2>2 DEF InCharge
<1>3. rtcRef = 0
  BY <1>0, <1>1 DEF Kept
<1>4. Lasting(at) /\ Referred(at, rtcRef, 0) /\ Len(at) = Len(attempts) /\ at \in Seq(Attempt)
  BY <1>0, DiscardsAll DEF Lasting
<1> HIDE DEF at
<1>5. \A m \in Run : rPhase'[m] = IF m = n THEN "offer" ELSE rPhase[m]
  BY <1>0, <1>1 DEF TypeOK
<1>6. Alone
  BY <1>1, <1>4, Facts DEF Alone, Elsewhere
<1>7. TypeOK'
  <2>1. rPhase' \in [Run -> {"idle", "offer", "keys", "storing", "answer", "waiting",
                         "direct", "simulating", "fallback", "renewing", "ended"}]
    BY <1>0, <1>1 DEF TypeOK
  <2>2. attempts' \in Seq([rtc : {"open", "closed", "taken"}, sink : {"open", "discarded"}])
    BY <1>1, <1>4 DEF Attempt
  <2>3. curRun' \in 0 .. Runs
    BY <1>1, <1>2 DEF Run
  <2> QED
    BY <1>0, <1>1, <2>1, <2>2, <2>3 DEF TypeOK, Elsewhere, senderVars
<1>8. Attempts'
  <2>1. Len(attempts') = Len(attempts)
    BY <1>1, <1>4
  <2>2. \A m \in Run : rPhase'[m] \in InUse => rPhase[m] \in InUse
    BY <1>5 DEF InUse
  <2>3. sinkRef' \in 0 .. Len(attempts)
    BY <1>0, <1>1
  <2> QED
    BY <1>0, <1>1, <2>1, <2>2, <2>3 DEF Attempts
<1>9. Keys'
  <2>1. \A m \in Run : rKeys'[m] = 0 <=> rPhase'[m] \in Keyless
    BY <1>0, <1>1, <1>2, <1>5 DEF Keys, Keyless
  <2>2. \A m \in Run : rKeys'[m] \in hellos' => rPhase'[m] \in {"fallback", "renewing"}
    BY <1>0, <1>1, <1>2, <1>5 DEF Keys
  <2> QED
    BY <1>0, <1>1, <2>1, <2>2 DEF Keys
<1>10. Answered'
  <2>1. \A i \in 1 .. Len(answers) :
          answers[i].attempt # 0 /\ Closed(answers[i].attempt)
            => attempts'[answers[i].attempt].rtc # "open"
    BY <1>0, <1>1, <1>4 DEF Attempts, Lasting
  <2>2. \A m \in Run : rPhase[m] \in {"waiting", "direct"} => rPhase'[m] = rPhase[m]
    BY <1>2, <1>5
  <2> QED
    BY <1>0, <1>1, <2>1, <2>2 DEF Answered, Closed
<1>11. Kept(attempts, rtcRef, sinkRef)'
  <2>1. \A m \in Run : ~Abandoned(m)' => m = n
    BY <1>1 DEF Abandoned
  <2>2. Referred(attempts', rtcRef', sinkRef') /\ rtcRef' = 0 /\ sinkRef' = 0
    BY <1>1, <1>3, <1>4
  <2> QED
    BY <1>1, <1>5, <2>1, <2>2 DEF Kept, Referred, InUse
<1>12. InCharge'
  <2>1. \A m \in Run : m > n => rPhase'[m] = "idle"
    BY <1>0, <1>2, <1>5 DEF InCharge, TypeOK, Run
  <2> QED
    BY <1>1, <2>1 DEF InCharge
<1> QED
  BY <1>6, <1>7, <1>8, <1>9, <1>10, <1>11, <1>12, SenderLeftAlone DEF CInv, ReceiverInv

LEMMA CancelKeeps ==
  ASSUME CInv, Cancel
  PROVE  CInv'
<1> DEFINE d == Discarded(attempts, sinkRef)
           at == HungUp(d, rtcRef)
<1>0. /\ TypeOK /\ Attempts /\ Keys /\ Answered /\ InCharge
      /\ Kept(attempts, rtcRef, sinkRef) /\ Referred(attempts, rtcRef, sinkRef)
      /\ Lasting(attempts) /\ sinkRef \in Nat /\ rtcRef \in Nat /\ Len(attempts) \in Nat
  BY Facts
<1>1. /\ receiving' = FALSE /\ rCancelled' = TRUE
      /\ attempts' = at /\ sinkRef' = 0 /\ rtcRef' = 0
      /\ rPhase' = [rPhase EXCEPT ![curRun] = IF @ = "offer" THEN "ended" ELSE @] /\ Elsewhere
      /\ UNCHANGED <<answers, hellos, curRun, flips, keysMade, rKeys, rAttempt, simulate,
                     switched>>
  BY DEF Cancel
<1>2. Lasting(d) /\ Referred(d, rtcRef, 0) /\ Len(d) = Len(attempts) /\ d \in Seq(Attempt)
  BY <1>0, DiscardsAll DEF Lasting
<1> HIDE DEF d
<1>3. /\ at \in Seq(Attempt) /\ Len(at) = Len(d)
      /\ \A i \in 1 .. Len(d) : /\ at[i].rtc = IF i = rtcRef THEN "closed" ELSE d[i].rtc
                                /\ at[i].sink = d[i].sink
  BY <1>0, <1>2, HungUpFacts
<1> HIDE DEF at
<1>4. Lasting(at) /\ Referred(at, 0, 0) /\ Len(at) = Len(attempts)
  BY <1>0, <1>2, <1>3 DEF Lasting, Referred
<1>5. \A m \in Run : rPhase'[m] = IF m = curRun /\ rPhase[m] = "offer" THEN "ended"
                                                                     ELSE rPhase[m]
  BY <1>0, <1>1 DEF TypeOK
<1>6. Alone
  BY <1>1, <1>4, Facts DEF Alone, Elsewhere
<1>7. TypeOK'
  <2>1. rPhase' \in [Run -> {"idle", "offer", "keys", "storing", "answer", "waiting",
                         "direct", "simulating", "fallback", "renewing", "ended"}]
    BY <1>0, <1>1 DEF TypeOK
  <2>2. attempts' \in Seq([rtc : {"open", "closed", "taken"}, sink : {"open", "discarded"}])
    BY <1>1, <1>3 DEF Attempt
  <2> QED
    BY <1>0, <1>1, <2>1, <2>2 DEF TypeOK, Elsewhere, senderVars
<1>8. Attempts'
  <2>1. Len(attempts') = Len(attempts)
    BY <1>1, <1>4
  <2>2. \A m \in Run : rPhase'[m] \in InUse => rPhase[m] \in InUse
    BY <1>5 DEF InUse
  <2>3. sinkRef' \in 0 .. Len(attempts) /\ rtcRef' \in 0 .. Len(attempts)
    BY <1>0, <1>1
  <2> QED
    BY <1>0, <1>1, <2>1, <2>2, <2>3 DEF Attempts
<1>9. Keys'
  <2>1. \A m \in Run : rKeys'[m] = 0 <=> rPhase'[m] \in Keyless
    BY <1>0, <1>1, <1>5 DEF Keys, Keyless
  <2>2. \A m \in Run : rKeys'[m] \in hellos' => rPhase'[m] \in {"fallback", "renewing"}
    BY <1>0, <1>1, <1>5 DEF Keys
  <2> QED
    BY <1>0, <1>1, <2>1, <2>2 DEF Keys
<1>10. Answered'
  <2>1. \A i \in 1 .. Len(answers) :
          answers[i].attempt # 0 /\ Closed(answers[i].attempt)
            => attempts'[answers[i].attempt].rtc # "open"
    BY <1>0, <1>1, <1>4 DEF Attempts, Lasting
  <2>2. \A m \in Run : rPhase[m] \in {"waiting", "direct"} => rPhase'[m] = rPhase[m]
    BY <1>5
  <2> QED
    BY <1>0, <1>1, <2>1, <2>2 DEF Answered, Closed
<1>11. Kept(attempts, rtcRef, sinkRef)'
  <2>1. \A m \in Run : Abandoned(m)'
    BY <1>1 DEF Abandoned
  <2>2. Referred(attempts', rtcRef', sinkRef') /\ rtcRef' = 0
    BY <1>1, <1>4
  <2> QED
    BY <2>1, <2>2 DEF Kept, Referred
<1>12. InCharge'
  <2>1. \A m \in Run : Abandoned(m)'
    BY <1>1 DEF Abandoned
  <2>2. \A m \in Run : m > curRun => rPhase'[m] = "idle"
    BY <1>0, <1>5 DEF InCharge
  <2> QED
    BY <1>1, <2>1, <2>2 DEF InCharge
<1> QED
  BY <1>6, <1>7, <1>8, <1>9, <1>10, <1>11, <1>12, SenderLeftAlone DEF CInv, ReceiverInv

-----------------------------------------------------------------------------
(* The exchange *)

LEMMA InitHolds ==
  ASSUME Init
  PROVE  CInv
<1>1. TypeOK
  <2>1. /\ curRun \in 0 .. Runs /\ flips \in 0 .. Flips /\ hellos \subseteq Nat
        /\ sAnswer \in Nat /\ linked \in Nat /\ rtcRef \in Nat /\ sinkRef \in Nat
        /\ keysMade \in Nat
    BY DEF Init
  <2>2. /\ rPhase \in [Run -> {"idle", "offer", "keys", "storing", "answer", "waiting",
                               "direct", "simulating", "fallback", "renewing", "ended"}]
        /\ rKeys \in [Run -> Nat] /\ rAttempt \in [Run -> Nat]
        /\ simulate \in [Run -> BOOLEAN] /\ switched \in [Run -> BOOLEAN]
    BY DEF Init
  <2>3. /\ answers \in Seq([attempt : Nat, keys : Nat])
        /\ attempts \in Seq([rtc : {"open", "closed", "taken"}, sink : {"open", "discarded"}])
    BY DEF Init
  <2> QED
    BY <2>1, <2>2, <2>3 DEF Init, TypeOK
<1>2. /\ attempts = <<>> /\ answers = <<>> /\ hellos = {} /\ rtcRef = 0 /\ sinkRef = 0
      /\ Len(attempts) = 0 /\ Len(answers) = 0 /\ keysMade = 0
      /\ \A n \in Run : rPhase[n] = "idle" /\ rKeys[n] = 0 /\ rAttempt[n] = 0
      /\ sPhase = "showing" /\ sKeys = "none" /\ sWhy = "none"
  BY DEF Init
<1>3. Attempts
  BY <1>2 DEF Attempts, InUse
<1>4. Keys /\ Answered
  BY <1>2 DEF Keys, Keyless, Answered
<1>5. Kept(attempts, rtcRef, sinkRef) /\ InCharge
  BY <1>2 DEF Kept, InCharge, InUse, Between
<1>6. KeyHeld /\ Told
  BY <1>2 DEF KeyHeld, Told
<1> QED
  BY <1>1, <1>3, <1>4, <1>5, <1>6 DEF CInv, ReceiverInv

LEMMA NextKeeps ==
  ASSUME CInv, [Next]_vars
  PROVE  CInv'
<1>1. ASSUME NEW n \in Run,
             \/ BuildFails(n) \/ DirectFails(n) \/ FallbackFails(n)
      PROVE  CInv'
  BY <1>1, EndsAsIs, EndsDisposed DEF BuildFails, DirectFails, FallbackFails, Elsewhere, InUse
<1> QED
  BY <1>1, SenderKeeps, StartReceiveKeeps, CancelKeeps, FlipKeeps, OfferReadKeeps,
     KeysReadyKeeps, SinkCreatedKeeps, AnswerBuiltKeeps, AttemptEndsKeeps, ChannelOpensKeeps,
     DirectDoneKeeps, SimulatedAnswerKeeps, SayHelloKeeps, FallbackSwitchedKeeps,
     FallbackDeliversKeeps DEF Next

\* The invariant holds of every exchange, whatever the number of receives.
THEOREM ExchangeCorrect == Spec => []CInv
<1>1. Init => CInv
  BY InitHolds
<1>2. CInv /\ [Next]_vars => CInv'
  BY NextKeeps
<1> QED
  BY <1>1, <1>2, PTL DEF Spec

\* Variables keep their types.
THEOREM TypeCorrect == Spec => []TypeOK
<1>1. CInv => TypeOK
  BY DEF CInv, ReceiverInv
<1> QED
  BY <1>1, ExchangeCorrect, PTL

\* The sender's session key does not outlive the exchange: whatever ends it, and
\* wherever in the hand-over to a fallback, the key was wiped or never derived.
THEOREM KeysWipedCorrect == Spec => []KeysWiped
<1>1. CInv => KeysWiped
  BY DEF CInv, KeyHeld, KeysWiped
<1> QED
  BY <1>1, ExchangeCorrect, PTL

\* A hello that ends the sender's direct attempt speaks of the answer the sender holds,
\* whatever the number of receives, stints and flips of the switch before it.
THEOREM HelloIsTrueCorrect == Spec => []HelloIsTrue
<1>1. CInv => HelloIsTrue
  BY DEF CInv, Told, HelloIsTrue, Closed
<1> QED
  BY <1>1, ExchangeCorrect, PTL

\* Nothing open is out of reach of the refs, what the receive in charge stores is let go
\* of by no other, its connection is missing only when an earlier receive that stored its
\* last bytes late closed it, and none is left when no receive is on.
THEOREM NothingLeftBehindCorrect == Spec => []NothingLeftBehind
<1>1. CInv => NothingLeftBehind
  <2> SUFFICES ASSUME CInv PROVE NothingLeftBehind
    OBVIOUS
  <2>1. Kept(attempts, rtcRef, sinkRef) /\ attempts \in Seq(Attempt)
    BY Facts
  <2>2. DOMAIN attempts = 1 .. Len(attempts)
    BY <2>1
  <2> QED
    BY <2>1, <2>2 DEF Kept, NothingLeftBehind
<1> QED
  BY <1>1, ExchangeCorrect, PTL

===============================================================================
