-------------------------- MODULE RelayStoreProofs --------------------------
(* The relay cache's promises for any number of processes and callers, on   *)
(* either kind of lock, with deadlines, failing writes and crashes.         *)
EXTENDS RelayStore, TLAPS

(* The inductive invariant *)

\* Of two calls of one process that wait or run, one asked after the other.
Ordered ==
  \A c, d \in Caller :
    /\ phase[c] \in Pending
    /\ phase[d] \in Pending
    /\ Proc[c] = Proc[d]
    => c = d \/ c \in ahead[d] \/ d \in ahead[c]

\* Who is past the queue finds nobody of its queue still pending.
Turns ==
  \A c, d \in Caller :
    phase[c] \in Inside /\ d \in ahead[c] => phase[d] \notin Pending

Asked == \A c, d \in Caller : d \in ahead[c] => phase[d] # "idle"

Held == holders = {c \in Caller : phase[c] \in Critical}

\* What is about to be renamed into place goes on from what is in place, or
\* from nothing where the read failed; then it missed all that is in place.
Base(c) == IF missed[c] = {} THEN file.has ELSE {}
Current ==
  \A c \in Caller :
    /\ phase[c] \in {"writing", "renaming"} =>
         cache[c] = Base(c) \union {c} /\ missed[c] \in {{}, file.has}
    /\ phase[c] = "renaming" => partial[Proc[c]] = Whole(cache[c])

NotRunYet ==
  \A c \in Caller :
    phase[c] \in {"idle", "queued", "opening", "trying", "reading", "unlocked"}
      => runs[c] = 0 /\ missed[c] = {}

NotKeptYet ==
  \A c \in Caller :
    phase[c] \in {"idle", "queued", "opening", "trying", "reading", "unlocked",
                 "writing", "renaming"}
      => fate[c] # "kept"

QInv == TypeOK /\ Ordered /\ Turns /\ Asked /\ Held /\ OneWriter
IInv == QInv /\ Current /\ NotRunYet /\ NotKeptYet /\ NothingLost

USE DEF Goes

-----------------------------------------------------------------------------
(* Types *)

LEMMA InitType == Init => TypeOK
BY DEF Init, TypeOK, Phases, Pending, Inside, Critical, Torn, Whole, Contents

LEMMA ContentsFacts ==
  /\ Torn \in Contents
  /\ \A s \in SUBSET Caller : Whole(s) \in Contents
  /\ \A x \in Contents : x.has \subseteq Caller
BY DEF Contents, Torn, Whole

LEMMA StepType == TypeOK /\ NotRunYet /\ [Next]_vars => TypeOK'
<1> SUFFICES ASSUME TypeOK, NotRunYet, [Next]_vars PROVE TypeOK'
  OBVIOUS
<1> USE ProcAssumption, ContentsFacts
    DEF TypeOK, NotRunYet, Phases, Pending, Inside, Critical
<1>1. ASSUME NEW c \in Caller, Ask(c) \/ DirectoryFails(c) PROVE TypeOK'
  BY <1>1 DEF Ask, DirectoryFails
<1>2. ASSUME NEW c \in Caller, TakeTurn(c) \/ Open(c) \/ OpenFails(c) \/ TryAcquire(c) \/ StayedLocked(c)
      PROVE TypeOK'
  BY <1>2 DEF TakeTurn, Open, OpenFails, TryAcquire, StayedLocked
<1>3. ASSUME NEW c \in Caller, ReadAndChange(c) \/ ReadEmptyAndChange(c) PROVE TypeOK'
  <2>1. PICK found \in SUBSET Caller : Changing(c, found)
    BY <1>3 DEF ReadAndChange, ReadEmptyAndChange
  <2>2. runs[c] = 0 /\ Changed(c, found) \in SUBSET Caller
    BY <1>3 DEF ReadAndChange, ReadEmptyAndChange, Changed
  <2>3. runs' \in [Caller -> 0..2] /\ cache' \in [Caller -> SUBSET Caller]
    BY <2>1, <2>2 DEF Changing
  <2>4. partial' \in [Process -> Contents] /\ phase' \in [Caller -> Phases]
    BY <2>1 DEF Changing
  <2>5. missed' \in [Caller -> SUBSET Caller]
    BY <1>3 DEF ReadAndChange, ReadEmptyAndChange
  <2> QED
    BY <2>1, <2>3, <2>4, <2>5 DEF Changing
<1>10. ASSUME NEW c \in Caller, ChangeThrows(c) PROVE TypeOK'
  <2>1. runs' \in [Caller -> 0..2]
    BY <1>10 DEF ChangeThrows
  <2> QED
    BY <1>10, <2>1 DEF ChangeThrows
<1>4. ASSUME NEW c \in Caller, WriteEnds(c) PROVE TypeOK'
  <2>1. Whole(cache[c]) \in Contents
    OBVIOUS
  <2> QED
    BY <1>4, <2>1 DEF WriteEnds
<1>5. ASSUME NEW c \in Caller, Rename(c) \/ WriteFails(c) PROVE TypeOK'
  BY <1>5 DEF Rename, WriteFails
<1>6. ASSUME NEW c \in Caller, RemovePartial(c) \/ Release(c) PROVE TypeOK'
  BY <1>6 DEF RemovePartial, Release
<1>7. ASSUME NEW c \in Caller, AnswerOnly(c) PROVE TypeOK'
  <2>1. runs' \in [Caller -> 0..2]
    BY <1>7 DEF AnswerOnly
  <2> QED
    BY <1>7, <2>1 DEF AnswerOnly
<1>8. ASSUME NEW p \in Process, Crash(p) PROVE TypeOK'
  BY <1>8 DEF Crash, HeldWithout
<1>9. CASE UNCHANGED vars
  BY <1>9 DEF vars
<1> QED
  BY <1>1, <1>2, <1>3, <1>4, <1>5, <1>6, <1>7, <1>8, <1>9, <1>10 DEF Next, Step

-----------------------------------------------------------------------------
(* The queue and the lock *)

\* A step that only moves one call on, from where it was already waiting or
\* running, leaves the queue's order as it is.
LEMMA MovesOn ==
  ASSUME TypeOK, Ordered, Turns, Asked, NEW c \in Caller, NEW to,
         phase' = [phase EXCEPT ![c] = to], UNCHANGED ahead,
         to # "idle",
         to \in Pending => phase[c] \in Pending,
         to \in Inside => phase[c] \in Inside
  PROVE  Ordered' /\ Turns' /\ Asked'
BY DEF TypeOK, Ordered, Turns, Asked

\* In one process, one call at a time is past the queue.
LEMMA OneInside ==
  ASSUME Ordered, Turns, NEW c \in Caller, NEW d \in Caller,
         phase[c] \in Inside, phase[d] \in Inside, Proc[c] = Proc[d]
  PROVE  c = d
BY DEF Ordered, Turns, Pending

LEMMA StepQueue == TypeOK /\ Ordered /\ Turns /\ Asked /\ [Next]_vars
                     => Ordered' /\ Turns' /\ Asked'
<1> SUFFICES ASSUME TypeOK, Ordered, Turns, Asked, [Next]_vars
             PROVE  Ordered' /\ Turns' /\ Asked'
  OBVIOUS
<1>1. ASSUME NEW c \in Caller, Ask(c) PROVE Ordered' /\ Turns' /\ Asked'
  BY <1>1 DEF Ask, TypeOK, Ordered, Turns, Asked, Pending, Inside, Critical
<1>2. ASSUME NEW c \in Caller, DirectoryFails(c) PROVE Ordered' /\ Turns' /\ Asked'
  BY <1>2, MovesOn DEF DirectoryFails, Pending, Inside, Critical
<1>3. ASSUME NEW c \in Caller, TakeTurn(c) PROVE Ordered' /\ Turns' /\ Asked'
  BY <1>3 DEF TakeTurn, MyTurn, TypeOK, Ordered, Turns, Asked, Pending, Inside, Critical
<1>4. ASSUME NEW c \in Caller, Open(c) \/ OpenFails(c) \/ TryAcquire(c) \/ StayedLocked(c)
      PROVE Ordered' /\ Turns' /\ Asked'
  BY <1>4, MovesOn
     DEF Open, OpenFails, TryAcquire, StayedLocked, Pending, Inside, Critical
<1>5. ASSUME NEW c \in Caller,
             \/ ReadAndChange(c) \/ ReadEmptyAndChange(c) \/ ChangeThrows(c)
             \/ WriteEnds(c)
      PROVE Ordered' /\ Turns' /\ Asked'
  BY <1>5, MovesOn DEF ReadAndChange, ReadEmptyAndChange, Changing, ChangeThrows, WriteEnds,
                       Pending, Inside, Critical
<1>6. ASSUME NEW c \in Caller, Rename(c) \/ WriteFails(c) \/ RemovePartial(c)
      PROVE Ordered' /\ Turns' /\ Asked'
  BY <1>6, MovesOn DEF Rename, WriteFails, RemovePartial, Pending, Inside, Critical
<1>7. ASSUME NEW c \in Caller, Release(c) \/ AnswerOnly(c)
      PROVE Ordered' /\ Turns' /\ Asked'
  BY <1>7, MovesOn DEF Release, AnswerOnly, Pending, Inside, Critical
<1>8. ASSUME NEW p \in Process, Crash(p) PROVE Ordered' /\ Turns' /\ Asked'
  BY <1>8 DEF Crash, TypeOK, Ordered, Turns, Asked, Pending, Inside, Critical
<1>9. CASE UNCHANGED vars
  BY <1>9 DEF vars, Ordered, Turns, Asked
<1> QED
  BY <1>1, <1>2, <1>3, <1>4, <1>5, <1>6, <1>7, <1>8, <1>9 DEF Next, Step

LEMMA StepLock == QInv /\ [Next]_vars => Held' /\ OneWriter'
<1> SUFFICES ASSUME QInv, [Next]_vars PROVE Held' /\ OneWriter'
  OBVIOUS
<1> USE DEF QInv, TypeOK, Held, OneWriter, Critical
<1>1. ASSUME NEW c \in Caller, TryAcquire(c) PROVE Held' /\ OneWriter'
  <2>1. \A h \in holders : h \in Caller /\ phase[h] \in Inside /\ h # c
    BY <1>1 DEF TryAcquire, Inside
  <2>2. phase[c] \in Inside
    BY <1>1 DEF TryAcquire, Inside
  <2>3. holders = {}
    BY <1>1, <2>1, <2>2, OneInside DEF TryAcquire, LockFree
  <2> QED
    BY <1>1, <2>3 DEF TryAcquire
<1>2. ASSUME NEW c \in Caller, Release(c) PROVE Held' /\ OneWriter'
  BY <1>2 DEF Release
<1>3. ASSUME NEW p \in Process, Crash(p) PROVE Held' /\ OneWriter'
  BY <1>3 DEF Crash, HeldWithout
<1>4. ASSUME NEW c \in Caller,
             \/ Ask(c) \/ DirectoryFails(c) \/ TakeTurn(c) \/ Open(c) \/ OpenFails(c)
             \/ StayedLocked(c) \/ AnswerOnly(c)
      PROVE Held' /\ OneWriter'
  BY <1>4 DEF Ask, DirectoryFails, TakeTurn, Open, OpenFails, StayedLocked, AnswerOnly
<1>5. ASSUME NEW c \in Caller,
             \/ ReadAndChange(c) \/ ReadEmptyAndChange(c) \/ ChangeThrows(c)
             \/ WriteEnds(c) \/ Rename(c) \/ WriteFails(c) \/ RemovePartial(c)
      PROVE Held' /\ OneWriter'
  BY <1>5 DEF ReadAndChange, ReadEmptyAndChange, Changing, ChangeThrows, WriteEnds,
              Rename, WriteFails, RemovePartial
<1>6. CASE UNCHANGED vars
  BY <1>6 DEF vars
<1> QED
  BY <1>1, <1>2, <1>3, <1>4, <1>5, <1>6 DEF Next, Step

-----------------------------------------------------------------------------
(* The file *)

\* Whoever writes is alone in writing.
LEMMA AloneWriting ==
  ASSUME OneWriter, NEW c \in Caller, phase[c] \in Critical
  PROVE  \A d \in Caller \ {c} : phase[d] \notin {"writing", "renaming"}
BY DEF OneWriter, Critical

LEMMA StepNotRun == IInv /\ [Next]_vars => NotRunYet' /\ NotKeptYet'
<1> SUFFICES ASSUME IInv, [Next]_vars PROVE NotRunYet' /\ NotKeptYet'
  OBVIOUS
<1> USE DEF IInv, QInv, TypeOK, NotRunYet, NotKeptYet
<1>1. ASSUME NEW c \in Caller,
             \/ Ask(c) \/ DirectoryFails(c) \/ TakeTurn(c) \/ Open(c) \/ OpenFails(c)
             \/ StayedLocked(c) \/ TryAcquire(c)
      PROVE NotRunYet' /\ NotKeptYet'
  BY <1>1 DEF Ask, DirectoryFails, TakeTurn, Open, OpenFails, StayedLocked, TryAcquire
<1>2. ASSUME NEW c \in Caller,
             ReadAndChange(c) \/ ReadEmptyAndChange(c) \/ ChangeThrows(c)
      PROVE NotRunYet' /\ NotKeptYet'
  BY <1>2 DEF ReadAndChange, ReadEmptyAndChange, Changing, ChangeThrows
<1>3. ASSUME NEW c \in Caller,
             \/ WriteEnds(c) \/ Rename(c) \/ WriteFails(c) \/ RemovePartial(c)
             \/ Release(c) \/ AnswerOnly(c)
      PROVE NotRunYet' /\ NotKeptYet'
  BY <1>3 DEF WriteEnds, Rename, WriteFails, RemovePartial, Release, AnswerOnly
<1>4. ASSUME NEW p \in Process, Crash(p) PROVE NotRunYet' /\ NotKeptYet'
  BY <1>4 DEF Crash
<1>5. CASE UNCHANGED vars
  BY <1>5 DEF vars
<1> QED
  BY <1>1, <1>2, <1>3, <1>4, <1>5 DEF Next, Step

LEMMA StepCurrent == IInv /\ [Next]_vars => Current'
<1> SUFFICES ASSUME IInv, [Next]_vars PROVE Current'
  OBVIOUS
<1> USE ProcAssumption DEF IInv, QInv, TypeOK, Current, Base
<1>1. ASSUME NEW c \in Caller,
             \/ Ask(c) \/ DirectoryFails(c) \/ TakeTurn(c) \/ Open(c) \/ OpenFails(c)
             \/ StayedLocked(c) \/ TryAcquire(c)
      PROVE Current'
  BY <1>1 DEF Ask, DirectoryFails, TakeTurn, Open, OpenFails, StayedLocked, TryAcquire
<1>2. ASSUME NEW c \in Caller, ReadAndChange(c) \/ ReadEmptyAndChange(c) PROVE Current'
  <2>1. phase[c] = "reading" /\ phase[c] \in Critical /\ missed[c] = {}
    BY <1>2 DEF ReadAndChange, ReadEmptyAndChange, Critical, NotRunYet
  <2>2. CASE ReadAndChange(c)
    BY <2>1, <2>2, AloneWriting DEF ReadAndChange, Changing, Changed
  <2>3. CASE ReadEmptyAndChange(c)
    <3>1. cache'[c] = {c} /\ missed'[c] = file.has /\ file' = file
      BY <2>3 DEF ReadEmptyAndChange, Changing, Changed
    <3>2. \A d \in Caller \ {c} : phase'[d] \notin {"writing", "renaming"}
      BY <2>1, <2>3, AloneWriting DEF ReadEmptyAndChange, Changing
    <3>3. phase'[c] = "writing"
      BY <2>3 DEF ReadEmptyAndChange, Changing
    <3> QED
      BY <3>1, <3>2, <3>3
  <2> QED
    BY <1>2, <2>2, <2>3
<1>3. ASSUME NEW c \in Caller, WriteEnds(c) PROVE Current'
  <2>1. phase[c] \in Critical
    BY <1>3 DEF WriteEnds, Critical
  <2> QED
    BY <1>3, <2>1, AloneWriting DEF WriteEnds
<1>4. ASSUME NEW c \in Caller, Rename(c) \/ RemovePartial(c) PROVE Current'
  <2>1. phase[c] \in Critical
    BY <1>4 DEF Rename, RemovePartial, Critical
  <2> QED
    BY <1>4, <2>1, AloneWriting DEF Rename, RemovePartial
<1>5. ASSUME NEW c \in Caller,
             ChangeThrows(c) \/ WriteFails(c) \/ Release(c) \/ AnswerOnly(c)
      PROVE Current'
  BY <1>5 DEF ChangeThrows, WriteFails, Release, AnswerOnly
<1>6. ASSUME NEW p \in Process, Crash(p) PROVE Current'
  BY <1>6 DEF Crash
<1>7. CASE UNCHANGED vars
  BY <1>7 DEF vars
<1> QED
  BY <1>1, <1>2, <1>3, <1>4, <1>5, <1>6, <1>7 DEF Next, Step

\* What the file, the kept changes and those that missed something go through.
Renamed(c) ==
  /\ fate[c] # "kept" /\ fate' = [fate EXCEPT ![c] = "kept"]
  /\ file' = Whole(Base(c) \union {c}) /\ missed[c] \in {{}, file.has}
  /\ UNCHANGED missed

LEMMA RenameKeeps == ASSUME IInv, NEW c \in Caller, Rename(c) PROVE Renamed(c)
BY DEF IInv, Current, NotKeptYet, Rename, Renamed

LEMMA StepKept == IInv /\ [Next]_vars => NothingLost'
<1> SUFFICES ASSUME IInv, [Next]_vars PROVE NothingLost'
  OBVIOUS
<1> USE DEF IInv, QInv, TypeOK, NothingLost
<1>1. ASSUME NEW c \in Caller,
             \/ Ask(c) \/ DirectoryFails(c) \/ TakeTurn(c) \/ Open(c) \/ OpenFails(c)
             \/ StayedLocked(c) \/ TryAcquire(c)
      PROVE NothingLost'
  BY <1>1 DEF Ask, DirectoryFails, TakeTurn, Open, OpenFails, StayedLocked, TryAcquire
<1>2. ASSUME NEW c \in Caller,
             \/ ReadAndChange(c) \/ ReadEmptyAndChange(c) \/ ChangeThrows(c) \/ AnswerOnly(c)
      PROVE NothingLost'
  <2>1. runs[c] = 0 /\ missed[c] = {} /\ fate[c] # "kept"
    BY <1>2 DEF ReadAndChange, ReadEmptyAndChange, ChangeThrows, AnswerOnly, NotRunYet, NotKeptYet
  <2>2. runs' = [runs EXCEPT ![c] = 1] /\ file' = file
    BY <1>2, <2>1 DEF ReadAndChange, ReadEmptyAndChange, Changing, ChangeThrows, AnswerOnly
  <2>3. \A d \in Caller : fate'[d] = "kept" <=> fate[d] = "kept"
    BY <1>2, <2>1 DEF ReadAndChange, ReadEmptyAndChange, Changing, ChangeThrows, AnswerOnly
  <2>4. \A d \in Caller \ {c} : missed'[d] = missed[d]
    BY <1>2 DEF ReadAndChange, ReadEmptyAndChange, ChangeThrows, AnswerOnly
  <2> QED
    BY <2>1, <2>2, <2>3, <2>4
<1>3. ASSUME NEW c \in Caller, Rename(c) PROVE NothingLost'
  <2>1. Renamed(c)
    BY <1>3, RenameKeeps
  <2>2. runs' = runs
    BY <1>3 DEF Rename
  <2>3. file'.whole /\ file'.has = Base(c) \union {c} /\ fate'[c] = "kept"
    BY <2>1 DEF Renamed, Whole
  <2>4. ASSUME NEW d \in Caller, fate'[d] = "kept", d # c
        PROVE  d \in file'.has \/ \E e \in Caller : fate'[e] = "kept" /\ d \in missed'[e]
    <3>1. d \in file.has \/ \E e \in Caller : fate[e] = "kept" /\ d \in missed[e]
      BY <2>1, <2>4 DEF Renamed
    <3>2. CASE d \in file.has
      BY <2>1, <2>3, <3>2 DEF Renamed, Base
    <3>3. CASE \E e \in Caller : fate[e] = "kept" /\ d \in missed[e]
      BY <2>1, <3>3 DEF Renamed
    <3> QED
      BY <3>1, <3>2, <3>3
  <2> QED
    BY <2>2, <2>3, <2>4
<1>4. ASSUME NEW c \in Caller,
             WriteEnds(c) \/ WriteFails(c) \/ RemovePartial(c) \/ Release(c)
      PROVE NothingLost'
  BY <1>4 DEF WriteEnds, WriteFails, RemovePartial, Release
<1>5. ASSUME NEW p \in Process, Crash(p) PROVE NothingLost'
  BY <1>5 DEF Crash
<1>6. CASE UNCHANGED vars
  BY <1>6 DEF vars
<1> QED
  BY <1>1, <1>2, <1>3, <1>4, <1>5, <1>6 DEF Next, Step

-----------------------------------------------------------------------------
(* Theorems *)

LEMMA InitInv == Init => IInv
<1> SUFFICES ASSUME Init PROVE IInv
  OBVIOUS
<1>1. TypeOK
  BY InitType
<1>2. Ordered /\ Turns /\ Asked /\ Held /\ OneWriter
  BY DEF Init, Ordered, Turns, Asked, Held, OneWriter, Pending, Inside, Critical
<1>3. Current /\ NotRunYet /\ NotKeptYet /\ NothingLost
  BY DEF Init, Current, NotRunYet, NotKeptYet, NothingLost, Whole
<1> QED
  BY <1>1, <1>2, <1>3 DEF IInv, QInv

\* The inductive invariant: the order of the queue, the kernel's view of the
\* lock and what the file, the partial files and the calls hold fit together
\* in every reachable state.
THEOREM StoreCorrect == Spec => []IInv
<1>1. IInv /\ [Next]_vars => IInv'
  BY StepType, StepQueue, StepLock, StepNotRun, StepCurrent, StepKept DEF IInv, QInv
<1> QED
  BY InitInv, <1>1, PTL DEF Spec

\* Every variable of the store keeps its type (the calls of `update`).
THEOREM TypeCorrect == Spec => []TypeOK
<1>1. IInv => TypeOK
  BY DEF IInv, QInv
<1> QED
  BY StoreCorrect, <1>1, PTL

\* Two callers are never both between taking the lock and releasing it.
THEOREM OneWriterCorrect == Spec => []OneWriter
<1>1. IInv => OneWriter
  BY DEF IInv, QInv
<1> QED
  BY StoreCorrect, <1>1, PTL

\* The file is always whole and holds every change that was kept, but for what
\* a later kept change missed when its read failed; no change is run twice.
THEOREM NothingLostCorrect == Spec => []NothingLost
<1>1. IInv => NothingLost
  BY DEF IInv
<1> QED
  BY StoreCorrect, <1>1, PTL

-----------------------------------------------------------------------------
(* The abstract cache *)

Kept == {c \in Caller : fate[c] = "kept"}
Blind == {c \in Caller : missed[c] # {}}

\* Steps that leave alone what the abstract cache is made of.
LEMMA QuietStep ==
  ASSUME TypeOK, NEW c \in Caller, fate[c] # "kept", file' = file, missed' = missed,
         NEW to \in {"applied", "refused", "answered"}, fate' = [fate EXCEPT ![c] = to]
  PROVE  UNCHANGED Cache!vars
<1>1. Kept' = Kept
  BY DEF Kept, TypeOK
<1> QED
  BY <1>1 DEF Cache!vars, Kept

LEMMA StepAtomic == IInv /\ [Next]_vars => [Cache!Next]_(Cache!vars)
<1> SUFFICES ASSUME IInv, [Next]_vars PROVE [Cache!Next]_(Cache!vars)
  OBVIOUS
<1>t. TypeOK
  BY DEF IInv, QInv
<1>1. ASSUME NEW c \in Caller,
             \/ Ask(c) \/ DirectoryFails(c) \/ TakeTurn(c) \/ Open(c) \/ OpenFails(c)
             \/ StayedLocked(c) \/ TryAcquire(c) \/ WriteEnds(c) \/ WriteFails(c)
             \/ RemovePartial(c) \/ Release(c)
      PROVE  UNCHANGED Cache!vars
  <2>1. UNCHANGED <<missed, file, fate>>
    BY <1>1 DEF Ask, DirectoryFails, TakeTurn, Open, OpenFails, StayedLocked, TryAcquire,
                WriteEnds, WriteFails, RemovePartial, Release
  <2> QED
    BY <2>1 DEF Cache!vars
<1>2. ASSUME NEW c \in Caller, ReadAndChange(c) \/ ChangeThrows(c) \/ AnswerOnly(c)
      PROVE  UNCHANGED Cache!vars
  <2>1. fate[c] # "kept"
    BY <1>2 DEF IInv, NotKeptYet, ReadAndChange, ChangeThrows, AnswerOnly
  <2>2. /\ file' = file /\ missed' = missed
        /\ \E to \in {"applied", "refused", "answered"} : fate' = [fate EXCEPT ![c] = to]
    BY <1>2 DEF ReadAndChange, Changing, ChangeThrows, AnswerOnly
  <2> QED
    BY <1>t, <2>1, <2>2, QuietStep
<1>3. ASSUME NEW c \in Caller, ReadEmptyAndChange(c) PROVE [Cache!Next]_(Cache!vars)
  <2>1. /\ fate[c] # "kept" /\ missed[c] = {} /\ file' = file
        /\ fate' = [fate EXCEPT ![c] = "applied"] /\ missed' = [missed EXCEPT ![c] = file.has]
    BY <1>3 DEF IInv, NotKeptYet, NotRunYet, ReadEmptyAndChange, Changing
  <2>2. CASE file.has = {}
    <3>1. missed' = missed
      BY <1>t, <2>1, <2>2 DEF TypeOK
    <3> QED
      BY <1>t, <2>1, <3>1, QuietStep
  <2>3. CASE file.has # {}
    <3>1. Kept' = Kept /\ c \notin Kept
      BY <1>t, <2>1 DEF Kept, TypeOK
    <3>2. Blind' = Blind \union {c}
      BY <1>t, <2>1, <2>3 DEF Blind, TypeOK
    <3>3. Cache!ReadFails(c)
      BY <2>1, <2>3, <3>1, <3>2 DEF Cache!ReadFails, Kept, Blind
    <3> QED
      BY <3>3 DEF Cache!Next
  <2> QED
    BY <2>2, <2>3
<1>4. ASSUME NEW c \in Caller, Rename(c) PROVE [Cache!Next]_(Cache!vars)
  <2>1. Renamed(c)
    BY <1>4, RenameKeeps
  <2>2. Kept' = Kept \union {c} /\ c \notin Kept
    BY <1>t, <2>1 DEF Kept, Renamed, TypeOK
  <2>3. file'.has = (IF c \in Blind THEN {} ELSE file.has) \union {c}
    BY <2>1 DEF Renamed, Base, Blind, Whole
  <2>4. Cache!Keep(c)
    BY <2>1, <2>2, <2>3 DEF Cache!Keep, Kept, Blind, Renamed
  <2> QED
    BY <2>4 DEF Cache!Next
<1>5. ASSUME NEW p \in Process, Crash(p) PROVE UNCHANGED Cache!vars
  BY <1>5 DEF Crash, Cache!vars
<1>6. CASE UNCHANGED vars
  BY <1>6 DEF vars, Cache!vars
<1> QED
  BY <1>1, <1>2, <1>3, <1>4, <1>5, <1>6 DEF Next, Step

\* The file under its lock is the abstract cache: one change at a time, each on
\* top of the ones kept before it unless its read failed.
THEOREM ChangesAreAtomicCorrect == Spec => ChangesAreAtomic
<1>1. Init => Cache!Init
  BY DEF Init, Cache!Init, Whole
<1>2. IInv /\ [Next]_vars => [Cache!Next]_(Cache!vars)
  BY StepAtomic
<1> QED
  BY <1>1, <1>2, StoreCorrect, PTL DEF Spec, ChangesAreAtomic, Cache!Spec

=============================================================================
