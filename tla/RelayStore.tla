----------------------------- MODULE RelayStore -----------------------------
(* The command line's relay cache: one JSON file that the transfers of      *)
(* several processes read, change and replace (cli/code/relay-store.ts),    *)
(* each under a lock the kernel owns (cli/file-lock.ts).  In one process    *)
(* the callers of a lock also queue for each other, because the mutex of    *)
(* one platform is re-entered by the thread that holds it.                  *)
(*                                                                          *)
(* An update is named by its caller: what a cache holds is the set of the   *)
(* updates it includes, so a verdict or a turn of the ring's cursor that    *)
(* is lost is a caller missing from the file.  A file that cannot be read,  *)
(* or is of another version, reads as an empty cache, also under the lock.  *)
EXTENDS FiniteSets, Naturals

CONSTANTS
  Caller,     \* the calls of `update`, each of one process
  Process,    \* processes that share the cache directory
  Proc,       \* Proc[c]: the process caller c belongs to
  Reentrant,  \* the platform's lock is re-entered by its own process
  Steady      \* callers whose wait stays within its deadline and whose
              \* directory, file and lock can be used

ASSUME CallerAssumption == IsFiniteSet(Caller)
ASSUME ProcAssumption == Proc \in [Caller -> Process]
ASSUME ReentrantAssumption == Reentrant \in BOOLEAN
ASSUME SteadyAssumption == Steady \subseteq Caller

VARIABLES
  phase,    \* where each call is
  ahead,    \* the callers of its process that asked for the lock before it
  holders,  \* callers the kernel counts as holding the lock
  cache,    \* the contents each call has read and changed
  missed,   \* what the file held where the read of a call yielded nothing
  partial,  \* per process, the file written beside the cache
  file,     \* the cache file
  runs,     \* how often the change of each call was run
  fate      \* what became of the change

vars == <<phase, ahead, holders, cache, missed, partial, file, runs, fate>>

Contents == [whole : BOOLEAN, has : SUBSET Caller]
Whole(s) == [whole |-> TRUE, has |-> s]
Torn == [whole |-> FALSE, has |-> {}]

\* Past the in-process queue, and the lock not yet given up.
Critical == {"reading", "writing", "renaming", "removing", "releasing"}
Inside == {"opening", "trying"} \union Critical

\* Phases of a call whose promise of the lock has not settled: the tail of
\* the queue waits for it.
Pending == {"queued"} \union Inside

Phases == {"idle", "unlocked", "settled", "dead"} \union Pending

Init ==
  /\ phase = [c \in Caller |-> "idle"]
  /\ ahead = [c \in Caller |-> {}]
  /\ holders = {}
  /\ cache = [c \in Caller |-> {}]
  /\ missed = [c \in Caller |-> {}]
  /\ partial = [p \in Process |-> Torn]
  /\ file = Whole({})
  /\ runs = [c \in Caller |-> 0]
  /\ fate = [c \in Caller |-> "none"]

Goes(c, to) == phase' = [phase EXCEPT ![c] = to]

-----------------------------------------------------------------------------
(* Waiting for the lock *)

\* The tail of the queue settles when everyone who asked before has.
MyTurn(c) == \A d \in ahead[c] : phase[d] \notin Pending

\* mutant: every process locks a file of its own.
FreeHere(c) == \A h \in holders : Proc[h] # Proc[c]

\* `tryAcquire`: flock on the caller's own open file, or the named mutex,
\* which its owner's process gets again.
LockFree(c) ==
  holders = {} \/ (Reentrant /\ \A h \in holders : Proc[h] = Proc[c])

\* `update` makes the directory and asks for the lock.
Ask(c) ==
  /\ phase[c] = "idle"
  /\ ahead' = [ahead EXCEPT
       ![c] = {d \in Caller \ {c} : Proc[d] = Proc[c] /\ phase[d] # "idle"}]
  /\ Goes(c, "queued")
  /\ UNCHANGED <<holders, cache, missed, partial, file, runs, fate>>

DirectoryFails(c) ==
  /\ phase[c] = "idle"
  /\ c \notin Steady
  /\ Goes(c, "unlocked")
  /\ UNCHANGED <<ahead, holders, cache, missed, partial, file, runs, fate>>

TakeTurn(c) ==
  /\ phase[c] = "queued"
  /\ MyTurn(c)
  /\ Goes(c, "opening")
  /\ UNCHANGED <<ahead, holders, cache, missed, partial, file, runs, fate>>

\* The lock's file or mutex is opened.
Open(c) ==
  /\ phase[c] = "opening"
  /\ Goes(c, "trying")
  /\ UNCHANGED <<ahead, holders, cache, missed, partial, file, runs, fate>>

OpenFails(c) ==
  /\ phase[c] = "opening"
  /\ c \notin Steady
  /\ Goes(c, "unlocked")
  /\ UNCHANGED <<ahead, holders, cache, missed, partial, file, runs, fate>>

TryAcquire(c) ==
  /\ phase[c] = "trying"
  /\ LockFree(c)
  /\ holders' = holders \union {c}
  /\ Goes(c, "reading")
  /\ UNCHANGED <<ahead, cache, missed, partial, file, runs, fate>>

\* The deadline, which covers the queue and the lock together.
StayedLocked(c) ==
  /\ phase[c] \in {"queued", "trying"}
  /\ c \notin Steady
  /\ Goes(c, "unlocked")
  /\ UNCHANGED <<ahead, holders, cache, missed, partial, file, runs, fate>>

-----------------------------------------------------------------------------
(* The read-modify-write *)

\* mutant: the change is written over whatever others had recorded.
Overwriting(c, found) == {c}

\* `change(cache)`: a verdict or the ring's cursor goes on from what is there.
Changed(c, found) == found \union {c}

\* `change` runs on what was read, and its result goes to the partial file.
Changing(c, found) ==
  /\ runs' = [runs EXCEPT ![c] = @ + 1]
  /\ cache' = [cache EXCEPT ![c] = Changed(c, found)]
  /\ partial' = [partial EXCEPT ![Proc[c]] = Torn]
  /\ fate' = [fate EXCEPT ![c] = "applied"]
  /\ Goes(c, "writing")
  /\ UNCHANGED <<ahead, holders, file>>

\* The file is read under the lock and the change applied to it.
ReadAndChange(c) ==
  /\ phase[c] = "reading"
  /\ file.whole
  /\ Changing(c, file.has)
  /\ UNCHANGED missed

\* The file is missing, cannot be read or parsed, or is of another version:
\* the change is applied to an empty cache, which then takes its place.
ReadEmptyAndChange(c) ==
  /\ phase[c] = "reading"
  /\ Changing(c, {})
  /\ missed' = [missed EXCEPT ![c] = file.has]

\* The change throws: it is the caller's error, and is not run again.
ChangeThrows(c) ==
  /\ phase[c] = "reading"
  /\ c \notin Steady
  /\ runs' = [runs EXCEPT ![c] = @ + 1]
  /\ fate' = [fate EXCEPT ![c] = "refused"]
  /\ Goes(c, "releasing")
  /\ UNCHANGED <<ahead, holders, cache, missed, partial, file>>

\* `writeFile` of the partial file has ended.
WriteEnds(c) ==
  /\ phase[c] = "writing"
  /\ partial' = [partial EXCEPT ![Proc[c]] = Whole(cache[c])]
  /\ Goes(c, "renaming")
  /\ UNCHANGED <<ahead, holders, cache, missed, file, runs, fate>>

Rename(c) ==
  /\ phase[c] = "renaming"
  /\ file' = partial[Proc[c]]
  /\ fate' = [fate EXCEPT ![c] = "kept"]
  /\ Goes(c, "releasing")
  /\ UNCHANGED <<ahead, holders, cache, missed, partial, runs>>

WriteFails(c) ==
  /\ phase[c] \in {"writing", "renaming"}
  /\ c \notin Steady
  /\ Goes(c, "removing")
  /\ UNCHANGED <<ahead, holders, cache, missed, partial, file, runs, fate>>

RemovePartial(c) ==
  /\ phase[c] = "removing"
  /\ partial' = [partial EXCEPT ![Proc[c]] = Torn]
  /\ Goes(c, "releasing")
  /\ UNCHANGED <<ahead, holders, cache, missed, file, runs, fate>>

\* The lock is released and closed; the call settles with what it has.
Release(c) ==
  /\ phase[c] = "releasing"
  /\ holders' = holders \ {c}
  /\ Goes(c, "settled")
  /\ UNCHANGED <<ahead, cache, missed, partial, file, runs, fate>>

\* No lock: the change still gets its answer, from the file or from an empty
\* cache, or throws; nothing is kept.
AnswerOnly(c) ==
  /\ phase[c] = "unlocked"
  /\ runs' = [runs EXCEPT ![c] = @ + 1]
  /\ \E end \in {"answered", "refused"} : fate' = [fate EXCEPT ![c] = end]
  /\ Goes(c, "settled")
  /\ UNCHANGED <<ahead, holders, cache, missed, partial, file>>

-----------------------------------------------------------------------------
(* A process dies *)

\* mutant: the lock outlives the process that held it.
StillHeld(p) == holders

\* The kernel owns the lock and frees it as the process goes.
HeldWithout(p) == {h \in holders : Proc[h] # p}

\* Ctrl-C or a crash: its calls end where they are, what it wrote stays.
Crash(p) ==
  /\ \E c \in Caller : Proc[c] = p /\ phase[c] \in Pending
  /\ phase' = [c \in Caller |->
       IF Proc[c] = p /\ phase[c] # "settled" THEN "dead" ELSE phase[c]]
  /\ holders' = HeldWithout(p)
  /\ UNCHANGED <<ahead, cache, missed, partial, file, runs, fate>>

Step(c) ==
  \/ TakeTurn(c) \/ Open(c) \/ OpenFails(c) \/ TryAcquire(c) \/ StayedLocked(c)
  \/ ReadAndChange(c) \/ ReadEmptyAndChange(c) \/ ChangeThrows(c)
  \/ WriteEnds(c) \/ Rename(c)
  \/ WriteFails(c) \/ RemovePartial(c) \/ Release(c) \/ AnswerOnly(c)

Done == \A c \in Caller : phase[c] \in {"settled", "dead"}

Next ==
  \/ \E c \in Caller : Ask(c) \/ DirectoryFails(c) \/ Step(c)
  \/ \E p \in Process : Crash(p)
  \/ Done /\ UNCHANGED vars

Spec == Init /\ [][Next]_vars

\* A process that is running runs its callbacks; nobody has to ask.
FairSpec == Spec /\ \A c \in Caller : WF_vars(Step(c))

-----------------------------------------------------------------------------
(* What the store promises *)

TypeOK ==
  /\ phase \in [Caller -> Phases]
  /\ ahead \in [Caller -> SUBSET Caller]
  /\ holders \subseteq Caller
  /\ cache \in [Caller -> SUBSET Caller]
  /\ missed \in [Caller -> SUBSET Caller]
  /\ partial \in [Process -> Contents]
  /\ file \in Contents
  /\ runs \in [Caller -> 0..2]
  /\ fate \in [Caller -> {"none", "applied", "kept", "refused", "answered"}]

\* Never two callers between taking the lock and releasing it, whichever
\* platform the lock is: neither two processes nor, where the mutex lets its
\* owner in again, two calls of one, with deadlines that pass in the queue.
OneWriter ==
  \A c, d \in Caller : phase[c] \in Critical /\ phase[d] \in Critical => c = d

\* What a process recorded stays recorded, whatever others write, abandon or
\* die in the middle of: a change that was kept is in the file, which is
\* whole, or the read of one kept later failed and missed it (`read` takes
\* any failure for an empty cache).  No change is run twice for one caller.
NothingLost ==
  /\ file.whole
  /\ \A c \in Caller : fate[c] = "kept" =>
       c \in file.has \/ \E d \in Caller : fate[d] = "kept" /\ c \in missed[d]
  /\ \A c \in Caller : runs[c] =< 1

\* The locked read-modify-write is one step to everybody else: the file goes
\* from one kept change to the next, each made on top of the one before, so
\* that no two transfers turn the ring's cursor from the same place; only one
\* whose read failed starts over, and it drops all of what it missed.
Cache == INSTANCE RelayCache WITH
  has <- file.has,
  kept <- {c \in Caller : fate[c] = "kept"},
  blind <- {c \in Caller : missed[c] # {}}
ChangesAreAtomic == Cache!Spec

\* A caller that nothing fails for and that can wait gets its change kept,
\* however many others give up, fail or die holding the lock.
SteadyIsKept ==
  \A c \in Steady :
    phase[c] = "queued" ~> (fate[c] = "kept" \/ phase[c] = "dead")

=============================================================================
