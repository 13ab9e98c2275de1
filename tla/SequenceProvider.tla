--------------------------- MODULE SequenceProvider ---------------------------
(***************************************************************************)
(* The persistent id generator behind Instance::instanceId.  A file holds  *)
(* the first id of the next free block.  A provider reserves a block of    *)
(* NrToPreserve ids by moving the number in the file (preserve()), and     *)
(* hands the ids of the block out with a fetch-and-add (next()).           *)
(*                                                                         *)
(* Several providers may share the file: every naming service that the     *)
(* factory creates owns one, in one process or in several.  preserve()     *)
(* takes no lock on the file, only next() takes the provider's own mutex,  *)
(* so each access to the file is a step of its own here.  A process may    *)
(* crash between any two steps; the file survives.                         *)
(*                                                                         *)
(* preserve() looks at no error of write() and read(): their -1, added to  *)
(* a size_t, ends the loops of lines 26 and 50 as a success would.  Both   *)
(* may fail here, all bytes of a number at once (a part of them only is    *)
(* left out).                                                              *)
(***************************************************************************)
EXTENDS Integers, FiniteSets

CONSTANTS
    Providers,      \* the SequenceProvider objects on the file
    Threads,        \* the threads that call next()
    ProviderOf,     \* ProviderOf[t]: the provider whose next() t calls
    InitSequence,   \* _initSequence
    NrToPreserve,   \* _nr_to_preserve
    Steps,          \* the values next() is called with for `step`
    Absent, Empty,  \* the file does not exist; it exists and holds no bytes
    Junk,           \* what preserve()'s local current may hold uninitialised
    MaxClaims,      \* bound: calls of next() in a behaviour
    MaxCrashes,     \* bound: crashes in a behaviour
    MaxFaults       \* bound: failures of read() and write() in a behaviour

ASSUME ConstantsAssumption ==
    /\ ProviderOf \in [Threads -> Providers]
    /\ InitSequence \in Nat
    /\ NrToPreserve \in Nat \ {0}
    /\ Steps \subseteq Nat \ {0}
    /\ Junk \subseteq Int
    /\ MaxClaims \in Nat /\ MaxCrashes \in Nat /\ MaxFaults \in Nat
    /\ Absent \notin Int /\ Empty \notin Int /\ Absent # Empty

VARIABLES
    file,      \* the number in the file, or Absent, or Empty
    status,    \* status[p] \in {"down", "starting", "up"}
    current,   \* current[p]: _current
    hwm,       \* hwm[p]: _hwm
    locked,    \* locked[p]: _acquireMutex is held
    pc,        \* pc[t]: where thread t is in next() or in the constructor
    res,       \* res[t]: next()'s local res
    cur,       \* cur[t]: preserve()'s local current
    newFile,   \* newFile[t]: preserve()'s local newFile
    issued,    \* history: the ids next() has returned
    served,    \* history: how many calls of next() have returned
    orphaned,  \* history: the providers whose mutex an exception left locked
    unsaved,   \* history: the last write of a block failed
    damaged,   \* history: a provider works on a number that was not the one saved
    claims,    \* how many calls of next() have begun
    crashes,   \* how many crashes have happened
    faults     \* how many calls of read() and write() have failed

memory == <<status, current, hwm, locked>>
locals == <<res, cur, newFile>>
history == <<issued, served>>
errors == <<unsaved, damaged, faults>>
bounds == <<orphaned, claims, crashes, errors>>
vars == <<file, memory, pc, locals, history, bounds>>

\* The locations of preserve() (lines 31-60), in the order of the code.
Preserving == {"exists", "open", "init", "read", "write", "hwm"}
\* Where next() holds _acquireMutex.
Critical == {"recheck", "unlock"} \cup Preserving
Locations == {"idle", "test", "lock"} \cup Critical

InCtor(t) == status[ProviderOf[t]] = "starting"

Init ==
    /\ file = Absent
    /\ status = [p \in Providers |-> "down"]
    /\ current = [p \in Providers |-> 0]
    /\ hwm = [p \in Providers |-> 0]
    /\ locked = [p \in Providers |-> FALSE]
    /\ pc = [t \in Threads |-> "idle"]
    /\ res = [t \in Threads |-> 0]
    /\ cur = [t \in Threads |-> 0]
    /\ newFile = [t \in Threads |-> FALSE]
    /\ issued = {} /\ served = 0
    /\ orphaned = {}
    /\ unsaved = FALSE /\ damaged = FALSE
    /\ claims = 0 /\ crashes = 0 /\ faults = 0

Goto(t, l) == pc' = [pc EXCEPT ![t] = l]
Move(t, from, to) == pc[t] = from /\ Goto(t, to)

-----------------------------------------------------------------------------
(* preserve(), run by the constructor or inside next()'s critical section. *)

\* checkNotExistOrNotFile
CheckExists(t) ==
    /\ Move(t, "exists", "open")
    /\ newFile' = [newFile EXCEPT ![t] = file = Absent]
    /\ UNCHANGED <<file, memory, res, cur, history, bounds>>

\* Mutant: an existing file is initialised again.
OpenFile_AlwaysNew(t) ==
    /\ Move(t, "open", "init")
    /\ file' = IF file = Absent THEN Empty ELSE file
    /\ UNCHANGED <<memory, locals, history, bounds>>

\* open(O_RDWR | O_CREAT)
OpenFile(t) ==
    /\ Move(t, "open", IF newFile[t] THEN "init" ELSE "read")
    /\ file' = IF file = Absent THEN Empty ELSE file
    /\ UNCHANGED <<memory, locals, history, bounds>>

\* open() fails and preserve() throws.  Out of next() the exception leaves
\* _acquireMutex locked; out of the constructor there is no provider.
OpenFails(t) ==
    /\ Move(t, "open", "idle")
    /\ status' = [status EXCEPT ![ProviderOf[t]] = IF InCtor(t) THEN "down" ELSE @]
    /\ orphaned' = IF InCtor(t) THEN orphaned ELSE orphaned \cup {ProviderOf[t]}
    /\ UNCHANGED <<file, current, hwm, locked, locals, history, claims, crashes,
                   errors>>

\* The first ensureWrite, on a new file.
WriteInit(t) ==
    /\ Move(t, "init", "read")
    /\ file' = InitSequence
    /\ UNCHANGED <<memory, locals, history, bounds>>

\* read() or write() fails.
Fault ==
    /\ faults < MaxFaults
    /\ faults' = faults + 1

\* The same write fails and is taken for done: the new file stays empty.
WriteInitFails(t) ==
    /\ Fault
    /\ Move(t, "init", "read")
    /\ UNCHANGED <<file, memory, locals, history, orphaned, claims, crashes,
                   unsaved, damaged>>

\* Mutant: a read of no bytes is taken for a read of the number.
ReadFile_NoLoop(t) ==
    /\ Move(t, "read", "write")
    /\ cur' = [cur EXCEPT ![t] = file]
    /\ UNCHANGED <<file, memory, res, newFile, history, bounds>>

\* The read loop: it does not end while the file holds no bytes.  A provider
\* that starts from a number whose move has failed may go back behind ids that
\* the provider before it has handed out.
ReadFile(t) ==
    /\ file \in Int
    /\ Move(t, "read", "write")
    /\ cur' = [cur EXCEPT ![t] = file]
    /\ damaged' = (damaged \/ (InCtor(t) /\ unsaved))
    /\ UNCHANGED <<file, memory, res, newFile, history, orphaned, claims, crashes,
                   unsaved, faults>>

\* read() fails and the loop ends all the same: current holds what was on the
\* stack.
ReadFails(t) ==
    /\ Fault
    /\ Move(t, "read", "write")
    /\ \E n \in Junk : cur' = [cur EXCEPT ![t] = n]
    /\ damaged' = TRUE
    /\ UNCHANGED <<file, memory, res, newFile, history, orphaned, claims, crashes,
                   unsaved>>

\* Mutant: the block is not taken out of the file.
WriteFile_NoAdvance(t) ==
    /\ Move(t, "write", "hwm")
    /\ file' = cur[t]
    /\ unsaved' = FALSE
    /\ UNCHANGED <<memory, locals, history, orphaned, claims, crashes, damaged,
                   faults>>

\* The second ensureWrite.
WriteFile(t) ==
    /\ Move(t, "write", "hwm")
    /\ file' = cur[t] + NrToPreserve
    /\ unsaved' = FALSE
    /\ UNCHANGED <<memory, locals, history, orphaned, claims, crashes, damaged,
                   faults>>

\* The same write fails and is taken for done: the block is not taken out of
\* the file, and _hwm moves all the same.
WriteFails(t) ==
    /\ Fault
    /\ Move(t, "write", "hwm")
    /\ unsaved' = TRUE
    /\ UNCHANGED <<file, memory, locals, history, orphaned, claims, crashes,
                   damaged>>

\* Mutant: the high water mark is one id too far.
SetHwm_OffByOne(t) ==
    /\ Move(t, "hwm", IF InCtor(t) THEN "idle" ELSE "unlock")
    /\ hwm' = [hwm EXCEPT ![ProviderOf[t]] = cur[t] + NrToPreserve + 1]
    /\ current' = [current EXCEPT ![ProviderOf[t]] = IF InCtor(t) THEN cur[t] ELSE @]
    /\ status' = [status EXCEPT ![ProviderOf[t]] = "up"]
    /\ UNCHANGED <<file, locked, locals, history, bounds>>

\* _hwm is set and preserve() returns, to the constructor's _current.set(...)
\* or to next().
SetHwm(t) ==
    /\ Move(t, "hwm", IF InCtor(t) THEN "idle" ELSE "unlock")
    /\ hwm' = [hwm EXCEPT ![ProviderOf[t]] = cur[t] + NrToPreserve]
    /\ current' = [current EXCEPT ![ProviderOf[t]] = IF InCtor(t) THEN cur[t] ELSE @]
    /\ status' = [status EXCEPT ![ProviderOf[t]] = "up"]
    /\ UNCHANGED <<file, locked, locals, history, bounds>>

-----------------------------------------------------------------------------
(* next() *)

\* getAndInc(step)
Claim(t, step) ==
    /\ status[ProviderOf[t]] = "up"
    /\ claims < MaxClaims
    /\ Move(t, "idle", "test")
    /\ res' = [res EXCEPT ![t] = current[ProviderOf[t]]]
    /\ current' = [current EXCEPT ![ProviderOf[t]] = @ + step]
    /\ claims' = claims + 1
    /\ UNCHANGED <<file, status, hwm, locked, cur, newFile, history, orphaned,
                   crashes, errors>>

\* while (res >= _hwm): the test fails and next() returns.
Return(t) ==
    /\ res[t] < hwm[ProviderOf[t]]
    /\ Move(t, "test", "idle")
    /\ issued' = issued \cup {res[t]}
    /\ served' = served + 1
    /\ UNCHANGED <<file, memory, locals, bounds>>

\* while (res >= _hwm): the block is used up.
NeedBlock(t) ==
    /\ res[t] >= hwm[ProviderOf[t]]
    /\ Move(t, "test", "lock")
    /\ UNCHANGED <<file, memory, locals, history, bounds>>

Lock(t) ==
    /\ ~locked[ProviderOf[t]]
    /\ Move(t, "lock", "recheck")
    /\ locked' = [locked EXCEPT ![ProviderOf[t]] = TRUE]
    /\ UNCHANGED <<file, status, current, hwm, locals, history, bounds>>

\* The second check of res >= _hwm, under the lock.
Recheck(t) ==
    /\ Move(t, "recheck", IF res[t] >= hwm[ProviderOf[t]] THEN "exists" ELSE "unlock")
    /\ UNCHANGED <<file, memory, locals, history, bounds>>

\* Mutant: next() returns to its loop without the unlock.
Unlock_Forgotten(t) ==
    /\ Move(t, "unlock", "test")
    /\ UNCHANGED <<file, memory, locals, history, bounds>>

Unlock(t) ==
    /\ Move(t, "unlock", "test")
    /\ locked' = [locked EXCEPT ![ProviderOf[t]] = FALSE]
    /\ UNCHANGED <<file, status, current, hwm, locals, history, bounds>>

-----------------------------------------------------------------------------
(* The process. *)

\* The constructor, run by thread t: it begins with preserve(), unlocked.
Start(t) ==
    /\ status[ProviderOf[t]] = "down"
    /\ status' = [status EXCEPT ![ProviderOf[t]] = "starting"]
    /\ Move(t, "idle", "exists")
    /\ UNCHANGED <<file, current, hwm, locked, locals, history, bounds>>

\* The process of p dies: its memory is gone, the file stays.
Crash(p) ==
    /\ status[p] # "down"
    /\ crashes < MaxCrashes
    /\ crashes' = crashes + 1
    /\ status' = [status EXCEPT ![p] = "down"]
    /\ current' = [current EXCEPT ![p] = 0]
    /\ hwm' = [hwm EXCEPT ![p] = 0]
    /\ locked' = [locked EXCEPT ![p] = FALSE]
    /\ orphaned' = orphaned \ {p}
    /\ pc' = [t \in Threads |-> IF ProviderOf[t] = p THEN "idle" ELSE pc[t]]
    /\ res' = [t \in Threads |-> IF ProviderOf[t] = p THEN 0 ELSE res[t]]
    /\ cur' = [t \in Threads |-> IF ProviderOf[t] = p THEN 0 ELSE cur[t]]
    /\ newFile' = [t \in Threads |-> IF ProviderOf[t] = p THEN FALSE ELSE newFile[t]]
    /\ UNCHANGED <<file, history, claims, errors>>

\* What a thread does by itself once it is in the constructor or in next().
Preserve(t) ==
    \/ CheckExists(t)
    \/ OpenFile(t)
    \/ WriteInit(t)
    \/ ReadFile(t)
    \/ WriteFile(t)
    \/ SetHwm(t)

Advance(t) ==
    \/ Preserve(t)
    \/ Return(t)
    \/ NeedBlock(t)
    \/ Lock(t)
    \/ Recheck(t)
    \/ Unlock(t)

Next ==
    \/ \E t \in Threads :
        \/ Advance(t)
        \/ OpenFails(t)
        \/ WriteInitFails(t)
        \/ ReadFails(t)
        \/ WriteFails(t)
        \/ Start(t)
        \/ \E step \in Steps : Claim(t, step)
    \/ \E p \in Providers : Crash(p)

\* A thread that can take its next step takes it; calls, failures of open(),
\* read() and write(), and crashes are the environment's.
Fairness == \A t \in Threads : WF_vars(Advance(t))

Spec == Init /\ [][Next]_vars
FairSpec == Spec /\ Fairness

-----------------------------------------------------------------------------
(* Properties. *)

TypeOK ==
    /\ file \in Int \cup {Absent, Empty}
    /\ status \in [Providers -> {"down", "starting", "up"}]
    /\ current \in [Providers -> Int]
    /\ hwm \in [Providers -> Int]
    /\ locked \in [Providers -> BOOLEAN]
    /\ pc \in [Threads -> Locations]
    /\ res \in [Threads -> Int]
    /\ cur \in [Threads -> Int]
    /\ newFile \in [Threads -> BOOLEAN]
    /\ issued \in SUBSET Int
    /\ served \in Nat
    /\ orphaned \in SUBSET Providers
    /\ unsaved \in BOOLEAN
    /\ damaged \in BOOLEAN
    /\ claims \in 0..MaxClaims
    /\ crashes \in 0..MaxCrashes
    /\ faults \in 0..MaxFaults

\* One provider uses the file.
OneProvider == \A p, q \in Providers : p = q

\* Every call of next() has got an id of its own: "unique id of this instance"
\* (include/naming/Instance.h:19).  The code does not keep this: see below.
NoIdTwice == Cardinality(issued) = served

\* Every call of next() has got an id of its own, with one exception: a read of
\* the file failed, or a provider was started after the last write of a block
\* had failed, and preserve() took the failure for a success.  A failed write
\* alone gives no id twice, and neither do crashes.
UniqueIds == damaged \/ NoIdTwice

\* The end of the block that was reserved last: the file lags one block behind
\* it while the write of that block has failed.
Reserved == IF unsaved THEN file + NrToPreserve ELSE file

\* Write-ahead: an id is handed out only after the file has moved past it, so a
\* restart at that moment begins above every id that is in use.  The exception
\* is what ensureWrite() makes of a failing write(): _hwm moves and ids are
\* handed out though the file did not move; then, until the next block is
\* written, the file lags behind the ids, by one block and never by more.
\* Nothing is promised once a provider works on a number that was not saved.
IssuedReserved ==
    damaged \/ \A id \in issued : file \in Int /\ id < Reserved

\* Each next() is a step of IdAllocator: it hands out an id not issued before,
\* as long as the number in the file is not lost.
Allocator == INSTANCE IdAllocator
AllocatorSpec == Allocator!Spec

\* The file is left without bytes: a crash between open(O_CREAT) and the first
\* write, or a first write that failed.  The loop of line 50 never ends on it.
LeftEmpty == file = Empty /\ (crashes > 0 \/ faults > 0)

\* Without a crash every call comes to an end: next() returns its id or throws,
\* unless an exception has orphaned the mutex it needs, and a constructor makes
\* a provider or throws, both unless the file was left without bytes.
CallsReturn ==
    \A t \in Threads :
        /\ pc[t] = "test" ~> pc[t] = "idle" \/ ProviderOf[t] \in orphaned \/ LeftEmpty
        /\ pc[t] = "exists" /\ InCtor(t) ~> pc[t] = "idle" \/ LeftEmpty

-----------------------------------------------------------------------------
(* The inductive invariant behind UniqueIds and IssuedReserved, for a file *)
(* that one provider uses.                                                 *)

\* t has claimed an id that next() has not returned yet.
Claimed(t) == pc[t] # "idle" /\ ~InCtor(t)

\* The mutex is held in the critical section, which one thread is in at most;
\* the constructor runs alone.
MutexInv ==
    /\ \A t \in Threads :
        /\ pc[t] \in Critical => InCtor(t) \/ locked[ProviderOf[t]]
        /\ InCtor(t) => pc[t] \in {"idle"} \cup Preserving
        /\ status[ProviderOf[t]] = "down" => pc[t] = "idle"
    /\ \A t, u \in Threads : pc[t] \in Critical /\ pc[u] \in Critical => t = u

\* What the file holds at each step of preserve(), and while a provider is up.
FileInv ==
    /\ \A t \in Threads :
        /\ pc[t] = "open" /\ newFile[t] => file = Absent
        /\ pc[t] = "init" => file = Empty
        /\ pc[t] = "write" => file \in Int /\ cur[t] = file
        /\ pc[t] = "write" /\ InCtor(t) => ~unsaved
        /\ pc[t] = "hwm" => file \in Int /\ cur[t] + NrToPreserve = Reserved
    /\ \A p \in Providers : status[p] = "up" => file \in Int /\ hwm[p] <= Reserved
    /\ unsaved => file \in Int

\* Where the ids in use lie: below the last block's end, and below the number
\* from which the provider claims, or a starting provider will claim.
IdInv ==
    /\ IssuedReserved
    /\ \A id \in issued :
        /\ \A p \in Providers : status[p] = "up" => id < current[p]
        /\ \A t \in Threads : InCtor(t) /\ pc[t] = "hwm" => id < cur[t]
    /\ \A t \in Threads :
        Claimed(t) => res[t] < current[ProviderOf[t]] /\ res[t] \notin issued
    /\ \A t, u \in Threads : Claimed(t) /\ Claimed(u) /\ t # u => res[t] # res[u]

CountInv == IsFiniteSet(issued) /\ UniqueIds

Inv == TypeOK /\ MutexInv /\ CountInv /\ (damaged \/ (FileInv /\ IdInv))

=============================================================================
