----------------------- MODULE SequenceProviderProofs -----------------------
(***************************************************************************)
(* For one provider on a file, and for every number of threads, block      *)
(* size, first id, and number of calls and crashes: types, mutual          *)
(* exclusion in preserve(), unique ids, write-ahead of the file, and the   *)
(* implementation of IdAllocator.                                          *)
(***************************************************************************)
EXTENDS SequenceProvider, FiniteSetTheorems, TLAPS

\* The first state is of the types.
LEMMA TypeInit ==
  ASSUME Init
  PROVE  TypeOK
<1>1. file \in Int \cup {Absent, Empty} /\ pc \in [Threads -> Locations]
  BY DEF Init, Locations
<1>2. /\ status \in [Providers -> {"down", "starting", "up"}]
      /\ current \in [Providers -> Int]
      /\ hwm \in [Providers -> Int]
      /\ res \in [Threads -> Int]
      /\ cur \in [Threads -> Int]
  BY DEF Init
<1>3. locked \in [Providers -> BOOLEAN] /\ newFile \in [Threads -> BOOLEAN]
  BY Zenon DEF Init
<1>4. /\ unsaved \in BOOLEAN /\ damaged \in BOOLEAN
      /\ issued \in SUBSET Int /\ orphaned \in SUBSET Providers
  BY DEF Init
<1>5. /\ served \in Nat /\ claims \in 0..MaxClaims /\ crashes \in 0..MaxCrashes
      /\ faults \in 0..MaxFaults
  BY ConstantsAssumption DEF Init
<1> QED
  BY <1>1, <1>2, <1>3, <1>4, <1>5 DEF TypeOK

\* Every step keeps the types of the variables.
LEMMA TypeStep ==
  ASSUME TypeOK, [Next]_vars
  PROVE  TypeOK'
<1> USE ConstantsAssumption
    DEF TypeOK, Locations, Critical, Preserving, Move, Goto, InCtor,
        memory, locals, history, bounds, errors
<1>1. ASSUME NEW t \in Threads, CheckExists(t) PROVE TypeOK'
  BY <1>1 DEF CheckExists
<1>2. ASSUME NEW t \in Threads, OpenFile(t) PROVE TypeOK'
  BY <1>2 DEF OpenFile
<1>3. ASSUME NEW t \in Threads, OpenFails(t) PROVE TypeOK'
  BY <1>3 DEF OpenFails
<1>4. ASSUME NEW t \in Threads, WriteInit(t) PROVE TypeOK'
  BY <1>4 DEF WriteInit
<1>5. ASSUME NEW t \in Threads, ReadFile(t) PROVE TypeOK'
  BY <1>5 DEF ReadFile
<1>6. ASSUME NEW t \in Threads, WriteFile(t) PROVE TypeOK'
  <2>1. file' \in Int
    BY <1>6 DEF WriteFile
  <2>2. pc' \in [Threads -> Locations]
    BY <1>6 DEF WriteFile
  <2> QED
    BY <1>6, <2>1, <2>2 DEF WriteFile
<1>7. ASSUME NEW t \in Threads, SetHwm(t) PROVE TypeOK'
  BY <1>7 DEF SetHwm
<1>8. ASSUME NEW t \in Threads, NEW step \in Steps, Claim(t, step) PROVE TypeOK'
  BY <1>8 DEF Claim
<1>9. ASSUME NEW t \in Threads, Return(t) PROVE TypeOK'
  <2>1. res[t] \in Int
    OBVIOUS
  <2>2. issued' \in SUBSET Int
    BY <1>9, <2>1 DEF Return
  <2>3. served' \in Nat
    BY <1>9 DEF Return
  <2> QED
    BY <1>9, <2>2, <2>3 DEF Return
<1>10. ASSUME NEW t \in Threads, NeedBlock(t) PROVE TypeOK'
  BY <1>10 DEF NeedBlock
<1>11. ASSUME NEW t \in Threads, Lock(t) PROVE TypeOK'
  BY <1>11 DEF Lock
<1>12. ASSUME NEW t \in Threads, Recheck(t) PROVE TypeOK'
  BY <1>12 DEF Recheck
<1>13. ASSUME NEW t \in Threads, Unlock(t) PROVE TypeOK'
  BY <1>13 DEF Unlock
<1>14. ASSUME NEW t \in Threads, Start(t) PROVE TypeOK'
  BY <1>14 DEF Start
<1>15. ASSUME NEW p \in Providers, Crash(p) PROVE TypeOK'
  <2>1. /\ status' \in [Providers -> {"down", "starting", "up"}]
        /\ current' \in [Providers -> Int]
        /\ hwm' \in [Providers -> Int]
        /\ locked' \in [Providers -> BOOLEAN]
    BY <1>15 DEF Crash
  <2>2. pc' \in [Threads -> Locations]
    BY <1>15 DEF Crash
  <2>3. res' \in [Threads -> Int] /\ cur' \in [Threads -> Int]
    BY <1>15 DEF Crash
  <2>4. newFile' \in [Threads -> BOOLEAN]
    BY <1>15, Zenon DEF Crash
  <2>5. crashes' \in 0..MaxCrashes
    BY <1>15 DEF Crash
  <2> QED
    BY <1>15, <2>1, <2>2, <2>3, <2>4, <2>5 DEF Crash
<1>16. CASE UNCHANGED vars
  BY <1>16 DEF vars
<1>17. ASSUME NEW t \in Threads, WriteInitFails(t) PROVE TypeOK'
  BY <1>17 DEF WriteInitFails, Fault
<1>18. ASSUME NEW t \in Threads, ReadFails(t) PROVE TypeOK'
  BY <1>18 DEF ReadFails, Fault
<1>19. ASSUME NEW t \in Threads, WriteFails(t) PROVE TypeOK'
  BY <1>19 DEF WriteFails, Fault
<1> HIDE DEF TypeOK, Move, Goto, InCtor, memory, locals, history, bounds, errors
<1> QED
  BY <1>1, <1>2, <1>3, <1>4, <1>5, <1>6, <1>7, <1>8, <1>9, <1>10, <1>11,
     <1>12, <1>13, <1>14, <1>15, <1>16, <1>17, <1>18, <1>19
     DEF Next, Advance, Preserve

\* SequenceProvider keeps the types of its variables, whatever the number of
\* providers on the file.
THEOREM TypeCorrect == Spec => []TypeOK
<1>1. Init => TypeOK
  BY TypeInit
<1>2. TypeOK /\ [Next]_vars => TypeOK'
  BY TypeStep
<1> QED
  BY <1>1, <1>2, PTL DEF Spec
-----------------------------------------------------------------------------
(* The inductive invariant. *)

\* The critical section of next() stays exclusive, and the constructor alone.
LEMMA MutexStep ==
  ASSUME OneProvider, TypeOK, MutexInv, [Next]_vars
  PROVE  MutexInv'
<1>1. \A t, u \in Threads : ProviderOf[t] \in Providers /\ ProviderOf[t] = ProviderOf[u]
  BY ConstantsAssumption DEF OneProvider
<1>2. \A t \in Threads, p \in Providers : ProviderOf[t] = p
  BY ConstantsAssumption DEF OneProvider
<1> USE <1>1, <1>2, ConstantsAssumption
    DEF TypeOK, MutexInv, Locations, Critical, Preserving, Move, Goto, InCtor,
        memory, locals, history, bounds, errors
<1>3. ASSUME NEW t \in Threads, CheckExists(t) PROVE MutexInv'
  BY <1>3 DEF CheckExists
<1>4. ASSUME NEW t \in Threads, OpenFile(t) PROVE MutexInv'
  BY <1>4 DEF OpenFile
<1>5. ASSUME NEW t \in Threads, OpenFails(t) PROVE MutexInv'
  BY <1>5 DEF OpenFails
<1>6. ASSUME NEW t \in Threads, WriteInit(t) PROVE MutexInv'
  BY <1>6 DEF WriteInit
<1>7. ASSUME NEW t \in Threads, ReadFile(t) PROVE MutexInv'
  BY <1>7 DEF ReadFile
<1>8. ASSUME NEW t \in Threads, WriteFile(t) PROVE MutexInv'
  BY <1>8 DEF WriteFile
<1>9. ASSUME NEW t \in Threads, SetHwm(t) PROVE MutexInv'
  BY <1>9 DEF SetHwm
<1>10. ASSUME NEW t \in Threads, Return(t) PROVE MutexInv'
  BY <1>10 DEF Return
<1>11. ASSUME NEW t \in Threads, NeedBlock(t) PROVE MutexInv'
  BY <1>11 DEF NeedBlock
<1>12. ASSUME NEW t \in Threads, Lock(t) PROVE MutexInv'
  BY <1>12 DEF Lock
<1>13. ASSUME NEW t \in Threads, Recheck(t) PROVE MutexInv'
  BY <1>13 DEF Recheck
<1>14. ASSUME NEW t \in Threads, Unlock(t) PROVE MutexInv'
  BY <1>14 DEF Unlock
<1>15. ASSUME NEW t \in Threads, Start(t) PROVE MutexInv'
  BY <1>15 DEF Start
<1>16. ASSUME NEW t \in Threads, NEW step \in Steps, Claim(t, step) PROVE MutexInv'
  BY <1>16 DEF Claim
<1>17. ASSUME NEW p \in Providers, Crash(p) PROVE MutexInv'
  BY <1>17 DEF Crash
<1>18. CASE UNCHANGED vars
  BY <1>18 DEF vars
<1>19. ASSUME NEW t \in Threads, WriteInitFails(t) PROVE MutexInv'
  BY <1>19 DEF WriteInitFails
<1>20. ASSUME NEW t \in Threads, ReadFails(t) PROVE MutexInv'
  BY <1>20 DEF ReadFails
<1>21. ASSUME NEW t \in Threads, WriteFails(t) PROVE MutexInv'
  BY <1>21 DEF WriteFails
<1> HIDE DEF TypeOK, MutexInv, Move, Goto, InCtor, memory, locals, history, bounds, errors
<1> QED
  BY <1>3, <1>4, <1>5, <1>6, <1>7, <1>8, <1>9, <1>10, <1>11,
     <1>12, <1>13, <1>14, <1>15, <1>16, <1>17, <1>18, <1>19, <1>20, <1>21
     DEF Next, Advance, Preserve

\* The file, the locals of preserve() and _hwm keep agreeing.
LEMMA FileStep ==
  ASSUME OneProvider, TypeOK, MutexInv, FileInv, ~damaged, [Next]_vars, ~damaged'
  PROVE  FileInv'
<1>1. \A t, u \in Threads : ProviderOf[t] \in Providers /\ ProviderOf[t] = ProviderOf[u]
  BY ConstantsAssumption DEF OneProvider
<1>2. \A t \in Threads, p \in Providers : ProviderOf[t] = p
  BY ConstantsAssumption DEF OneProvider
<1> USE <1>1, <1>2, ConstantsAssumption
    DEF TypeOK, FileInv, Locations, Critical, Preserving, Move, Goto, InCtor,
        memory, locals, history, bounds, errors, MutexInv, Reserved
<1>3. ASSUME NEW t \in Threads, CheckExists(t) PROVE FileInv'
  <2>1. /\ newFile'[t] => file = Absent
        /\ \A u \in Threads \ {t} : newFile'[u] = newFile[u]
    <3> HIDE <1>1, <1>2, ConstantsAssumption DEF MutexInv, FileInv
    <3>1. newFile \in [Threads -> BOOLEAN]
      OBVIOUS
    <3>2. newFile' = [newFile EXCEPT ![t] = file = Absent]
      BY <1>3 DEF CheckExists
    <3> QED
      BY <3>1, <3>2, Zenon
  <2> QED
    BY <1>3, <2>1 DEF CheckExists
<1>4. ASSUME NEW t \in Threads, OpenFile(t) PROVE FileInv'
  BY <1>4 DEF OpenFile
<1>5. ASSUME NEW t \in Threads, OpenFails(t) PROVE FileInv'
  BY <1>5 DEF OpenFails
<1>6. ASSUME NEW t \in Threads, WriteInit(t) PROVE FileInv'
  BY <1>6 DEF WriteInit
<1>7. ASSUME NEW t \in Threads, ReadFile(t) PROVE FileInv'
  BY <1>7 DEF ReadFile
<1>8. ASSUME NEW t \in Threads, WriteFile(t) PROVE FileInv'
  BY <1>8 DEF WriteFile
<1>9. ASSUME NEW t \in Threads, SetHwm(t) PROVE FileInv'
  BY <1>9 DEF SetHwm
<1>10. ASSUME NEW t \in Threads, Return(t) PROVE FileInv'
  BY <1>10 DEF Return
<1>11. ASSUME NEW t \in Threads, NeedBlock(t) PROVE FileInv'
  BY <1>11 DEF NeedBlock
<1>12. ASSUME NEW t \in Threads, Lock(t) PROVE FileInv'
  BY <1>12 DEF Lock
<1>13. ASSUME NEW t \in Threads, Recheck(t) PROVE FileInv'
  BY <1>13 DEF Recheck
<1>14. ASSUME NEW t \in Threads, Unlock(t) PROVE FileInv'
  BY <1>14 DEF Unlock
<1>15. ASSUME NEW t \in Threads, Start(t) PROVE FileInv'
  BY <1>15 DEF Start
<1>16. ASSUME NEW t \in Threads, NEW step \in Steps, Claim(t, step) PROVE FileInv'
  BY <1>16 DEF Claim
<1>17. ASSUME NEW p \in Providers, Crash(p) PROVE FileInv'
  BY <1>17 DEF Crash
<1>18. CASE UNCHANGED vars
  BY <1>18 DEF vars
<1>19. ASSUME NEW t \in Threads, WriteInitFails(t) PROVE FileInv'
  BY <1>19 DEF WriteInitFails
<1>20. ASSUME NEW t \in Threads, ReadFails(t) PROVE FileInv'
  BY <1>20 DEF ReadFails
<1>21. ASSUME NEW t \in Threads, WriteFails(t) PROVE FileInv'
  BY <1>21 DEF WriteFails
<1> HIDE DEF TypeOK, FileInv, Move, Goto, InCtor, memory, locals, history, bounds, errors
<1> QED
  BY <1>3, <1>4, <1>5, <1>6, <1>7, <1>8, <1>9, <1>10, <1>11,
     <1>12, <1>13, <1>14, <1>15, <1>16, <1>17, <1>18, <1>19, <1>20, <1>21
     DEF Next, Advance, Preserve

\* The ids in use stay below the file and below _current, and distinct.
LEMMA IdStep ==
  ASSUME OneProvider, TypeOK, MutexInv, FileInv, IdInv, ~damaged, [Next]_vars,
         ~damaged'
  PROVE  IdInv'
<1>1. \A t, u \in Threads : ProviderOf[t] \in Providers /\ ProviderOf[t] = ProviderOf[u]
  BY ConstantsAssumption DEF OneProvider
<1>2. \A t \in Threads, p \in Providers : ProviderOf[t] = p
  BY ConstantsAssumption DEF OneProvider
<1> USE <1>1, <1>2, ConstantsAssumption
    DEF TypeOK, IdInv, Locations, Critical, Preserving, Move, Goto, InCtor,
        memory, locals, history, bounds, errors, MutexInv, FileInv, Reserved, IssuedReserved, Claimed
<1>3. ASSUME NEW t \in Threads, CheckExists(t) PROVE IdInv'
  BY <1>3 DEF CheckExists
<1>4. ASSUME NEW t \in Threads, OpenFile(t) PROVE IdInv'
  BY <1>4 DEF OpenFile
<1>5. ASSUME NEW t \in Threads, OpenFails(t) PROVE IdInv'
  BY <1>5 DEF OpenFails
<1>6. ASSUME NEW t \in Threads, WriteInit(t) PROVE IdInv'
  BY <1>6 DEF WriteInit
<1>7. ASSUME NEW t \in Threads, ReadFile(t) PROVE IdInv'
  BY <1>7 DEF ReadFile
<1>8. ASSUME NEW t \in Threads, WriteFile(t) PROVE IdInv'
  BY <1>8 DEF WriteFile
<1>9. ASSUME NEW t \in Threads, SetHwm(t) PROVE IdInv'
  BY <1>9 DEF SetHwm
<1>10. ASSUME NEW t \in Threads, Return(t) PROVE IdInv'
  BY <1>10 DEF Return
<1>11. ASSUME NEW t \in Threads, NeedBlock(t) PROVE IdInv'
  BY <1>11 DEF NeedBlock
<1>12. ASSUME NEW t \in Threads, Lock(t) PROVE IdInv'
  BY <1>12 DEF Lock
<1>13. ASSUME NEW t \in Threads, Recheck(t) PROVE IdInv'
  BY <1>13 DEF Recheck
<1>14. ASSUME NEW t \in Threads, Unlock(t) PROVE IdInv'
  BY <1>14 DEF Unlock
<1>15. ASSUME NEW t \in Threads, Start(t) PROVE IdInv'
  BY <1>15 DEF Start
<1>16. ASSUME NEW t \in Threads, NEW step \in Steps, Claim(t, step) PROVE IdInv'
  BY <1>16 DEF Claim
<1>17. ASSUME NEW p \in Providers, Crash(p) PROVE IdInv'
  BY <1>17 DEF Crash
<1>18. CASE UNCHANGED vars
  BY <1>18 DEF vars
<1>19. ASSUME NEW t \in Threads, WriteInitFails(t) PROVE IdInv'
  BY <1>19 DEF WriteInitFails
<1>20. ASSUME NEW t \in Threads, ReadFails(t) PROVE IdInv'
  BY <1>20 DEF ReadFails
<1>21. ASSUME NEW t \in Threads, WriteFails(t) PROVE IdInv'
  BY <1>21 DEF WriteFails
<1> HIDE DEF TypeOK, IdInv, Move, Goto, InCtor, memory, locals, history, bounds, errors
<1> QED
  BY <1>3, <1>4, <1>5, <1>6, <1>7, <1>8, <1>9, <1>10, <1>11,
     <1>12, <1>13, <1>14, <1>15, <1>16, <1>17, <1>18, <1>19, <1>20, <1>21
     DEF Next, Advance, Preserve

\* A number that is lost stays lost.
LEMMA DamageStays ==
  ASSUME damaged, [Next]_vars
  PROVE  damaged'
BY DEF Next, Advance, Preserve, vars, CheckExists, OpenFile, OpenFails, WriteInit,
   WriteInitFails, ReadFile, ReadFails, WriteFile, WriteFails, SetHwm, Return,
   NeedBlock, Lock, Recheck, Unlock, Start, Claim, Crash, bounds, errors

\* Only Return changes the history, and the id it hands out is new as long as
\* the number in the file is not lost.
LEMMA HistoryStep ==
  ASSUME Inv, [Next]_vars
  PROVE  \/ UNCHANGED history
         \/ \E id \in Int : /\ id \in issued => damaged
                          /\ issued' = issued \cup {id} /\ served' = served + 1
                          /\ UNCHANGED damaged
<1>1. ASSUME NEW t \in Threads, Return(t)
      PROVE  \E id \in Int : /\ id \in issued => damaged
                           /\ issued' = issued \cup {id} /\ served' = served + 1
                           /\ UNCHANGED damaged
  <2>1. /\ pc[t] = "test" /\ issued' = issued \cup {res[t]} /\ served' = served + 1
        /\ UNCHANGED damaged
    BY <1>1 DEF Return, Move, bounds, errors
  <2>2. ~InCtor(t)
    BY <2>1 DEF Inv, MutexInv, Preserving
  <2>3. res[t] \in Int /\ (res[t] \in issued => damaged)
    BY <2>1, <2>2 DEF Inv, TypeOK, IdInv, Claimed
  <2> QED
    BY <2>1, <2>3
<1> QED
  BY <1>1 DEF Next, Advance, Preserve, vars, CheckExists, OpenFile, OpenFails,
     WriteInit, WriteInitFails, ReadFile, ReadFails, WriteFile, WriteFails, SetHwm,
     NeedBlock, Lock, Recheck, Unlock, Start, Claim, Crash, history

\* The number of ids handed out stays the number of calls that returned.
LEMMA CountStep ==
  ASSUME Inv, [Next]_vars
  PROVE  CountInv'
<1>1. CASE UNCHANGED history
  BY <1>1, DamageStays DEF Inv, CountInv, UniqueIds, NoIdTwice, history
<1>2. ASSUME NEW id \in Int, id \in issued => damaged, issued' = issued \cup {id},
             served' = served + 1
      PROVE  CountInv'
  <2>1. IsFiniteSet(issued) /\ (damaged \/ Cardinality(issued) = served)
    BY DEF Inv, CountInv, UniqueIds, NoIdTwice
  <2>2. /\ IsFiniteSet(issued \cup {id})
        /\ id \notin issued => Cardinality(issued \cup {id}) = Cardinality(issued) + 1
    BY <2>1, FS_AddElement
  <2> QED
    BY <1>2, <2>1, <2>2, DamageStays DEF CountInv, UniqueIds, NoIdTwice
<1> QED
  BY <1>1, <1>2, HistoryStep

\* The invariant of next() and preserve() when one provider uses the file.
THEOREM Invariant ==
  ASSUME OneProvider
  PROVE  Spec => []Inv
<1>1. Init => Inv
  <2> SUFFICES ASSUME Init PROVE Inv
    OBVIOUS
  <2>1. TypeOK
    BY TypeInit
  <2>2. MutexInv
    BY ConstantsAssumption DEF Init, MutexInv, Critical, Preserving, InCtor
  <2>3. FileInv /\ IdInv
    BY ConstantsAssumption DEF Init, FileInv, IdInv, IssuedReserved, Claimed, InCtor
  <2>4. CountInv
    BY FS_EmptySet DEF Init, CountInv, UniqueIds, NoIdTwice
  <2> QED
    BY <2>1, <2>2, <2>3, <2>4 DEF Inv
<1>2. TypeOK' /\ Inv /\ [Next]_vars => Inv'
  BY MutexStep, FileStep, IdStep, CountStep, DamageStays DEF Inv
<1> QED
  BY <1>1, <1>2, TypeCorrect, PTL DEF Spec

\* No two calls of next() return the same id, whatever crashes and restarts
\* happen, unless a read failed or a provider was started from a file whose last
\* write had failed.
THEOREM IdsAreUnique ==
  ASSUME OneProvider
  PROVE  Spec => []UniqueIds
<1>1. Inv => UniqueIds
  BY DEF Inv, CountInv
<1> QED
  BY <1>1, Invariant, PTL

\* An id is handed out only after the file has been moved past it; after a write
\* that failed, the file lags behind the ids by one block at most.
THEOREM IdsAreReserved ==
  ASSUME OneProvider
  PROVE  Spec => []IssuedReserved
<1>1. Inv => IssuedReserved
  BY DEF Inv, IdInv, IssuedReserved
<1> QED
  BY <1>1, Invariant, PTL

\* A provider alone on its file implements the abstract id allocator.
THEOREM ImplementsAllocator ==
  ASSUME OneProvider
  PROVE  Spec => AllocatorSpec
<1>1. Init => Allocator!Init
  BY DEF Init, Allocator!Init
<1>2. Inv /\ [Next]_vars => [Allocator!Next]_<<issued, served, damaged>>
  <2> SUFFICES ASSUME Inv, [Next]_vars PROVE [Allocator!Next]_<<issued, served, damaged>>
    OBVIOUS
  <2>1. CASE UNCHANGED history
    <3>1. damaged' = damaged \/ damaged' = TRUE
      BY TypeStep, DamageStays DEF Inv, TypeOK
    <3> QED
      BY <2>1, <3>1 DEF history, Allocator!Next, Allocator!Lose
  <2>2. CASE ~ UNCHANGED history
    BY <2>2, HistoryStep DEF Allocator!Next, Allocator!Issue
  <2> QED
    BY <2>1, <2>2
<1> QED
  BY <1>1, <1>2, Invariant, PTL DEF Spec, AllocatorSpec, Allocator!Spec
=============================================================================
