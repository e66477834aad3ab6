------------------------- MODULE StopTheWorld_proofs ------------------------
(***************************************************************************)
(* Theorems about StopTheWorld, for every number of threads and every      *)
(* program the hypotheses allow.                                           *)
(***************************************************************************)
EXTENDS StopTheWorld, FiniteSetTheorems, TLAPS

\* No thread asks for a collection by itself (system 1 or 2).
NoExplicitCollection == \A t \in Threads : "gc" \notin Program[t]

\* Without explicit collections a thread that was released goes on in compiled
\* code or before a lock, never inside a critical section.
RetryTakesLock ==
  \A t \in Threads :
    /\ routine[t] # "gc"
    /\ cont[t] \in {"run", "allocSpin", "include", "returning", "exitSpin"}

USE SlotCountAssumption, InitialAssumption, ProgramAssumption, JoinAssumption,
    BoundAssumption

-----------------------------------------------------------------------------
(* Types *)

LEMMA InitType == Init => TypeOK
  BY DEF Init, TypeOK, Threads, NoThread, Locations, Holding, Announced, Parked, Absent

LEMMA TypeStep ==
  ASSUME TypeOK, ScanInTable, RetryTakesLock, [Next]_vars
  PROVE  TypeOK'
<1> USE DEF TypeOK, gcVars, tableVars, entryVars, callVars, scanVars, Goto,
            Locations, Holding, Announced, Parked
<1>1. ASSUME NEW t \in Threads, Spinning(t) PROVE TypeOK'
  <2>1. ASSUME NEW from, NEW to \in Locations, LockTo(t, from, to) PROVE TypeOK'
    BY <2>1 DEF LockTo, TryLock
  <2> QED BY <1>1, <2>1 DEF Spinning, WaitLock, AllocLock, PermLock, CollectLock,
                            CreateLock, RegisterLock, ExitLock
<1>2. ASSUME NEW t \in Threads, Unlocking(t) PROVE TypeOK'
  <2>1. ASSUME NEW from, NEW to \in Locations, UnlockTo(t, from, to) PROVE TypeOK'
    BY <2>1 DEF UnlockTo, FreeLock
  <2> QED BY <1>2, <2>1 DEF Unlocking, StopUnlock, AllocUnlock, ListUnlock,
                            CreateUnlock, RegisterUnlock, ExitUnlock
<1>3. ASSUME NEW t \in Threads, Runtime(t) PROVE TypeOK'
  <2>1. CASE Stop(t) BY <2>1 DEF Stop, PublishFrame, Signal
  <2>2. CASE Resume(t) BY <2>2 DEF Resume
  <2>3. CASE AllocFits(t) \/ PermFits(t) BY <2>3 DEF AllocFits, PermFits, Fits
  <2>4. CASE AllocFull(t) \/ PermFull(t) BY <2>4 DEF AllocFull, PermFull, Full
  <2>5. CASE EnterCollect(t) BY <2>5 DEF EnterCollect, PublishFrame, RetryPoint
  <2>6. CASE Claim(t) 
    <3>1. /\ gcSignal' \in Threads
          /\ left' \in [Threads -> 0 .. SlotCount]
      BY <2>6 DEF Claim
    <3>2. collections' \in 0 .. MaxCollections
      BY <2>6 DEF Claim
    <3> QED BY <2>6, <3>1, <3>2 DEF Claim
  <2>7. CASE ScanSlot(t) 
    <3>1. cursor[t] \in 0 .. SlotCount - 1 /\ left[t] \in 1 .. SlotCount
      BY <2>7 DEF ScanSlot, Own, ScanInTable
    <3>2. cursor' \in [Threads -> 0 .. SlotCount] /\ left' \in [Threads -> 0 .. SlotCount]
      BY <2>7, <3>1 DEF ScanSlot, Own, NextIteration
    <3>3. waitList' \in [Threads -> SUBSET Threads]
      BY <2>7, <3>1 DEF ScanSlot, Own, Threads
    <3>4. event' \in [Threads -> {"closed", "clear", "set"}]
      BY <2>7, <3>1 DEF ScanSlot, Own, Threads, Reset
    <3>5. pc' \in [Threads -> Locations]
      BY <2>7 DEF ScanSlot, Own, NextIteration
    <3> QED BY <2>7, <3>2, <3>3, <3>4, <3>5 DEF ScanSlot, Own
  <2>8. CASE ScanEmpty(t) BY <2>8 DEF ScanEmpty, NextIteration, ScanInTable
  <2>9. CASE Await(t) BY <2>9 DEF Await
  <2>10. CASE EndCollect(t) BY <2>10 DEF EndCollect, ClearSignal
  <2>11. CASE SignalEnd(t) BY <2>11 DEF SignalEnd, Signal
  <2>12. CASE HeapExhausted(t) BY <2>12 DEF HeapExhausted
  <2>13. CASE ExcludeFrame(t) BY <2>13 DEF ExcludeFrame, PublishFrame
  <2>14. CASE ExternalReturn(t) BY <2>14 DEF ExternalReturn
  <2>15. CASE IncludeSafePoint(t) BY <2>15 DEF IncludeSafePoint, SafePoint
  <2>16. CASE Include(t) BY <2>16 DEF Include
  <2>17. CASE AllocateThread(t) 
    <3>1. counter' \in 0 .. SlotCount
      BY <2>17 DEF AllocateThread
    <3>2. pc' \in [Threads -> Locations]
      BY <2>17 DEF AllocateThread
    <3> QED BY <2>17, <3>1, <3>2 DEF AllocateThread
  <2>18. CASE Register(t) BY <2>18 DEF Register
  <2>19. CASE Uninit(t) BY <2>19 DEF Uninit
  <2> QED BY <1>3, <2>1, <2>2, <2>3, <2>4, <2>5, <2>6, <2>7, <2>8, <2>9, <2>10,
             <2>11, <2>12, <2>13, <2>14, <2>15, <2>16, <2>17, <2>18, <2>19
          DEF Runtime
<1>4. ASSUME NEW t \in Threads, Managed(t) PROVE TypeOK'
  <2>1. CASE CallAlloc(t) \/ CallAllocPerm(t) \/ CallCollect(t)
    BY <2>1 DEF CallAlloc, CallAllocPerm, CallCollect, Call
  <2>2. CASE LoopSafePoint(t) BY <2>2 DEF LoopSafePoint, SafePoint
  <2>3. CASE ExcludeFlag(t) BY <2>3 DEF ExcludeFlag
  <2>4. CASE CallCreate(t) BY <2>4 DEF CallCreate
  <2>5. CASE StartThread(t) BY <2>5 DEF StartThread
  <2>6. CASE ExitSafePoint(t) BY <2>6 DEF ExitSafePoint, SafePoint
  <2> QED BY <1>4, <2>1, <2>2, <2>3, <2>4, <2>5, <2>6 DEF Managed
<1>5. CASE UNCHANGED vars
  BY <1>5 DEF vars
<1> QED
  BY <1>1, <1>2, <1>3, <1>4, <1>5 DEF Next, Step

-----------------------------------------------------------------------------
(* Where a stopped thread goes on *)

LEMMA InitRetry == Init => RetryTakesLock
  BY DEF Init, RetryTakesLock

LEMMA RetryStep ==
  ASSUME NoExplicitCollection, TypeOK, RetryTakesLock, [Next]_vars
  PROVE  RetryTakesLock'
<1> USE DEF TypeOK, RetryTakesLock, gcVars, tableVars, entryVars, callVars, scanVars
<1>1. CASE UNCHANGED <<routine, cont>>
  BY <1>1
<1>2. ASSUME NEW t \in Threads, NEW from,
             NEW next \in {"run", "include", "exitSpin"}, SafePoint(t, from, next)
      PROVE  RetryTakesLock'
  BY <1>2 DEF SafePoint
<1>3. ASSUME NEW t \in Threads, EnterCollect(t) PROVE RetryTakesLock'
  BY <1>3 DEF EnterCollect, RetryPoint
<1>4. ASSUME NEW t \in Threads, ExcludeFlag(t) PROVE RetryTakesLock'
  BY <1>4 DEF ExcludeFlag
<1>5. ASSUME NEW t \in Threads, NEW service \in {"alloc", "perm", "gc"}, NEW to,
             Call(t, service, to)
      PROVE  RetryTakesLock'
  BY <1>5 DEF Call, NoExplicitCollection
<1>6. ASSUME NEW t \in Threads, Spinning(t) \/ Unlocking(t)
      PROVE  UNCHANGED <<routine, cont>>
  BY <1>6 DEF Spinning, WaitLock, AllocLock, PermLock, CollectLock, CreateLock,
              RegisterLock, ExitLock, LockTo, Unlocking, StopUnlock, AllocUnlock,
              ListUnlock, CreateUnlock, RegisterUnlock, ExitUnlock, UnlockTo
<1>7. ASSUME NEW t \in Threads, Runtime(t) PROVE RetryTakesLock'
  BY <1>1, <1>2, <1>3, <1>7
  DEF Runtime, Stop, Resume, AllocFits, PermFits, Fits, AllocFull, PermFull, Full,
      Claim, ScanSlot, ScanEmpty, Await, EndCollect, SignalEnd, HeapExhausted,
      ExcludeFrame, ExternalReturn, IncludeSafePoint, Include, AllocateThread,
      Register, Uninit
<1>8. ASSUME NEW t \in Threads, Managed(t) PROVE RetryTakesLock'
  BY <1>1, <1>2, <1>4, <1>5, <1>8
  DEF Managed, CallAlloc, CallAllocPerm, CallCollect, LoopSafePoint, CallCreate,
      StartThread, ExitSafePoint
<1>9. CASE UNCHANGED vars
  BY <1>1, <1>9 DEF vars
<1> QED
  BY <1>1, <1>6, <1>7, <1>8, <1>9 DEF Next, Step

-----------------------------------------------------------------------------
(* The scan stays in the table *)

LEMMA InitScan == Init => ScanInTable
  BY DEF Init, ScanInTable

\* A step that leaves the cursors alone and takes no thread into the scan.
LEMMA ScanFrame ==
  ASSUME TypeOK, ScanInTable, UNCHANGED <<cursor, left>>,
         counter' \in Nat, counter' >= counter,
         \A t \in Threads : pc'[t] = "scan" => pc[t] = "scan"
  PROVE  ScanInTable'
  BY DEF TypeOK, ScanInTable

LEMMA ScanStep ==
  ASSUME TypeOK, TypeOK', RetryTakesLock, SlotTable, ScanInTable, [Next]_vars
  PROVE  ScanInTable'
<1> USE DEF gcVars, tableVars, entryVars, callVars, scanVars, Goto
<1>1. \A t \in Threads : cont[t] # "scan"
  BY DEF RetryTakesLock
<1>2. ASSUME NEW t \in Threads, Claim(t) PROVE ScanInTable'
  <2>1. counter > 0 /\ counter' = counter
    BY <1>2 DEF Claim, SlotTable, TypeOK, Threads
  <2> QED BY <1>2, <2>1 DEF Claim, ScanInTable, TypeOK
<1>3. ASSUME NEW t \in Threads, ScanSlot(t) \/ ScanEmpty(t) PROVE ScanInTable'
  BY <1>3 DEF ScanSlot, Own, ScanEmpty, NextIteration, ScanInTable, TypeOK
<1>4. ASSUME NEW t \in Threads, Await(t) PROVE ScanInTable'
  BY <1>4 DEF Await, ScanInTable, TypeOK
<1>5. ASSUME NEW t \in Threads, AllocateThread(t) PROVE ScanInTable'
  <2>1. UNCHANGED <<cursor, left>> /\ counter' \in Nat /\ counter' >= counter
    BY <1>5 DEF AllocateThread, TypeOK
  <2>2. \A u \in Threads : pc'[u] = "scan" => pc[u] = "scan"
    BY <1>5 DEF AllocateThread, TypeOK
  <2> QED BY <2>1, <2>2, ScanFrame
<1>6. ASSUME NEW t \in Threads, NEW l, l # "scan", Goto(t, l),
             UNCHANGED <<cursor, left, counter>>
      PROVE  ScanInTable'
  <2>1. \A u \in Threads : pc'[u] = "scan" => pc[u] = "scan"
    BY <1>6 DEF TypeOK
  <2>2. counter' \in Nat /\ counter' >= counter
    BY <1>6 DEF TypeOK
  <2> QED BY <1>6, <2>1, <2>2, ScanFrame
<1>7. ASSUME NEW t \in Threads, Spinning(t) \/ Unlocking(t) PROVE ScanInTable'
  BY <1>6, <1>7
  DEF Spinning, WaitLock, AllocLock, PermLock, CollectLock, CreateLock,
      RegisterLock, ExitLock, LockTo, Unlocking, StopUnlock, AllocUnlock,
      ListUnlock, CreateUnlock, RegisterUnlock, ExitUnlock, UnlockTo
<1>8. ASSUME NEW t \in Threads, NEW from, NEW next, next # "scan", SafePoint(t, from, next)
      PROVE  ScanInTable'
  BY <1>6, <1>8 DEF SafePoint
<1>9. ASSUME NEW t \in Threads, Runtime(t) PROVE ScanInTable'
  BY <1>1, <1>2, <1>3, <1>4, <1>5, <1>6, <1>8, <1>9
  DEF Runtime, Stop, Resume, AllocFits, PermFits, Fits, AllocFull, PermFull, Full,
      EnterCollect, EndCollect, SignalEnd, HeapExhausted, ExcludeFrame,
      ExternalReturn, IncludeSafePoint, Include, Register, Uninit
<1>10. ASSUME NEW t \in Threads, Managed(t) PROVE ScanInTable'
  BY <1>6, <1>8, <1>10
  DEF Managed, CallAlloc, CallAllocPerm, CallCollect, Call, LoopSafePoint,
      ExcludeFlag, CallCreate, StartThread, ExitSafePoint
<1>11. CASE UNCHANGED vars
  BY <1>11 DEF vars, ScanInTable
<1> QED
  BY <1>7, <1>9, <1>10, <1>11 DEF Next, Step

-----------------------------------------------------------------------------
(* The thread table *)

LEMMA InitTable == Init => SlotTable
<1> SUFFICES ASSUME Init, NEW t \in Threads
             PROVE  /\ t < counter <=> pc[t] # "unborn"
                    /\ published[t] <=> event[t] # "closed"
                    /\ published[t] <=> pc[t] \notin Absent
  BY DEF SlotTable
<1>1. published[t] <=> t < InitialThreads
  BY Zenon DEF Init
<1>2. CASE t < InitialThreads
  BY <1>1, <1>2 DEF Init, Absent
<1>3. CASE ~(t < InitialThreads)
  BY <1>1, <1>3 DEF Init, Absent
<1> QED BY <1>2, <1>3

LEMMA TableStep ==
  ASSUME TypeOK, TypeOK', RetryTakesLock, SlotTable, ScanInTable, [Next]_vars
  PROVE  SlotTable'
<1> USE DEF gcVars, tableVars, entryVars, callVars, scanVars, Goto
<1>1. \A t \in Threads : cont[t] \notin Absent
  BY DEF RetryTakesLock, Absent
<1>2. ASSUME NEW t \in Threads, NEW l, Goto(t, l),
             pc[t] \notin Absent, l \notin Absent, UNCHANGED <<counter, published>>,
             \A u \in Threads : event'[u] = "closed" <=> event[u] = "closed"
      PROVE  SlotTable'
  BY <1>2 DEF TypeOK, SlotTable, Absent
<1>3. ASSUME NEW t \in Threads, Stop(t) PROVE SlotTable'
  <2>1. pc[t] \notin Absent /\ event[t] # "closed"
    BY <1>3 DEF Stop, SlotTable, Absent
  <2>2. \A u \in Threads : event'[u] = "closed" <=> event[u] = "closed"
    BY <1>3, <2>1 DEF Stop, Signal, TypeOK
  <2> QED BY <1>2, <1>3, <2>1, <2>2 DEF Stop, Absent
<1>4. ASSUME NEW t \in Threads, ScanSlot(t) PROVE SlotTable'
  <2>1. cursor[t] \in Threads
    BY <1>4 DEF ScanSlot, Own, ScanInTable, TypeOK, Threads
  <2>2. \A u \in Threads : event'[u] = "closed" <=> event[u] = "closed"
    BY <1>4, <2>1 DEF ScanSlot, Own, Reset, TypeOK
  <2> QED BY <1>2, <1>4, <2>2 DEF ScanSlot, Own, NextIteration, Absent
<1>5. ASSUME NEW t \in Threads, SignalEnd(t) PROVE SlotTable'
  <2>1. \A u \in Threads : event'[u] = "closed" <=> event[u] = "closed"
    BY <1>5 DEF SignalEnd, Signal, TypeOK
  <2> QED BY <1>2, <1>5, <2>1 DEF SignalEnd, Absent
<1>6. ASSUME NEW t \in Threads, AllocateThread(t) PROVE SlotTable'
  <2>1. CASE counter < SlotCount
    <3>1. counter \in Threads /\ pc[counter] = "unborn" /\ t # counter
      BY <1>6, <2>1 DEF AllocateThread, SlotTable, TypeOK, Threads
    <3>2. /\ \A u \in Threads \ {t, counter} : pc'[u] = pc[u]
          /\ pc'[t] = "createDone" /\ pc'[counter] = "created"
      BY <1>6, <2>1, <3>1 DEF AllocateThread, TypeOK
    <3>3. \A u \in Threads : u < counter' <=> pc'[u] # "unborn"
      <4>1. counter \in Nat /\ counter' = counter + 1 /\ Threads \subseteq Nat
        BY <1>6, <2>1 DEF AllocateThread, TypeOK, Threads
      <4>2. \A u \in Threads : u < counter <=> pc[u] # "unborn"
        BY DEF SlotTable
      <4> QED BY <1>6, <3>1, <3>2, <4>1, <4>2 DEF AllocateThread
    <3>4. \A u \in Threads : pc'[u] \in Absent <=> pc[u] \in Absent
      BY <1>6, <3>1, <3>2 DEF AllocateThread, Absent
    <3> QED BY <1>6, <3>3, <3>4 DEF AllocateThread, SlotTable
  <2>2. CASE ~(counter < SlotCount)
    BY <1>2, <1>6, <2>2 DEF AllocateThread, Absent
  <2> QED BY <2>1, <2>2
<1>7. ASSUME NEW t \in Threads, Register(t) \/ Uninit(t) \/ StartThread(t)
      PROVE  SlotTable'
  BY <1>7 DEF Register, Uninit, StartThread, SlotTable, TypeOK, Absent
<1>8. ASSUME NEW t \in Threads, NEW from, NEW to, LockTo(t, from, to) \/ UnlockTo(t, from, to),
             from \in Absent <=> to \in Absent, from # "unborn", to # "unborn"
      PROVE  SlotTable'
  BY <1>8 DEF LockTo, UnlockTo, SlotTable, TypeOK, Absent
<1>9. ASSUME NEW t \in Threads, Spinning(t) \/ Unlocking(t) PROVE SlotTable'
  BY <1>8, <1>9
  DEF Spinning, WaitLock, AllocLock, PermLock, CollectLock, CreateLock, RegisterLock,
      ExitLock, Unlocking, StopUnlock, AllocUnlock, ListUnlock, CreateUnlock,
      RegisterUnlock, ExitUnlock, Absent
<1>10. ASSUME NEW t \in Threads, NEW from, NEW next, from \notin Absent,
              next \notin Absent, SafePoint(t, from, next)
       PROVE  SlotTable'
  BY <1>2, <1>10 DEF SafePoint, Absent
<1>11. ASSUME NEW t \in Threads, Runtime(t) PROVE SlotTable'
  BY <1>1, <1>2, <1>3, <1>4, <1>5, <1>6, <1>7, <1>10, <1>11
  DEF Runtime, Resume, AllocFits, PermFits, Fits, AllocFull, PermFull, Full,
      EnterCollect, Claim, ScanEmpty, NextIteration, Await, EndCollect,
      HeapExhausted, ExcludeFrame, ExternalReturn, IncludeSafePoint, Include, Absent
<1>12. ASSUME NEW t \in Threads, Managed(t) PROVE SlotTable'
  BY <1>2, <1>7, <1>10, <1>12
  DEF Managed, CallAlloc, CallAllocPerm, CallCollect, Call, LoopSafePoint,
      ExcludeFlag, CallCreate, ExitSafePoint, Absent
<1>13. CASE UNCHANGED vars
  BY <1>13 DEF vars, SlotTable
<1> QED
  BY <1>9, <1>11, <1>12, <1>13 DEF Next, Step

-----------------------------------------------------------------------------
(* The lock *)

LEMMA InitLock == Init => LockDiscipline
  BY DEF Init, LockDiscipline, Holding

LEMMA LockStep ==
  ASSUME TypeOK, RetryTakesLock, SlotTable, LockDiscipline, [Next]_vars
  PROVE  LockDiscipline'
<1> USE DEF gcVars, tableVars, entryVars, callVars, scanVars, Goto
<1>1. \A t \in Threads : cont[t] \notin Holding
  BY DEF RetryTakesLock, Holding
<1>2. ASSUME NEW t \in Threads, NEW l, Goto(t, l), gcLock' = gcLock,
             pc[t] \in Holding <=> l \in Holding
      PROVE  LockDiscipline'
  BY <1>2 DEF TypeOK, LockDiscipline
<1>3. ASSUME NEW t \in Threads, NEW from, NEW to, LockTo(t, from, to),
             from \notin Holding, to \in Holding
      PROVE  LockDiscipline'
  BY <1>3 DEF LockTo, TryLock, TypeOK, LockDiscipline
<1>4. ASSUME NEW t \in Threads, NEW from, NEW to, UnlockTo(t, from, to),
             from \in Holding, to \notin Holding
      PROVE  LockDiscipline'
  <2>1. gcLock = 1
    BY <1>4 DEF UnlockTo, LockDiscipline
  <2> QED BY <1>4, <2>1 DEF UnlockTo, FreeLock, TypeOK, LockDiscipline
<1>5. ASSUME NEW t \in Threads, AllocateThread(t) PROVE LockDiscipline'
  <2>1. CASE counter < SlotCount
    <3>1. counter \in Threads /\ pc[counter] = "unborn"
      BY <2>1 DEF SlotTable, TypeOK, Threads
    <3>2. \A u \in Threads : pc'[u] \in Holding <=> pc[u] \in Holding
      BY <1>5, <2>1, <3>1 DEF AllocateThread, TypeOK, Holding
    <3> QED BY <1>5, <3>2 DEF AllocateThread, LockDiscipline
  <2>2. CASE ~(counter < SlotCount)
    BY <1>2, <1>5, <2>2 DEF AllocateThread, Holding
  <2> QED BY <2>1, <2>2
<1>6. ASSUME NEW t \in Threads, Spinning(t) PROVE LockDiscipline'
  BY <1>3, <1>6 DEF Spinning, WaitLock, AllocLock, PermLock, CollectLock, CreateLock,
                    RegisterLock, ExitLock, Holding
<1>7. ASSUME NEW t \in Threads, Unlocking(t) PROVE LockDiscipline'
  BY <1>4, <1>7 DEF Unlocking, StopUnlock, AllocUnlock, ListUnlock, CreateUnlock,
                    RegisterUnlock, ExitUnlock, Holding
<1>8. ASSUME NEW t \in Threads, NEW from, NEW next, SafePoint(t, from, next),
             from \notin Holding, next \notin Holding
      PROVE  LockDiscipline'
  BY <1>2, <1>8 DEF SafePoint, Holding
<1>9. ASSUME NEW t \in Threads, Runtime(t) PROVE LockDiscipline'
  BY <1>1, <1>2, <1>5, <1>8, <1>9
  DEF Runtime, Stop, Resume, AllocFits, PermFits, Fits, AllocFull, PermFull, Full,
      EnterCollect, Claim, ScanSlot, ScanEmpty, NextIteration, Await, EndCollect,
      SignalEnd, HeapExhausted, ExcludeFrame, ExternalReturn, IncludeSafePoint,
      Include, Register, Uninit, Holding
<1>10. ASSUME NEW t \in Threads, Managed(t) PROVE LockDiscipline'
  BY <1>2, <1>8, <1>10
  DEF Managed, CallAlloc, CallAllocPerm, CallCollect, Call, LoopSafePoint,
      ExcludeFlag, CallCreate, StartThread, ExitSafePoint, Holding
<1>11. CASE UNCHANGED vars
  BY <1>11 DEF vars, LockDiscipline
<1> QED
  BY <1>6, <1>7, <1>9, <1>10, <1>11 DEF Next, Step

-----------------------------------------------------------------------------
(* The collecting thread *)

CollectorInv == OneCollector /\ ClaimIsCurrent

LEMMA InitCollector == Init => CollectorInv
  BY DEF Init, CollectorInv, OneCollector, ClaimIsCurrent, Announced, Threads, NoThread

LEMMA CollectorStep ==
  ASSUME ~HeapMayFail, TypeOK, RetryTakesLock, SlotTable, LockDiscipline,
         CollectorInv, [Next]_vars
  PROVE  CollectorInv'
<1> USE DEF gcVars, tableVars, entryVars, callVars, scanVars, Goto
<1>1. \A t \in Threads : cont[t] \notin Announced /\ cont[t] # "claim"
  BY DEF RetryTakesLock, Announced
<1>2. ASSUME NEW t \in Threads, NEW l, Goto(t, l), gcSignal' = gcSignal, l # "claim",
             pc[t] \in Announced <=> l \in Announced
      PROVE  CollectorInv'
  BY <1>2 DEF TypeOK, CollectorInv, OneCollector, ClaimIsCurrent
<1>3. ASSUME NEW t \in Threads, Claim(t) PROVE CollectorInv'
  <2>1. \A u \in Threads : pc[u] \notin Announced
    BY <1>3 DEF Claim, CollectorInv, OneCollector, ClaimIsCurrent, Threads, NoThread
  <2>2. \A u \in Threads : pc[u] = "claim" => u = t
    BY <1>3 DEF Claim, LockDiscipline, Holding
  <2> QED BY <1>3, <2>1, <2>2
          DEF Claim, TypeOK, CollectorInv, OneCollector, ClaimIsCurrent, Announced
<1>4. ASSUME NEW t \in Threads, EndCollect(t) PROVE CollectorInv'
  <2>1. gcSignal = t
    BY <1>4 DEF EndCollect, CollectorInv, OneCollector, Announced
  <2>2. NoThread \notin Threads
    BY DEF Threads, NoThread
  <2> QED BY <1>4, <2>1, <2>2
          DEF EndCollect, ClearSignal, TypeOK, CollectorInv, OneCollector, ClaimIsCurrent, Announced
<1>5. ASSUME NEW t \in Threads, EnterCollect(t) PROVE CollectorInv'
  <2>1. CASE gcSignal = NoThread
    <3>1. Goto(t, "claim") /\ pc[t] = "collect" /\ gcSignal' = gcSignal
      BY <1>5, <2>1 DEF EnterCollect
    <3>2. \A u \in Threads : pc'[u] \in Announced <=> pc[u] \in Announced
      BY <3>1 DEF TypeOK, Announced
    <3> QED BY <2>1, <3>1, <3>2 DEF CollectorInv, OneCollector, ClaimIsCurrent
  <2>2. CASE gcSignal # NoThread
    BY <1>2, <1>5, <2>2 DEF EnterCollect, Announced
  <2> QED BY <2>1, <2>2
<1>6. ASSUME NEW t \in Threads, AllocateThread(t) PROVE CollectorInv'
  <2>1. CASE counter < SlotCount
    <3>1. counter \in Threads /\ pc[counter] = "unborn"
      BY <2>1 DEF SlotTable, TypeOK, Threads
    <3>2. \A u \in Threads : pc'[u] \in Announced <=> pc[u] \in Announced
      BY <1>6, <2>1, <3>1 DEF AllocateThread, TypeOK, Announced
    <3>3. \A u \in Threads : pc'[u] = "claim" => pc[u] = "claim"
      BY <1>6, <2>1, <3>1 DEF AllocateThread, TypeOK
    <3>4. gcSignal' = gcSignal
      BY <1>6 DEF AllocateThread
    <3>5. OneCollector'
      BY <3>2, <3>4 DEF CollectorInv, OneCollector
    <3>6. ClaimIsCurrent'
      BY <3>3, <3>4 DEF CollectorInv, ClaimIsCurrent
    <3> QED BY <3>5, <3>6 DEF CollectorInv
  <2>2. CASE ~(counter < SlotCount)
    BY <1>2, <1>6, <2>2 DEF AllocateThread, Announced
  <2> QED BY <2>1, <2>2
<1>7. ASSUME NEW t \in Threads, Spinning(t) \/ Unlocking(t) PROVE CollectorInv'
  BY <1>2, <1>7
  DEF Spinning, WaitLock, AllocLock, PermLock, CollectLock, CreateLock, RegisterLock,
      ExitLock, LockTo, Unlocking, StopUnlock, AllocUnlock, ListUnlock, CreateUnlock,
      RegisterUnlock, ExitUnlock, UnlockTo, Announced
<1>8. ASSUME NEW t \in Threads, NEW from, NEW next, SafePoint(t, from, next),
             from \notin Announced, next \notin Announced, next # "claim"
      PROVE  CollectorInv'
  BY <1>2, <1>8 DEF SafePoint, Announced
<1>9. ASSUME NEW t \in Threads, Runtime(t) PROVE CollectorInv'
  BY <1>1, <1>2, <1>3, <1>4, <1>5, <1>6, <1>8, <1>9
  DEF Runtime, Stop, Resume, AllocFits, PermFits, Fits, AllocFull, PermFull, Full,
      ScanSlot, ScanEmpty, NextIteration, Await, SignalEnd, HeapExhausted,
      ExcludeFrame, ExternalReturn, IncludeSafePoint, Include, Register, Uninit,
      Announced
<1>10. ASSUME NEW t \in Threads, Managed(t) PROVE CollectorInv'
  BY <1>2, <1>8, <1>10
  DEF Managed, CallAlloc, CallAllocPerm, CallCollect, Call, LoopSafePoint,
      ExcludeFlag, CallCreate, StartThread, ExitSafePoint, Announced
<1>11. CASE UNCHANGED vars
  BY <1>11 DEF vars, CollectorInv, OneCollector, ClaimIsCurrent
<1> QED
  BY <1>7, <1>9, <1>10, <1>11 DEF Next, Step

-----------------------------------------------------------------------------
(* The theorems *)

RuntimeInv == TypeOK /\ RetryTakesLock /\ SlotTable /\ ScanInTable /\ LockDiscipline

\* The inductive invariant.  gc_lock is freed by adding -1, so mutual exclusion
\* needs to know that only its holder frees it; that in turn needs that no
\* thread comes back to GC_COLLECT without the lock (RetryTakesLock) and that
\* thread creation touches a slot of a thread that is not yet born (SlotTable).
THEOREM RuntimeInvariant ==
  ASSUME NoExplicitCollection
  PROVE  Spec => []RuntimeInv
<1>1. Init => RuntimeInv
  BY InitType, InitRetry, InitTable, InitScan, InitLock DEF RuntimeInv
<1>2. RuntimeInv /\ [Next]_vars => RuntimeInv'
  BY TypeStep, RetryStep, TableStep, ScanStep, LockStep DEF RuntimeInv
<1> QED
  BY <1>1, <1>2, PTL DEF Spec

\* gc_lock is a mutual exclusion lock in every program without explicit
\* collections, with any number of threads created, stopped and ended.
THEOREM LockSafety ==
  ASSUME NoExplicitCollection
  PROVE  Spec => []LockDiscipline
<1>1. RuntimeInv => LockDiscipline
  BY DEF RuntimeInv
<1> QED
  BY <1>1, RuntimeInvariant, PTL

\* The variables of the protocol keep their types: in particular the counter of
\* the thread table never passes its size and a wait list names threads only.
THEOREM TypeSafety ==
  ASSUME NoExplicitCollection
  PROVE  Spec => []TypeOK
<1>1. RuntimeInv => TypeOK
  BY DEF RuntimeInv
<1> QED
  BY <1>1, RuntimeInvariant, PTL

\* The thread table describes the life of the threads.
THEOREM TableSafety ==
  ASSUME NoExplicitCollection
  PROVE  Spec => []SlotTable
<1>1. RuntimeInv => SlotTable
  BY DEF RuntimeInv
<1> QED
  BY <1>1, RuntimeInvariant, PTL

\* A collecting thread scans inside the thread table, though threads are created
\* and end during the collection.
THEOREM ScanSafety ==
  ASSUME NoExplicitCollection
  PROVE  Spec => []ScanInTable
<1>1. RuntimeInv => ScanInTable
  BY DEF RuntimeInv
<1> QED
  BY <1>1, RuntimeInvariant, PTL

\* The announcement of a collection and its reader in labConinue fit together, when
\* the heap can always grow.
THEOREM CollectorInvariant ==
  ASSUME NoExplicitCollection, ~HeapMayFail
  PROVE  Spec => []CollectorInv
<1>1. Init => CollectorInv
  BY InitCollector
<1>2. RuntimeInv /\ CollectorInv /\ [Next]_vars => CollectorInv'
  BY CollectorStep DEF RuntimeInv
<1> QED
  BY <1>1, <1>2, RuntimeInvariant, PTL DEF Spec

\* gc_signal names the one collecting thread, when the heap can always grow.
THEOREM CollectorSafety ==
  ASSUME NoExplicitCollection, ~HeapMayFail
  PROVE  Spec => []OneCollector
<1>1. CollectorInv => OneCollector
  BY DEF CollectorInv
<1> QED
  BY <1>1, CollectorInvariant, PTL

\* A thread announces a collection only when none is announced, when the heap can
\* always grow.
THEOREM ClaimSafety ==
  ASSUME NoExplicitCollection, ~HeapMayFail
  PROVE  Spec => []ClaimIsCurrent
<1>1. CollectorInv => ClaimIsCurrent
  BY DEF CollectorInv
<1> QED
  BY <1>1, CollectorInvariant, PTL

-----------------------------------------------------------------------------
(***************************************************************************)
(* The main theorems about StopTheWorld: with all threads there from the   *)
(* start, which allocate and run loops but make no external call, every    *)
(* collection runs in a stopped world with all roots published, and the    *)
(* protocol implements Safepoint; for every number of threads.             *)
(***************************************************************************)

\* All threads are there from the start and use the allocators and loops only,
\* one wait takes all their events, and the heap can grow.
ClosedWorld ==
  /\ InitialThreads = SlotCount
  /\ SlotCount <= WaitLimit
  /\ ~HeapMayFail
  /\ \A t \in Threads : Program[t] \subseteq {"alloc", "perm", "loop"}

\* Thread u is stopped for the collection of c.
Halted(u, c) == pc[u] \in {"stopped", "parked"} /\ seen[u] = c

\* A thread in compiled code, or in an allocator before it collects
Free == {"run", "allocSpin", "permSpin", "alloc", "perm", "allocated", "collect"}

Stopping == {"waitSpin", "stop", "stopped", "parked"}

Collecting == {"claim", "scan", "listed", "await", "collecting", "signalEnd"}

EveryoneThere ==
  /\ counter = SlotCount
  /\ \A t \in Threads : /\ published[t] /\ ~flags[t] /\ event[t] # "closed"
                        /\ pc[t] \in Free \cup Stopping \cup Collecting
                        /\ cont[t] \in {"run", "allocSpin"}

\* The handle of a thread about to stop is that of the announced collection.
HandleIsCurrent ==
  \A u \in Threads :
    pc[u] \in {"waitSpin", "stop"} => seen[u] = gcSignal /\ gcSignal # NoThread

\* The list holds the slots passed, and their events are reset.
ScanInv ==
  \A c \in Threads : pc[c] = "scan" =>
    /\ cursor[c] + left[c] = SlotCount
    /\ waitList[c] = {u \in Threads : u < cursor[c] /\ u # c}
    /\ \A u \in Threads : u < cursor[c] => event[u] = "clear"

ListedInv ==
  \A c \in Threads : pc[c] = "listed" =>
    /\ waitList[c] = Threads \ {c}
    /\ \A u \in Threads : event[u] = "clear"

\* An event that is set while the collector waits is that of a stopped thread.
AwaitInv ==
  \A c \in Threads : pc[c] = "await" =>
    /\ waitList[c] = Threads \ {c}
    /\ event[c] = "clear"
    /\ \A u \in Threads \ {c} : event[u] = "set" => Halted(u, c)

CollectInv ==
  \A c \in Threads : pc[c] = "collecting" =>
    /\ event[c] = "clear"
    /\ \A u \in Threads \ {c} : Halted(u, c)

\* Until the end of the collection is signalled everyone is still stopped, so
\* the signal cannot be mistaken for that of a stopping thread.
EndInv ==
  \A c \in Threads : pc[c] = "signalEnd" =>
    /\ gcSignal = NoThread
    /\ seen[c] = c
    /\ event[c] = "clear"
    /\ \A u \in Threads \ {c} : Halted(u, c)

FrameInv ==
  \A t \in Threads :
    pc[t] \in {"claim", "scan", "listed", "await", "collecting", "stopped", "parked"}
      => rooted[t]

ClosedInv == /\ EveryoneThere /\ HandleIsCurrent /\ ScanInv /\ ListedInv
             /\ AwaitInv /\ CollectInv /\ EndInv /\ FrameInv

-----------------------------------------------------------------------------
(* The initial state, and the steps there are *)

LEMMA InitClosed ==
  ASSUME ClosedWorld, Init
  PROVE  ClosedInv
<1>1. \A t \in Threads : t < InitialThreads
  BY DEF ClosedWorld, Threads
<1>2. /\ counter = SlotCount
      /\ \A t \in Threads : /\ pc[t] = "run" /\ published[t] /\ ~flags[t]
                            /\ event[t] = "clear" /\ cont[t] = "run"
  BY <1>1 DEF Init, ClosedWorld
<1> QED
  BY <1>2 DEF ClosedInv, EveryoneThere, HandleIsCurrent, ScanInv, ListedInv, AwaitInv,
              CollectInv, EndInv, FrameInv, Free

\* A thread that allocates, up to the collection.
Allocating(t) == \/ AllocLock(t) \/ PermLock(t) \/ AllocUnlock(t) \/ AllocFits(t)
                 \/ PermFits(t) \/ AllocFull(t) \/ PermFull(t) \/ CallAlloc(t)
                 \/ CallAllocPerm(t)

ClosedStep(t) == \/ Allocating(t) \/ WaitLock(t) \/ StopUnlock(t) \/ ListUnlock(t)
                 \/ Stop(t) \/ Resume(t) \/ EnterCollect(t) \/ Claim(t) \/ ScanSlot(t)
                 \/ Await(t) \/ EndCollect(t) \/ SignalEnd(t) \/ LoopSafePoint(t)

LEMMA ClosedSteps ==
  ASSUME ClosedWorld, TypeOK, ScanInTable, EveryoneThere, NEW t \in Threads, Step(t)
  PROVE  ClosedStep(t)
<1> USE DEF ClosedStep, Allocating, EveryoneThere, Free, Stopping, Collecting
<1>1. CASE Spinning(t)
  BY <1>1 DEF Spinning, CollectLock, CreateLock, RegisterLock, ExitLock, LockTo
<1>2. CASE Unlocking(t)
  BY <1>2 DEF Unlocking, CreateUnlock, RegisterUnlock, ExitUnlock, UnlockTo
<1>3. CASE Runtime(t)
  <2>1. ~ScanEmpty(t)
    BY DEF ScanEmpty, ScanInTable, TypeOK, Threads
  <2>2. ~HeapExhausted(t)
    BY DEF HeapExhausted, ClosedWorld
  <2> QED
    BY <1>3, <2>1, <2>2 DEF Runtime, ExcludeFrame, ExternalReturn, IncludeSafePoint,
       SafePoint, Include, AllocateThread, Register, Uninit
<1>4. CASE Managed(t)
  BY <1>4 DEF Managed, CallCollect, Call, ExcludeFlag, CallCreate, StartThread,
     ExitSafePoint, ClosedWorld
<1> QED
  BY <1>1, <1>2, <1>3, <1>4 DEF Step

-----------------------------------------------------------------------------
(* Every step keeps the invariant *)

\* A step of a thread that is not involved in a collection.
LEMMA FreeStep ==
  ASSUME TypeOK, ClosedInv, NEW t \in Threads, NEW l \in Free, pc[t] \in Free, Goto(t, l),
         UNCHANGED <<gcSignal, counter, published, event, flags, seen, cont, waitList,
                     cursor, left>>,
         \A u \in Threads \ {t} : rooted'[u] = rooted[u]
  PROVE  ClosedInv'
<1>1. \A u \in Threads : pc'[u] = IF u = t THEN l ELSE pc[u]
  BY DEF Goto, TypeOK
<1>2. EveryoneThere'
  BY <1>1 DEF ClosedInv, EveryoneThere
<1>3. HandleIsCurrent'
  BY <1>1 DEF ClosedInv, HandleIsCurrent, Free
<1>4. ScanInv' /\ ListedInv'
  BY <1>1 DEF ClosedInv, ScanInv, ListedInv, Free
<1>5. AwaitInv' /\ CollectInv' /\ EndInv'
  BY <1>1 DEF ClosedInv, AwaitInv, CollectInv, EndInv, Free, Halted
<1>6. FrameInv'
  BY <1>1 DEF ClosedInv, FrameInv, Free
<1> QED
  BY <1>2, <1>3, <1>4, <1>5, <1>6 DEF ClosedInv

LEMMA AllocatingStep ==
  ASSUME TypeOK, ClosedInv, NEW t \in Threads, Allocating(t)
  PROVE  ClosedInv'
<1> USE DEF gcVars, tableVars, entryVars, callVars, scanVars, Free
<1>1. CASE AllocLock(t) \/ PermLock(t)
  BY <1>1, FreeStep DEF AllocLock, PermLock, LockTo, Goto
<1>2. CASE AllocUnlock(t)
  <2>1. \A u \in Threads \ {t} : rooted'[u] = rooted[u]
    BY <1>2 DEF AllocUnlock, UnlockTo, TypeOK
  <2> QED BY <1>2, <2>1, FreeStep DEF AllocUnlock, UnlockTo, Goto
<1>3. CASE AllocFits(t) \/ PermFits(t) \/ AllocFull(t) \/ PermFull(t)
  BY <1>3, FreeStep DEF AllocFits, PermFits, AllocFull, PermFull, Fits, Full, Goto
<1>4. CASE CallAlloc(t) \/ CallAllocPerm(t)
  BY <1>4, FreeStep DEF CallAlloc, CallAllocPerm, Call, Goto
<1> QED
  BY <1>1, <1>2, <1>3, <1>4 DEF Allocating

\* A thread stops for a collection and goes on after it.
LEMMA StoppingStep ==
  ASSUME TypeOK, LockDiscipline, CollectorInv, ClosedInv, NEW t \in Threads,
         WaitLock(t) \/ Stop(t) \/ StopUnlock(t) \/ Resume(t) \/ LoopSafePoint(t)
  PROVE  ClosedInv'
<1> USE DEF gcVars, tableVars, entryVars, callVars, scanVars
<1>a. \A l, u : Goto(t, l) /\ u \in Threads => pc'[u] = IF u = t THEN l ELSE pc[u]
  BY DEF Goto, TypeOK
<1>1. CASE WaitLock(t)
  <2>1. \A u \in Threads : pc'[u] = IF u = t THEN "stop" ELSE pc[u]
    BY <1>1, <1>a DEF WaitLock, LockTo
  <2>2. EveryoneThere' /\ HandleIsCurrent' /\ FrameInv'
    BY <1>1, <2>1 DEF WaitLock, LockTo, ClosedInv, EveryoneThere, HandleIsCurrent,
       FrameInv, Stopping
  <2>3. ScanInv' /\ ListedInv' /\ AwaitInv' /\ CollectInv' /\ EndInv'
    BY <1>1, <2>1 DEF WaitLock, LockTo, ClosedInv, ScanInv, ListedInv, AwaitInv,
       CollectInv, EndInv, Halted
  <2> QED BY <2>2, <2>3 DEF ClosedInv
<1>2. CASE Stop(t)
  <2>1. \A u \in Threads : pc'[u] = IF u = t THEN "stopped" ELSE pc[u]
    BY <1>2, <1>a DEF Stop
  <2>2. \A u \in Threads : /\ event'[u] = IF u = t THEN "set" ELSE event[u]
                           /\ rooted'[u] = IF u = t THEN TRUE ELSE rooted[u]
    BY <1>2 DEF Stop, Signal, PublishFrame, TypeOK, ClosedInv, EveryoneThere
  <2>3. EveryoneThere' /\ HandleIsCurrent' /\ FrameInv'
    BY <1>2, <2>1, <2>2 DEF Stop, ClosedInv, EveryoneThere, HandleIsCurrent, FrameInv,
       Stopping
  <2>4. ScanInv' /\ ListedInv'
    BY <1>2, <2>1, <2>2 DEF Stop, ClosedInv, ScanInv, ListedInv, LockDiscipline, Holding
  <2>5. AwaitInv'
    <3>1. UNCHANGED <<seen, waitList>>
      BY <1>2 DEF Stop
    <3>2. ASSUME NEW c \in Threads, pc'[c] = "await"
          PROVE  c # t /\ pc[c] = "await" /\ seen[t] = c
      <4>1. c # t /\ pc[c] = "await"
        BY <2>1, <3>2
      <4>2. gcSignal = c
        BY <4>1 DEF CollectorInv, OneCollector, Announced
      <4>3. seen[t] = gcSignal
        BY <1>2 DEF Stop, ClosedInv, HandleIsCurrent
      <4> QED BY <4>1, <4>2, <4>3
    <3>3. ASSUME NEW c \in Threads, pc'[c] = "await", NEW u \in Threads \ {c},
                 event'[u] = "set"
          PROVE  pc'[u] \in {"stopped", "parked"} /\ seen'[u] = c
      <4>1. CASE u = t
        BY <2>1, <3>1, <3>2, <3>3, <4>1
      <4>2. CASE u # t
        <5>1. event[u] = "set" /\ pc[c] = "await"
          BY <2>2, <3>2, <3>3, <4>2
        <5>2. Halted(u, c)
          BY <3>3, <5>1 DEF ClosedInv, AwaitInv
        <5> QED BY <2>1, <3>1, <4>2, <5>2 DEF Halted
      <4> QED BY <4>1, <4>2
    <3>4. ASSUME NEW c \in Threads, pc'[c] = "await"
          PROVE  waitList'[c] = Threads \ {c} /\ event'[c] = "clear"
      BY <2>2, <3>1, <3>2, <3>4 DEF ClosedInv, AwaitInv
    <3> QED BY <3>3, <3>4 DEF AwaitInv, Halted
  <2>6. CollectInv' /\ EndInv'
    BY <1>2, <2>1, <2>2 DEF Stop, ClosedInv, CollectInv, EndInv, Halted
  <2> QED BY <2>3, <2>4, <2>5, <2>6 DEF ClosedInv
<1>3. CASE StopUnlock(t)
  <2>1. \A u \in Threads : pc'[u] = IF u = t THEN "parked" ELSE pc[u]
    BY <1>3, <1>a DEF StopUnlock, UnlockTo
  <2>2. EveryoneThere' /\ HandleIsCurrent' /\ FrameInv'
    BY <1>3, <2>1 DEF StopUnlock, UnlockTo, ClosedInv, EveryoneThere, HandleIsCurrent,
       FrameInv, Stopping
  <2>3. ScanInv' /\ ListedInv' /\ AwaitInv' /\ CollectInv' /\ EndInv'
    BY <1>3, <2>1 DEF StopUnlock, UnlockTo, ClosedInv, ScanInv, ListedInv, AwaitInv,
       CollectInv, EndInv, Halted
  <2> QED BY <2>2, <2>3 DEF ClosedInv
<1>4. CASE Resume(t)
  <2>1. \A u \in Threads : pc'[u] = IF u = t THEN cont[t] ELSE pc[u]
    BY <1>4, <1>a DEF Resume
  <2>2. cont[t] \in {"run", "allocSpin"} /\ event[seen[t]] \in {"set", "closed"}
    BY <1>4 DEF Resume, Released, ClosedInv, EveryoneThere
  <2>3. \A u \in Threads \ {t} : rooted'[u] = rooted[u]
    BY <1>4 DEF Resume, TypeOK
  <2>4. EveryoneThere' /\ HandleIsCurrent' /\ FrameInv'
    BY <1>4, <2>1, <2>2, <2>3 DEF Resume, ClosedInv, EveryoneThere, HandleIsCurrent,
       FrameInv, Free
  <2>5. ScanInv' /\ ListedInv'
    BY <1>4, <2>1, <2>2 DEF Resume, ClosedInv, ScanInv, ListedInv
  <2>6. AwaitInv' /\ CollectInv' /\ EndInv'
    BY <1>4, <2>1, <2>2 DEF Resume, ClosedInv, AwaitInv, CollectInv, EndInv, Halted
  <2> QED BY <2>4, <2>5, <2>6 DEF ClosedInv
<1>5. CASE LoopSafePoint(t)
  <2>1. CASE gcSignal = NoThread
    BY <1>5, <2>1, FreeStep DEF LoopSafePoint, SafePoint, Goto, Free
  <2>2. CASE gcSignal # NoThread
    <3>1. \A u \in Threads : pc'[u] = IF u = t THEN "waitSpin" ELSE pc[u]
      BY <1>5, <1>a, <2>2 DEF LoopSafePoint, SafePoint
    <3>2. \A u \in Threads : /\ seen'[u] = IF u = t THEN gcSignal ELSE seen[u]
                             /\ cont'[u] = IF u = t THEN "run" ELSE cont[u]
      BY <1>5, <2>2 DEF LoopSafePoint, SafePoint, TypeOK
    <3>3. pc[t] = "run" /\ UNCHANGED <<gcVars, tableVars, entryVars, scanVars>>
      BY <1>5 DEF LoopSafePoint, SafePoint
    <3>4. EveryoneThere' /\ HandleIsCurrent' /\ FrameInv'
      BY <2>2, <3>1, <3>2, <3>3 DEF ClosedInv, EveryoneThere, HandleIsCurrent, FrameInv,
         Stopping
    <3>5. ScanInv' /\ ListedInv'
      BY <3>1, <3>2, <3>3 DEF ClosedInv, ScanInv, ListedInv
    <3>6. AwaitInv' /\ CollectInv' /\ EndInv'
      BY <3>1, <3>2, <3>3 DEF ClosedInv, AwaitInv, CollectInv, EndInv, Halted
    <3> QED BY <3>4, <3>5, <3>6 DEF ClosedInv
  <2> QED BY <2>1, <2>2
<1> QED
  BY <1>1, <1>2, <1>3, <1>4, <1>5

\* A thread becomes the collecting thread, or stops for another one.
LEMMA EnterStep ==
  ASSUME TypeOK, RetryTakesLock, LockDiscipline, CollectorInv, ClosedInv,
         NEW t \in Threads, EnterCollect(t)
  PROVE  ClosedInv'
<1> USE DEF gcVars, tableVars, entryVars, callVars, scanVars
<1>1. /\ pc[t] = "collect"
      /\ UNCHANGED <<gcVars, tableVars, event, flags, scanVars>>
      /\ \A u \in Threads : /\ seen'[u] = IF u = t THEN gcSignal ELSE seen[u]
                            /\ rooted'[u] = IF u = t THEN TRUE ELSE rooted[u]
  BY DEF EnterCollect, PublishFrame, TypeOK
<1>2. PICK l \in {"claim", "stop"} : /\ l = "stop" <=> gcSignal # NoThread
                                     /\ Goto(t, l)
  BY DEF EnterCollect
<1>3. \A u \in Threads : pc'[u] = IF u = t THEN l ELSE pc[u]
  BY <1>2 DEF Goto, TypeOK
<1>4. \A u \in Threads : cont'[u] \in {"run", "allocSpin"}
  BY DEF EnterCollect, RetryPoint, RetryTakesLock, TypeOK, ClosedInv, EveryoneThere
<1>5. EveryoneThere' /\ HandleIsCurrent' /\ FrameInv'
  BY <1>1, <1>2, <1>3, <1>4 DEF ClosedInv, EveryoneThere, HandleIsCurrent, FrameInv,
     Stopping, Collecting
<1>6. ScanInv' /\ ListedInv'
  BY <1>1, <1>3 DEF ClosedInv, ScanInv, ListedInv
<1>7. AwaitInv'
  <2>1. ASSUME NEW c \in Threads, pc'[c] = "await"
        PROVE  pc[c] = "await"
    BY <1>3, <2>1
  <2>2. ASSUME NEW c \in Threads, pc'[c] = "await", NEW u \in Threads \ {c},
               event'[u] = "set"
        PROVE  Halted(u, c)'
    <3>1. Halted(u, c)
      BY <1>1, <2>1, <2>2 DEF ClosedInv, AwaitInv
    <3> QED BY <1>1, <1>3, <3>1 DEF Halted
  <2>3. ASSUME NEW c \in Threads, pc'[c] = "await"
        PROVE  waitList'[c] = Threads \ {c} /\ event'[c] = "clear"
    BY <1>1, <2>1, <2>3 DEF ClosedInv, AwaitInv
  <2> QED BY <2>2, <2>3 DEF AwaitInv
<1>8. CollectInv'
  BY <1>1, <1>3 DEF ClosedInv, CollectInv, Halted
<1>9. \A c \in Threads : pc[c] # "signalEnd"
  BY <1>1 DEF ClosedInv, EndInv, Halted
<1>10. EndInv'
  BY <1>3, <1>9 DEF EndInv
<1> QED
  BY <1>5, <1>6, <1>7, <1>8, <1>10 DEF ClosedInv

LEMMA ClaimStep ==
  ASSUME TypeOK, LockDiscipline, CollectorInv, ClosedInv, NEW t \in Threads, Claim(t)
  PROVE  ClosedInv'
<1> USE DEF gcVars, tableVars, entryVars, callVars, scanVars
<1>1. /\ pc[t] = "claim" /\ gcSignal = NoThread
      /\ UNCHANGED <<tableVars, entryVars, callVars>>
      /\ \A u \in Threads : pc'[u] = IF u = t THEN "scan" ELSE pc[u]
  BY DEF Claim, Goto, TypeOK, CollectorInv, ClaimIsCurrent
<1>2. /\ \A u \in Threads \ {t} : /\ waitList'[u] = waitList[u]
                                  /\ cursor'[u] = cursor[u]
                                  /\ left'[u] = left[u]
      /\ waitList'[t] = {} /\ cursor'[t] = 0 /\ left'[t] = SlotCount
  BY DEF Claim, TypeOK, ClosedInv, EveryoneThere
<1>3. EveryoneThere' /\ HandleIsCurrent' /\ FrameInv'
  BY <1>1 DEF ClosedInv, EveryoneThere, HandleIsCurrent, FrameInv, Collecting
<1>4. \A u \in Threads : pc'[u] \notin {"listed", "await", "collecting", "signalEnd"}
  BY <1>1 DEF ClosedInv, EndInv, Halted, CollectorInv, OneCollector, Announced, Threads,
     NoThread
<1>5. ScanInv'
  <2>1. \A u \in Threads : pc'[u] = "scan" => u = t
    BY <1>1 DEF LockDiscipline, Holding
  <2>2. {u \in Threads : u < 0 /\ u # t} = {} /\ ~ \E u \in Threads : u < 0
    BY DEF Threads
  <2> QED BY <1>2, <2>1, <2>2 DEF ScanInv
<1>6. ListedInv' /\ AwaitInv' /\ CollectInv' /\ EndInv'
  BY <1>4 DEF ListedInv, AwaitInv, CollectInv, EndInv
<1> QED
  BY <1>3, <1>5, <1>6 DEF ClosedInv

\* No thread is at the end of a collection while another one is announced.
LEMMA AloneAtWork ==
  ASSUME CollectorInv, ClosedInv, NEW c \in Threads, pc[c] \in Announced,
         NEW u \in Threads, u # c
  PROVE  pc[u] \notin Announced \cup {"signalEnd"}
  BY DEF CollectorInv, OneCollector, ClosedInv, EndInv, Threads, NoThread

LEMMA ScanSlotStep ==
  ASSUME TypeOK, ScanInTable, LockDiscipline, CollectorInv, ClosedInv,
         NEW t \in Threads, ScanSlot(t)
  PROVE  ClosedInv'
<1> USE DEF gcVars, tableVars, entryVars, callVars, scanVars
<1>1. /\ pc[t] = "scan" /\ gcSignal = t
      /\ UNCHANGED <<gcVars, tableVars, flags, rooted, callVars>>
  BY DEF ScanSlot, Own, CollectorInv, OneCollector, Announced
<1>2. /\ cursor[t] \in Threads /\ left[t] >= 1 /\ left[t] \in Nat
      /\ cursor[t] + left[t] = SlotCount
      /\ waitList[t] = {u \in Threads : u < cursor[t] /\ u # t}
      /\ \A u \in Threads : u < cursor[t] => event[u] = "clear"
  BY <1>1 DEF ScanInTable, TypeOK, Threads, ClosedInv, ScanInv
<1>3. /\ \A u \in Threads : u # cursor[t] => event'[u] = event[u]
      /\ event'[cursor[t]] = "clear"
  BY <1>2 DEF ScanSlot, Own, Reset, TypeOK, ClosedInv, EveryoneThere
<1>4. /\ waitList'[t] = waitList[t] \cup ({cursor[t]} \ {t})
      /\ cursor'[t] = cursor[t] + 1
      /\ left'[t] = left[t] - 1
      /\ \A u \in Threads : pc'[u] = IF u # t THEN pc[u]
                                     ELSE IF left[t] = 1 THEN "listed" ELSE "scan"
  <2>1. ~flags[cursor[t]]
    BY <1>2 DEF ClosedInv, EveryoneThere
  <2>2. waitList'[t] = IF cursor[t] = t THEN waitList[t] ELSE waitList[t] \cup {cursor[t]}
    BY <1>1, <1>2, <2>1 DEF ScanSlot, Own, TypeOK
  <2>3. cursor'[t] = cursor[t] + 1 /\ left'[t] = left[t] - 1
    BY DEF ScanSlot, Own, NextIteration, TypeOK
  <2>4. \A u \in Threads : pc'[u] = IF u # t THEN pc[u]
                                    ELSE IF left[t] = 1 THEN "listed" ELSE "scan"
    BY DEF ScanSlot, Own, NextIteration, Goto, TypeOK
  <2> QED BY <2>2, <2>3, <2>4
<1>5. \A u \in Threads \ {t} : pc'[u] \notin Announced \cup {"signalEnd"}
  BY <1>1, <1>4, AloneAtWork DEF Announced
<1>6. EveryoneThere' /\ HandleIsCurrent' /\ FrameInv'
  BY <1>1, <1>3, <1>4 DEF ClosedInv, EveryoneThere, HandleIsCurrent, FrameInv, Collecting
<1>7. /\ waitList'[t] = {u \in Threads : u < cursor'[t] /\ u # t}
      /\ \A u \in Threads : u < cursor'[t] => event'[u] = "clear"
  <2>1. \A u \in Threads : u < cursor'[t] <=> u < cursor[t] \/ u = cursor[t]
    BY <1>2, <1>4 DEF Threads
  <2>2. \A u \in Threads : u < cursor'[t] => event'[u] = "clear"
    BY <1>2, <1>3, <2>1
  <2>3. \A u : u \in waitList'[t] <=> u \in Threads /\ u < cursor'[t] /\ u # t
    BY <1>2, <1>4, <2>1
  <2> QED BY <2>2, <2>3
<1>8. ScanInv'
  <2>1. cursor'[t] + left'[t] = SlotCount
    <3>1. cursor[t] \in Int /\ left[t] \in Int /\ cursor[t] + left[t] = SlotCount
      BY <1>2 DEF Threads
    <3> QED BY <1>4, <3>1
  <2>2. \A u \in Threads : pc'[u] = "scan" => u = t
    BY <1>5 DEF Announced
  <2> QED BY <1>7, <2>1, <2>2 DEF ScanInv
<1>9. ListedInv'
  <2>1. left[t] = 1 => \A u \in Threads : u < cursor'[t]
    BY <1>2, <1>4 DEF Threads
  <2> QED BY <1>4, <1>5, <1>7, <2>1 DEF ListedInv, Announced
<1>10. AwaitInv' /\ CollectInv' /\ EndInv'
  BY <1>4, <1>5 DEF AwaitInv, CollectInv, EndInv, Announced
<1> QED
  BY <1>6, <1>8, <1>9, <1>10 DEF ClosedInv

\* The wait for the others cannot fail: one call takes all their events.
LEMMA WaitSucceeds ==
  ASSUME ClosedWorld, EveryoneThere, NEW t \in Threads, waitList[t] = Threads \ {t}
  PROVE  ~WaitFails(t)
<1>1. IsFiniteSet(Threads) /\ Cardinality(Threads) = SlotCount
  <2>1. 0 \in Int /\ SlotCount - 1 \in Int
    OBVIOUS
  <2>2. IsFiniteSet(Threads)
        /\ Cardinality(Threads) = IF 0 > SlotCount - 1 THEN 0 ELSE SlotCount - 1 - 0 + 1
    BY <2>1, FS_Interval DEF Threads
  <2> QED BY <2>2
<1>2. Cardinality(Threads \ {t}) = SlotCount - 1
  BY <1>1, FS_RemoveElement
<1> QED
  BY <1>2 DEF WaitFails, ClosedWorld, EveryoneThere

\* The collecting thread waits, collects and ends the collection.
LEMMA CollectingStep ==
  ASSUME ClosedWorld, TypeOK, LockDiscipline, CollectorInv, ClosedInv, NEW t \in Threads,
         ListUnlock(t) \/ Await(t) \/ EndCollect(t) \/ SignalEnd(t)
  PROVE  ClosedInv'
<1> USE DEF gcVars, tableVars, entryVars, callVars, scanVars
<1>a. \A l, u : Goto(t, l) /\ u \in Threads => pc'[u] = IF u = t THEN l ELSE pc[u]
  BY DEF Goto, TypeOK
<1>b. pc[t] \in Announced =>
        \A u \in Threads \ {t} : pc[u] \notin Announced \cup {"signalEnd"}
  BY AloneAtWork
<1>1. CASE ListUnlock(t)
  <2>1. /\ pc[t] = "listed"
        /\ UNCHANGED <<gcSignal, tableVars, event, flags, callVars, scanVars>>
        /\ \A u \in Threads : rooted'[u] = rooted[u]
        /\ \A u \in Threads : pc'[u] = IF u = t THEN "await" ELSE pc[u]
    BY <1>1, <1>a DEF ListUnlock, UnlockTo
  <2>2. EveryoneThere' /\ HandleIsCurrent' /\ FrameInv'
    BY <2>1 DEF ClosedInv, EveryoneThere, HandleIsCurrent, FrameInv, Collecting
  <2>3. \A u \in Threads \ {t} : pc'[u] \notin Announced \cup {"signalEnd"}
    BY <1>b, <2>1 DEF Announced
  <2>4. waitList'[t] = Threads \ {t} /\ \A u \in Threads : event'[u] = "clear"
    BY <2>1 DEF ClosedInv, ListedInv
  <2>5. AwaitInv'
    BY <2>3, <2>4 DEF AwaitInv, Announced
  <2>6. ScanInv' /\ ListedInv' /\ CollectInv' /\ EndInv'
    BY <2>1, <2>3 DEF ScanInv, ListedInv, CollectInv, EndInv, Announced
  <2> QED BY <2>2, <2>5, <2>6 DEF ClosedInv
<1>2. CASE Await(t)
  <2>1. /\ pc[t] = "await"
        /\ UNCHANGED <<gcVars, tableVars, entryVars, callVars>>
        /\ \A u \in Threads : pc'[u] = IF u = t THEN "collecting" ELSE pc[u]
    BY <1>2, <1>a DEF Await
  <2>2. EveryoneThere' /\ HandleIsCurrent' /\ FrameInv'
    BY <2>1 DEF ClosedInv, EveryoneThere, HandleIsCurrent, FrameInv, Collecting
  <2>3. \A u \in Threads \ {t} : pc'[u] \notin Announced \cup {"signalEnd"}
    BY <1>b, <2>1 DEF Announced
  <2>4. \A u \in Threads \ {t} : event[u] = "set"
    BY <1>2, <2>1, WaitSucceeds DEF Await, AllSignalled, ClosedInv, AwaitInv
  <2>5. event[t] = "clear" /\ \A u \in Threads \ {t} : Halted(u, t)
    BY <2>1, <2>4 DEF ClosedInv, AwaitInv
  <2>6. CollectInv'
    BY <2>1, <2>3, <2>5 DEF CollectInv, Halted, Announced
  <2>7. ScanInv' /\ ListedInv' /\ AwaitInv' /\ EndInv'
    BY <2>1, <2>3 DEF ScanInv, ListedInv, AwaitInv, EndInv, Announced
  <2> QED BY <2>2, <2>6, <2>7 DEF ClosedInv
<1>3. CASE EndCollect(t)
  <2>1. /\ pc[t] = "collecting" /\ gcSignal = t /\ gcSignal' = NoThread
        /\ UNCHANGED <<tableVars, entryVars, cont, scanVars>>
        /\ \A u \in Threads : /\ pc'[u] = IF u = t THEN "signalEnd" ELSE pc[u]
                              /\ seen'[u] = IF u = t THEN t ELSE seen[u]
    BY <1>3, <1>a DEF EndCollect, ClearSignal, TypeOK, CollectorInv, OneCollector, Announced
  <2>2. event[t] = "clear" /\ \A u \in Threads \ {t} : Halted(u, t)
    BY <2>1 DEF ClosedInv, CollectInv
  <2>3. EveryoneThere' /\ FrameInv'
    BY <2>1 DEF ClosedInv, EveryoneThere, FrameInv, Collecting
  <2>4. \A u \in Threads \ {t} : pc'[u] \in {"stopped", "parked"} /\ seen'[u] = t
    BY <2>1, <2>2 DEF Halted
  <2>5. EndInv'
    BY <2>1, <2>2, <2>4 DEF EndInv, Halted
  <2>6. HandleIsCurrent' /\ ScanInv' /\ ListedInv' /\ AwaitInv' /\ CollectInv'
    BY <2>1, <2>4 DEF HandleIsCurrent, ScanInv, ListedInv, AwaitInv, CollectInv
  <2> QED BY <2>3, <2>5, <2>6 DEF ClosedInv
<1>4. CASE SignalEnd(t)
  <2>1. /\ pc[t] = "signalEnd"
        /\ UNCHANGED <<gcVars, tableVars, flags, callVars, scanVars>>
        /\ \A u \in Threads : pc'[u] = IF u = t THEN "run" ELSE pc[u]
        /\ \A u \in Threads \ {t} : rooted'[u] = rooted[u]
    BY <1>4, <1>a DEF SignalEnd, TypeOK
  <2>2. \A u \in Threads \ {t} : Halted(u, t)
    BY <2>1 DEF ClosedInv, EndInv
  <2>3. \A u \in Threads \ {t} : pc'[u] \in {"stopped", "parked"}
    BY <2>1, <2>2 DEF Halted
  <2>4. \A u \in Threads : event'[u] # "closed"
    BY <1>4 DEF SignalEnd, Signal, ClosedInv, EveryoneThere
  <2>5. EveryoneThere' /\ FrameInv'
    BY <2>1, <2>4 DEF ClosedInv, EveryoneThere, FrameInv, Free
  <2>6. /\ HandleIsCurrent' /\ ScanInv' /\ ListedInv' /\ AwaitInv' /\ CollectInv'
        /\ EndInv'
    BY <2>1, <2>3 DEF HandleIsCurrent, ScanInv, ListedInv, AwaitInv, CollectInv, EndInv
  <2> QED BY <2>5, <2>6 DEF ClosedInv
<1> QED
  BY <1>1, <1>2, <1>3, <1>4

LEMMA ClosedStepKeeps ==
  ASSUME ClosedWorld, RuntimeInv, CollectorInv, ClosedInv, [Next]_vars
  PROVE  ClosedInv'
<1> USE DEF RuntimeInv
<1>1. ASSUME NEW t \in Threads, Step(t) PROVE ClosedInv'
  <2>1. ClosedStep(t)
    BY <1>1, ClosedSteps DEF ClosedInv
  <2> QED
    BY <2>1, AllocatingStep, StoppingStep, EnterStep, ClaimStep, ScanSlotStep,
       CollectingStep DEF ClosedStep
<1>2. CASE UNCHANGED vars
  BY <1>2 DEF vars, gcVars, tableVars, entryVars, callVars, scanVars, ClosedInv,
     EveryoneThere, HandleIsCurrent, ScanInv, ListedInv, AwaitInv, CollectInv, EndInv,
     FrameInv, Halted
<1> QED
  BY <1>1, <1>2 DEF Next

-----------------------------------------------------------------------------
(* The theorems *)

AllInv == RuntimeInv /\ CollectorInv /\ ClosedInv

\* The inductive invariant of the closed world.
THEOREM ClosedInvariant ==
  ASSUME ClosedWorld
  PROVE  Spec => []AllInv
<1>1. NoExplicitCollection /\ ~HeapMayFail
  BY DEF ClosedWorld, NoExplicitCollection
<1>2. Init => CollectorInv /\ ClosedInv
  BY InitCollector, InitClosed
<1>3. RuntimeInv /\ CollectorInv /\ ClosedInv /\ [Next]_vars => CollectorInv' /\ ClosedInv'
  BY <1>1, CollectorStep, ClosedStepKeeps DEF RuntimeInv
<1>4. Spec => []RuntimeInv
  BY <1>1, RuntimeInvariant
<1> QED
  BY <1>2, <1>3, <1>4, PTL DEF Spec, AllInv

\* While a collection runs every other thread is stopped.
THEOREM StoppedWorld ==
  ASSUME ClosedWorld
  PROVE  Spec => []WorldStopped
<1>1. AllInv => WorldStopped
  BY DEF AllInv, ClosedInv, CollectInv, Halted, WorldStopped, Parked
<1> QED
  BY <1>1, ClosedInvariant, PTL

\* While a collection runs the published frames of all threads are complete.
THEOREM AllRootsPublished ==
  ASSUME ClosedWorld
  PROVE  Spec => []RootsPublished
<1>1. AllInv => RootsPublished
  BY DEF AllInv, ClosedInv, CollectInv, FrameInv, Halted, RootsPublished
<1> QED
  BY <1>1, ClosedInvariant, PTL

\* The list of threads to stop holds every thread that runs compiled code.
THEOREM CompleteList ==
  ASSUME ClosedWorld
  PROVE  Spec => []ListComplete
<1>1. AllInv => ListComplete
  BY DEF AllInv, ClosedInv, ListedInv, ListComplete
<1> QED
  BY <1>1, ClosedInvariant, PTL

-----------------------------------------------------------------------------
(* The protocol implements Safepoint *)

LEMMA PhaseIs ==
  /\ gcSignal = NoThread => phase = "running"
  /\ gcSignal # NoThread /\ pc[gcSignal] = "collecting" => phase = "stopped"
  /\ gcSignal # NoThread /\ pc[gcSignal] # "collecting" => phase = "stopping"
  BY DEF phase

Resting == Parked \cup Absent

\* A step that neither stops a thread nor lets one go on, and no collector.
LEMMA Stutter ==
  ASSUME TypeOK, NEW t \in Threads, NEW l, Goto(t, l), gcSignal' = gcSignal,
         pc[t] \in Resting <=> l \in Resting,
         pc[t] = "collecting" <=> l = "collecting"
  PROVE  UNCHANGED Abstract!vars
<1>1. \A u \in Threads : pc'[u] = IF u = t THEN l ELSE pc[u]
  BY DEF Goto, TypeOK
<1>2. working' = working
  BY <1>1 DEF working, Resting
<1>3. phase' = phase
  <2>1. gcSignal # NoThread => (pc'[gcSignal] = "collecting" <=> pc[gcSignal] = "collecting")
    BY <1>1 DEF TypeOK
  <2> QED BY <2>1, PhaseIs DEF phase
<1> QED
  BY <1>2, <1>3 DEF Abstract!vars

LEMMA RefinementStep ==
  ASSUME ClosedWorld, AllInv, AllInv', [Next]_vars
  PROVE  Abstract!Next \/ UNCHANGED Abstract!vars
<1> USE DEF gcVars, tableVars, entryVars, callVars, scanVars
<1>a. TypeOK /\ NoThread \notin Threads
  BY DEF AllInv, RuntimeInv, Threads, NoThread
<1>b. \A l, t, u : Goto(t, l) /\ u \in Threads => pc'[u] = IF u = t THEN l ELSE pc[u]
  BY <1>a DEF Goto, TypeOK
<1>c. gcSignal \in Threads => pc[gcSignal] \in Announced
  BY DEF AllInv, CollectorInv, OneCollector
<1>1. ASSUME NEW t \in Threads, Allocating(t) \/ WaitLock(t) \/ Stop(t) \/ StopUnlock(t)
             \/ ListUnlock(t) \/ ScanSlot(t) \/ SignalEnd(t)
      PROVE  UNCHANGED Abstract!vars
  <2>1. ASSUME NEW from, NEW to, LockTo(t, from, to) \/ UnlockTo(t, from, to),
               from \in Resting <=> to \in Resting, from # "collecting", to # "collecting"
        PROVE  UNCHANGED Abstract!vars
    BY <1>a, <2>1, Stutter DEF LockTo, UnlockTo
  <2>2. CASE Allocating(t)
    BY <1>a, <2>1, <2>2, Stutter
    DEF Allocating, AllocLock, PermLock, AllocUnlock, AllocFits, PermFits, Fits,
        AllocFull, PermFull, Full, CallAlloc, CallAllocPerm, Call, Resting, Parked, Absent
  <2>3. CASE WaitLock(t) \/ StopUnlock(t) \/ ListUnlock(t)
    BY <2>1, <2>3 DEF WaitLock, StopUnlock, ListUnlock, Resting, Parked, Absent
  <2>4. CASE Stop(t) \/ SignalEnd(t)
    BY <1>a, <2>4, Stutter DEF Stop, SignalEnd, Resting, Parked, Absent
  <2>5. CASE ScanSlot(t)
    BY <1>a, <2>5, Stutter DEF ScanSlot, Own, NextIteration, Resting, Parked, Absent
  <2> QED BY <1>1, <2>2, <2>3, <2>4, <2>5
\* A thread at work that sees a collection announced pauses.
<1>p. ASSUME NEW t \in Threads, NEW l \in {"waitSpin", "stop"}, Goto(t, l),
             pc[t] \in {"run", "collect"}, gcSignal' = gcSignal
      PROVE  Abstract!Next
  <2>1. \A u \in Threads : pc'[u] = IF u = t THEN l ELSE pc[u]
    BY <1>p, <1>b
  <2>2. t \in working \ {gcSignal} /\ working' = working \ {t}
    BY <1>c, <1>p, <2>1 DEF working, Parked, Absent, Announced
  <2>3. phase' = phase
    <3>1. gcSignal # NoThread => pc'[gcSignal] = pc[gcSignal]
      BY <1>a, <2>1, <2>2 DEF TypeOK
    <3> QED BY <1>p, <3>1 DEF phase
  <2> QED BY <1>p, <2>2, <2>3 DEF Abstract!Next, Abstract!Pause
<1>2. ASSUME NEW t \in Threads, EnterCollect(t) \/ LoopSafePoint(t)
      PROVE  Abstract!Next \/ UNCHANGED Abstract!vars
  <2>1. CASE gcSignal = NoThread
    <3>1. UNCHANGED Abstract!vars
      BY <1>a, <1>2, <2>1, Stutter DEF EnterCollect, LoopSafePoint, SafePoint, Resting,
         Parked, Absent
    <3> QED BY <3>1
  <2>2. CASE gcSignal # NoThread
    <3>1. Abstract!Next
      BY <1>2, <2>2, <1>p DEF EnterCollect, LoopSafePoint, SafePoint
    <3> QED BY <3>1
  <2> QED BY <2>1, <2>2
<1>3. ASSUME NEW t \in Threads, Resume(t) PROVE Abstract!Next
  <2>1. /\ pc[t] = "parked" /\ cont[t] \in {"run", "allocSpin"}
        /\ gcSignal' = gcSignal /\ event[seen[t]] # "clear"
        /\ \A u \in Threads : pc'[u] = IF u = t THEN cont[t] ELSE pc[u]
    BY <1>3, <1>b DEF Resume, Released, AllInv, ClosedInv, EveryoneThere
  <2>2. t \notin working /\ working' = working \cup {t}
    BY <2>1 DEF working, Parked, Absent
  <2>3. gcSignal # NoThread => pc[gcSignal] # "collecting" /\ pc'[gcSignal] # "collecting"
    BY <1>a, <1>c, <2>1 DEF TypeOK, AllInv, ClosedInv, CollectInv, Halted, Announced
  <2>4. phase # "stopped" /\ phase' = phase
    BY <2>1, <2>3 DEF phase
  <2> QED BY <2>1, <2>2, <2>4 DEF Abstract!Next, Abstract!Continue
<1>4. ASSUME NEW t \in Threads, Claim(t) PROVE Abstract!Next
  <2>1. /\ pc[t] = "claim" /\ gcSignal = NoThread /\ gcSignal' = t
        /\ \A u \in Threads : pc'[u] = IF u = t THEN "scan" ELSE pc[u]
    BY <1>4, <1>b DEF Claim, AllInv, CollectorInv, ClaimIsCurrent
  <2>2. t \in working /\ working' = working
    BY <2>1 DEF working, Parked, Absent
  <2>3. phase = "running" /\ phase' = "stopping"
    BY <1>a, <2>1 DEF phase
  <2> QED BY <2>1, <2>2, <2>3 DEF Abstract!Next, Abstract!Begin
<1>5. ASSUME NEW t \in Threads, Await(t) PROVE Abstract!Next
  <2>1. /\ pc[t] = "await" /\ gcSignal = t /\ gcSignal' = gcSignal
        /\ \A u \in Threads : pc'[u] = IF u = t THEN "collecting" ELSE pc[u]
    BY <1>5, <1>b DEF Await, AllInv, CollectorInv, OneCollector, Announced
  <2>2. \A u \in Threads \ {t} : pc'[u] \in Parked
    BY <2>1 DEF AllInv, ClosedInv, CollectInv, Halted, Parked
  <2>3. working = {gcSignal} /\ working' = working
    BY <2>1, <2>2 DEF working, Parked, Absent
  <2>4. phase = "stopping" /\ phase' = "stopped"
    BY <1>a, <2>1 DEF phase
  <2> QED BY <2>1, <2>3, <2>4 DEF Abstract!Next, Abstract!Freeze
<1>6. ASSUME NEW t \in Threads, EndCollect(t) PROVE Abstract!Next
  <2>1. /\ pc[t] = "collecting" /\ gcSignal = t /\ gcSignal' = NoThread
        /\ \A u \in Threads : pc'[u] = IF u = t THEN "signalEnd" ELSE pc[u]
    BY <1>6, <1>b DEF EndCollect, ClearSignal, AllInv, CollectorInv, OneCollector, Announced
  <2>2. working' = working
    BY <2>1 DEF working, Parked, Absent
  <2>3. phase = "stopped" /\ phase' = "running"
    BY <1>a, <2>1 DEF phase
  <2> QED BY <2>1, <2>2, <2>3 DEF Abstract!Next, Abstract!Finish
<1>7. CASE UNCHANGED vars
  BY <1>7 DEF vars, Abstract!vars, working, phase
<1>8. ASSUME NEW t \in Threads, Step(t) PROVE ClosedStep(t)
  BY <1>8, ClosedSteps DEF AllInv, RuntimeInv, ClosedInv
<1> QED
  BY <1>1, <1>2, <1>3, <1>4, <1>5, <1>6, <1>7, <1>8 DEF Next, ClosedStep

\* The protocol implements Safepoint: a collection is run by one thread, in a
\* stopped world, and nobody goes on before it has ended.
THEOREM SafepointRefinement ==
  ASSUME ClosedWorld
  PROVE  Spec => ImplementsSafepoint
<1>1. Init => Abstract!Init
  <2>1. Init => working \in SUBSET Threads /\ phase = "running" /\ gcSignal = NoThread
    BY DEF Init, working, phase
  <2> QED BY <2>1 DEF Abstract!Init
<1>2. AllInv /\ AllInv' /\ [Next]_vars => [Abstract!Next]_(Abstract!vars)
  BY RefinementStep
<1>3. Spec => []AllInv
  BY ClosedInvariant
<1> QED
  BY <1>1, <1>2, <1>3, PTL DEF Spec, ImplementsSafepoint, Abstract!Spec
=============================================================================
