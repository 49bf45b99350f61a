----------------------- MODULE WakelockRefCounter_proof -----------------------
(***************************************************************************)
(* Proofs about WakelockRefCounter, for any finite set of sub-HAL threads, *)
(* any batch sizes, any timeout and any bounds.                            *)
(***************************************************************************)
EXTENDS WakelockRefCounter, FiniteSetTheorems, TLAPS

\* initializeCommon holds mThreadsRun false from stopThreads to the restart.
StopInv ==
  /\ init = "idle" <=> threadsRun
  /\ ~stoppedOnce => threadsRun

\* What Next preserves: the three counting properties need each other only
\* through the types and StopInv.
IInv == TypeOK /\ StopInv /\ NeverUndercounted /\ NeverOvercounted

-----------------------------------------------------------------------------
(* The set Live and its size.                                              *)

LEMMA LiveSize ==
  ASSUME TypeOK
  PROVE  IsFiniteSet(Live) /\ Cardinality(Live) \in Nat
<1>1. Live \subseteq Owners
  BY DEF Live
<1> QED
  BY <1>1, FS_Subset, FS_CardinalityType, WakelockAssumption

\* Creating a ScopedWakelock adds one live reference.
LEMMA LiveAdd ==
  ASSUME TypeOK, NEW o \in Owners, scoped[o] = "none",
         scoped' = [scoped EXCEPT ![o] = "now"]
  PROVE  Cardinality(Live') = Cardinality(Live) + 1
<1>1. Live' = Live \cup {o} /\ o \notin Live
  BY DEF Live, TypeOK
<1> QED
  BY <1>1, LiveSize, FS_AddElement

\* Destroying one removes it, if it was live.
LEMMA LiveRemove ==
  ASSUME TypeOK, NEW o \in Owners, scoped' = [scoped EXCEPT ![o] = "none"]
  PROVE  Cardinality(Live') = IF o \in Live THEN Cardinality(Live) - 1
                                            ELSE Cardinality(Live)
<1>1. Live' = Live \ {o}
  BY DEF Live, TypeOK
<1> QED
  BY <1>1, LiveSize, FS_RemoveElement

\* A reset only makes ScopedWakelocks stale.
LEMMA LiveReset ==
  ASSUME TypeOK,
         scoped' = [o \in Owners |-> IF scoped[o] = "earlier" THEN "beforeReset"
                                     ELSE scoped[o]]
  PROVE  Cardinality(Live') <= Cardinality(Live) /\ Cardinality(Live') \in Nat
<1>1. Live' \subseteq Live
  BY DEF Live, TypeOK
<1> QED
  BY <1>1, LiveSize, FS_Subset, FS_CardinalityType

-----------------------------------------------------------------------------
(* Types.                                                                  *)

LEMMA TypeInit == Init => TypeOK
<1> SUFFICES ASSUME Init PROVE TypeOK
  OBVIOUS
<1>1. elapsed \in 0..(Timeout + 1) /\ refCount \in Nat /\ unacked \in Nat
  BY WakelockAssumption DEF Init
<1>2. threadsRun \in BOOLEAN /\ cutShort \in BOOLEAN /\ stoppedOnce \in BOOLEAN
  BY DEF Init
<1>3. scoped \in [Owners -> ScopedStates] /\ counted \in SUBSET Owners
  BY DEF Init, ScopedStates
<1> QED
  BY <1>1, <1>2, <1>3 DEF Init, TypeOK

LEMMA TypeNext == TypeOK /\ [Next]_vars => TypeOK'
<1> SUFFICES ASSUME TypeOK, [Next]_vars PROVE TypeOK'
  OBVIOUS
<1> USE WakelockAssumption DEF TypeOK, ScopedStates
<1>1. ASSUME NEW o \in Owners, SubHal(o) PROVE TypeOK'
  <2>1. CASE CreateScoped(o)
    BY <2>1 DEF CreateScoped, Increment
  <2>2. ASSUME NEW n \in WakeCounts, CountEvents(o, n) PROVE TypeOK'
    BY <2>2 DEF CountEvents, Increment
  <2>3. CASE DestroyScoped(o)
    BY <2>3 DEF DestroyScoped, Decrement, Least
  <2> QED
    BY <1>1, <2>1, <2>2, <2>3 DEF SubHal
<1>2. ASSUME NEW n \in 1..MaxUnacked, DropPending(n) PROVE TypeOK'
  BY <1>2 DEF DropPending, Decrement, Least
<1>3. CASE HandleWakelocks
  <2>1. CASE TimeOut
    BY <2>1 DEF TimeOut, ResetSharedWakelock, Decrement, Least
  <2>5. CASE BeginRead
    BY <2>5 DEF BeginRead
  <2>2. ASSUME NEW n \in 1..MaxUnacked, AckRead(n) PROVE TypeOK'
    BY <2>2 DEF AckRead, Decrement, Least
  <2>3. CASE ReadTimesOut
    BY <2>3 DEF ReadTimesOut
  <2>4. CASE ThreadExit
    BY <2>4 DEF ThreadExit, ResetSharedWakelock, Decrement, Least
  <2> QED
    BY <1>3, <2>1, <2>2, <2>3, <2>4, <2>5 DEF HandleWakelocks
<1>4. CASE Initialize
  <2>1. CASE StopThreads
    BY <2>1 DEF StopThreads, wlVars
  <2>2. CASE InitReset
    BY <2>2 DEF InitReset, ResetSharedWakelock, Decrement, Least
  <2>3. CASE StartThreads
    BY <2>3 DEF StartThreads
  <2> QED
    BY <1>4, <2>1, <2>2, <2>3 DEF Initialize
<1>5. CASE Tick
  BY <1>5 DEF Tick, Least
<1>6. CASE UNCHANGED vars
  BY <1>6 DEF vars, wlVars
<1> QED
  BY <1>1, <1>2, <1>3, <1>4, <1>5, <1>6 DEF Next

\* The variables keep their types: in particular mWakelockRefCount, a size_t
\* in the code, never goes below zero.
THEOREM TypeCorrect == Spec => []TypeOK
BY TypeInit, TypeNext, PTL DEF Spec, Safe

-----------------------------------------------------------------------------
(* The kernel lock follows the count.                                      *)

LEMMA HeldNext ==
  ASSUME 0 \notin WakeCounts, TypeOK, HeldIffCounted, [Next]_vars
  PROVE  HeldIffCounted'
<1> USE WakelockAssumption DEF TypeOK, HeldIffCounted
<1>1. ASSUME NEW o \in Owners, SubHal(o) PROVE HeldIffCounted'
  <2>1. CASE CreateScoped(o)
    BY <2>1 DEF CreateScoped, Increment
  <2>2. ASSUME NEW n \in WakeCounts, CountEvents(o, n) PROVE HeldIffCounted'
    BY <2>2 DEF CountEvents, Increment
  <2>3. CASE DestroyScoped(o)
    BY <2>3 DEF DestroyScoped, Decrement, Least
  <2> QED
    BY <1>1, <2>1, <2>2, <2>3 DEF SubHal
<1>2. ASSUME NEW n \in 1..MaxUnacked, DropPending(n) PROVE HeldIffCounted'
  BY <1>2 DEF DropPending, Decrement, Least
<1>3. CASE HandleWakelocks
  <2>1. CASE TimeOut
    BY <2>1 DEF TimeOut, ResetSharedWakelock, Decrement, Least
  <2>5. CASE BeginRead
    BY <2>5 DEF BeginRead
  <2>2. ASSUME NEW n \in 1..MaxUnacked, AckRead(n) PROVE HeldIffCounted'
    BY <2>2 DEF AckRead, Decrement, Least
  <2>3. CASE ReadTimesOut
    BY <2>3 DEF ReadTimesOut
  <2>4. CASE ThreadExit
    BY <2>4 DEF ThreadExit, ResetSharedWakelock, Decrement, Least
  <2> QED
    BY <1>3, <2>1, <2>2, <2>3, <2>4, <2>5 DEF HandleWakelocks
<1>4. CASE Initialize
  <2>1. CASE StopThreads
    BY <2>1 DEF StopThreads, wlVars
  <2>2. CASE InitReset
    BY <2>2 DEF InitReset, ResetSharedWakelock, Decrement, Least
  <2>3. CASE StartThreads
    BY <2>3 DEF StartThreads
  <2> QED
    BY <1>4, <2>1, <2>2, <2>3 DEF Initialize
<1>5. CASE Tick
  BY <1>5 DEF Tick
<1>6. CASE UNCHANGED vars
  BY <1>6 DEF vars, wlVars
<1> QED
  BY <1>1, <1>2, <1>3, <1>4, <1>5, <1>6 DEF Next

\* The kernel wake lock is held exactly while the count is positive, provided
\* that a batch posted with a locked ScopedWakelock has a wake-up event (the
\* contract HalProxyCallback.cpp:45-55 asserts).
THEOREM HeldExactlyWhileCounted ==
  0 \notin WakeCounts => (Spec => []HeldIffCounted)
<1> SUFFICES ASSUME 0 \notin WakeCounts PROVE Spec => []HeldIffCounted
  OBVIOUS
<1>1. Init => HeldIffCounted
  BY DEF Init, HeldIffCounted
<1>2. TypeOK /\ HeldIffCounted /\ [Next]_vars => HeldIffCounted'
  BY HeldNext
<1> QED
  BY <1>1, <1>2, TypeCorrect, PTL DEF Spec, Safe

-----------------------------------------------------------------------------
(* References and what they stand for.                                     *)

LEMMA StopNext ==
  ASSUME TypeOK, StopInv, [Next]_vars
  PROVE  StopInv'
<1> USE DEF StopInv
<1>1. ASSUME NEW o \in Owners, SubHal(o) PROVE StopInv'
  BY <1>1 DEF SubHal, CreateScoped, CountEvents, DestroyScoped
<1>2. ASSUME NEW n \in 1..MaxUnacked, DropPending(n) PROVE StopInv'
  BY <1>2 DEF DropPending
<1>3. CASE HandleWakelocks
  BY <1>3 DEF HandleWakelocks, TimeOut, BeginRead, AckRead, ReadTimesOut, ThreadExit
<1>4. CASE Initialize
  BY <1>4 DEF Initialize, StopThreads, InitReset, StartThreads, TypeOK
<1>5. CASE Tick
  BY <1>5 DEF Tick
<1>6. CASE UNCHANGED vars
  BY <1>6 DEF vars
<1> QED
  BY <1>1, <1>2, <1>3, <1>4, <1>5, <1>6 DEF Next

\* Fewer live ScopedWakelocks leave the count as sufficient as it was.
LEMMA StillCovered ==
  ASSUME NEW c \in Nat, NEW d \in Nat, NEW u \in Nat, NEW r \in Nat,
         d <= c, r >= c + u
  PROVE  r >= d + u
OBVIOUS

LEMMA SumIsNat ==
  ASSUME NEW a \in Nat, NEW b \in Nat
  PROVE  0 <= a + b
OBVIOUS

\* One case per action: how it moves the count, the owed events and the size
\* of Live.
LEMMA CountNext ==
  ASSUME IInv, [Next]_vars
  PROVE  NeverUndercounted' /\ NeverOvercounted'
<1> DEFINE C == Cardinality(Live)
<1>a. TypeOK /\ StopInv /\ NeverUndercounted /\ NeverOvercounted
  BY DEF IInv
<1>b. C \in Nat /\ IsFiniteSet(Live)
  BY <1>a, LiveSize
<1>c. ~cutShort => refCount >= C + unacked
  BY <1>a DEF NeverUndercounted
<1>d. ~stoppedOnce => refCount <= C + unacked
  BY <1>a DEF NeverOvercounted
<1>e. refCount \in Nat /\ unacked \in Nat /\ (~stoppedOnce => threadsRun)
      /\ (init = "idle" <=> threadsRun)
  BY <1>a DEF TypeOK, StopInv
<1> SUFFICES /\ ~cutShort' => refCount' >= C' + unacked'
             /\ ~stoppedOnce' => refCount' <= C' + unacked'
  BY DEF NeverUndercounted, NeverOvercounted
<1> HIDE DEF C
<1>same. ASSUME Live' = Live PROVE C' = C
  BY <1>same DEF C
<1>1. ASSUME NEW o \in Owners, SubHal(o)
      PROVE  /\ ~cutShort' => refCount' >= C' + unacked'
             /\ ~stoppedOnce' => refCount' <= C' + unacked'
  <2>1. CASE CreateScoped(o)
    <3>1. C' = C + 1
      BY <1>a, <2>1, LiveAdd DEF CreateScoped, C
    <3> QED
      BY <2>1, <3>1, <1>b, <1>c, <1>d, <1>e DEF CreateScoped, Increment
  <2>2. ASSUME NEW n \in WakeCounts, CountEvents(o, n)
        PROVE  /\ ~cutShort' => refCount' >= C' + unacked'
               /\ ~stoppedOnce' => refCount' <= C' + unacked'
    <3>1. C' = C
      BY <2>2, <1>same DEF CountEvents, Live
    <3>2. n \in Nat
      BY WakelockAssumption
    <3> QED
      BY <2>2, <3>1, <3>2, <1>b, <1>c, <1>d, <1>e DEF CountEvents, Increment
  <2>3. CASE DestroyScoped(o)
    <3>1. C' = IF o \in Live THEN C - 1 ELSE C
      BY <1>a, <2>3, LiveRemove DEF DestroyScoped, C
    <3>2. CASE scoped[o] = "beforeReset"
      <4>1. o \notin Live
        BY <3>2 DEF Live
      <4> QED
        BY <2>3, <3>1, <3>2, <4>1, <1>b, <1>c, <1>d, <1>e DEF DestroyScoped
    <3>3. CASE scoped[o] # "beforeReset"
      <4>1. o \in Live /\ C >= 1
        <5>1. o \in Live
          BY <2>3, <3>3, <1>a DEF Live, DestroyScoped, TypeOK, ScopedStates
        <5> QED
          BY <5>1, <1>b, FS_EmptySet DEF C
      <4>2. C' = C - 1 /\ unacked' = unacked /\ cutShort' = cutShort
            /\ stoppedOnce' = stoppedOnce /\ Decrement(1)
        BY <2>3, <3>1, <3>3, <4>1 DEF DestroyScoped
      <4> QED
        BY <4>1, <4>2, <1>b, <1>c, <1>d, <1>e DEF Decrement, Least
    <3> QED
      BY <3>2, <3>3
  <2> QED
    BY <1>1, <2>1, <2>2, <2>3 DEF SubHal
<1>2. ASSUME NEW n \in 1..MaxUnacked, DropPending(n)
      PROVE  /\ ~cutShort' => refCount' >= C' + unacked'
             /\ ~stoppedOnce' => refCount' <= C' + unacked'
  <2>1. C' = C
    BY <1>2, <1>same DEF DropPending, Live
  <2> QED
    BY <1>2, <2>1, <1>b, <1>c, <1>d, <1>e, WakelockAssumption
    DEF DropPending, Decrement, Least
<1>3. CASE HandleWakelocks
  <2>1. CASE TimeOut
    <3>1. C' <= C /\ C' \in Nat
      BY <1>a, <2>1, LiveReset DEF TimeOut, ResetSharedWakelock, C
    <3>2. Decrement(refCount) /\ threadsRun
      BY <2>1 DEF TimeOut, ResetSharedWakelock
    <3>3. refCount' = 0
      BY <3>2, <1>e DEF Decrement, Least
    <3>4. cutShort' /\ unacked' = unacked
      BY <2>1 DEF TimeOut
    <3>5. 0 <= C' + unacked
      <4>1. C' \in Nat /\ unacked \in Nat
        BY <3>1, <1>e
      <4> QED
        BY <4>1, SumIsNat
    <3>6. refCount' <= C' + unacked'
      BY <3>3, <3>4, <3>5
    <3> QED
      BY <3>4, <3>6
  <2>2. CASE BeginRead
    <3>1. C' = C
      BY <2>2, <1>same DEF BeginRead, Live
    <3> QED
      BY <2>2, <3>1, <1>c, <1>d DEF BeginRead
  <2>3. ASSUME NEW n \in 1..MaxUnacked, AckRead(n)
        PROVE  /\ ~cutShort' => refCount' >= C' + unacked'
               /\ ~stoppedOnce' => refCount' <= C' + unacked'
    <3>1. C' = C
      BY <2>3, <1>same DEF AckRead, Live
    <3> QED
      BY <2>3, <3>1, <1>b, <1>c, <1>d, <1>e, WakelockAssumption
      DEF AckRead, Decrement, Least
  <2>4. CASE ReadTimesOut
    <3>1. C' = C
      BY <2>4, <1>same DEF ReadTimesOut, Live
    <3> QED
      BY <2>4, <3>1, <1>c, <1>d DEF ReadTimesOut
  <2>5. CASE ThreadExit
    <3>1. C' <= C /\ C' \in Nat
      BY <1>a, <2>5, LiveReset DEF ThreadExit, ResetSharedWakelock, C
    <3>2. ~threadsRun /\ Decrement(refCount) /\ unacked' = unacked
          /\ cutShort' = cutShort /\ stoppedOnce' = stoppedOnce
      BY <2>5 DEF ThreadExit, ResetSharedWakelock
    <3>3. refCount' = refCount
      BY <3>2 DEF Decrement
    <3>4. stoppedOnce'
      BY <3>2, <1>e
    <3>5. ~cutShort' => refCount' >= C' + unacked'
      <4> SUFFICES ASSUME ~cutShort PROVE refCount' >= C' + unacked'
        BY <3>2
      <4>1. refCount >= C' + unacked
        BY <3>1, <1>b, <1>c, <1>e, StillCovered
      <4> QED
        BY <3>2, <3>3, <4>1
    <3> QED
      BY <3>4, <3>5
  <2> QED
    BY <1>3, <2>1, <2>2, <2>3, <2>4, <2>5 DEF HandleWakelocks
<1>4. CASE Initialize
  <2>1. CASE StopThreads
    <3>1. C' = C
      BY <2>1, <1>same DEF StopThreads, wlVars, Live
    <3> QED
      BY <2>1, <3>1, <1>c DEF StopThreads, wlVars
  <2>2. CASE InitReset
    <3>1. C' <= C /\ C' \in Nat
      BY <1>a, <2>2, LiveReset DEF InitReset, ResetSharedWakelock, C
    <3>2. ~threadsRun
      BY <2>2, <1>e DEF InitReset
    <3>3. Decrement(refCount) /\ unacked' = unacked
          /\ cutShort' = cutShort /\ stoppedOnce' = stoppedOnce
      BY <2>2 DEF InitReset, ResetSharedWakelock
    <3>4. refCount' = refCount
      BY <3>2, <3>3 DEF Decrement
    <3>5. stoppedOnce'
      BY <3>2, <3>3, <1>e
    <3>6. ~cutShort' => refCount' >= C' + unacked'
      <4> SUFFICES ASSUME ~cutShort PROVE refCount' >= C' + unacked'
        BY <3>3
      <4>1. refCount >= C' + unacked
        BY <3>1, <1>b, <1>c, <1>e, StillCovered
      <4> QED
        BY <3>3, <3>4, <4>1
    <3> QED
      BY <3>5, <3>6
  <2>3. CASE StartThreads
    <3>1. C' = C
      BY <2>3, <1>same DEF StartThreads, Live
    <3>2. ~threadsRun
      BY <2>3, <1>e DEF StartThreads
    <3> QED
      BY <2>3, <3>1, <3>2, <1>b, <1>c, <1>e DEF StartThreads
  <2> QED
    BY <1>4, <2>1, <2>2, <2>3 DEF Initialize
<1>5. CASE Tick
  <2>1. Live' = Live
    BY <1>5, <1>a DEF Tick, Live, TypeOK, ScopedStates
  <2> QED
    BY <1>5, <2>1, <1>same, <1>c, <1>d DEF Tick
<1>6. CASE UNCHANGED vars
  <2>1. C' = C
    BY <1>6, <1>same DEF vars, wlVars, Live
  <2> QED
    BY <1>6, <2>1, <1>c, <1>d DEF vars, wlVars
<1> QED
  BY <1>1, <1>2, <1>3, <1>4, <1>5, <1>6 DEF Next

LEMMA IInvInit == Init => IInv
<1> SUFFICES ASSUME Init PROVE IInv
  OBVIOUS
<1>1. Live = {} /\ TypeOK
  BY TypeInit DEF Init, Live
<1>2. Cardinality(Live) = 0
  BY <1>1, FS_EmptySet
<1> QED
  BY <1>1, <1>2 DEF Init, IInv, StopInv, NeverUndercounted, NeverOvercounted

LEMMA IInvNext == IInv /\ [Next]_vars => IInv'
<1> SUFFICES ASSUME IInv, [Next]_vars PROVE IInv'
  OBVIOUS
<1>1. TypeOK /\ StopInv
  BY DEF IInv
<1> QED
  BY <1>1, TypeNext, StopNext, CountNext DEF IInv

\* IInv is inductive.
LEMMA Inductive == Spec => []IInv
BY IInvInit, IInvNext, PTL DEF Spec, Safe

\* Until a timeout strikes, no reference is given back twice: the count covers
\* every live ScopedWakelock and every event the framework has yet to answer.
THEOREM CountCovers == Spec => []NeverUndercounted
BY Inductive, PTL DEF IInv

\* Until the proxy is stopped, no reference outlives what it stands for.
THEOREM NoStrayCount == Spec => []NeverOvercounted
BY Inductive, PTL DEF IInv
=============================================================================
