------------------------ MODULE StandaloneHal_proof ------------------------
(***************************************************************************)
(* Proofs about StandaloneHal for any sensors, capacities and timeouts.    *)
(* What concerns initialize is proved for the order of the HIDL HAL; the   *)
(* AIDL HAL does not have these properties.                                *)
(***************************************************************************)
EXTENDS StandaloneHal, TLAPS

-----------------------------------------------------------------------------
(* Arithmetic of updateWakeLock.                                           *)

LEMMA FiveSteps == Len(Steps) = 5
BY DEF Steps

LEMMA CountedIs ==
  ASSUME outstanding \in Nat, NEW written \in Nat, NEW done \in Nat
  PROVE  /\ Counted(written, done) \in Nat
         /\ outstanding + written <= Counted(written, done) + done
         /\ outstanding + written >= done => Counted(written, done) + done = outstanding + written
         /\ outstanding + written < done => Counted(written, done) = 0
BY DEF Counted

\* What updateWakeLock leaves in its variables.
LEMMA UpdateTypes ==
  ASSUME TypeOK, NEW written \in Nat, NEW done \in Nat, UpdateWakeLock(written, done)
  PROVE  /\ outstanding' \in Nat
         /\ left' \in 0..(Timeout + 1)
         /\ held' \in BOOLEAN
         /\ refused' \in BOOLEAN
         /\ refusals' \in 0..MaxRefusals
         /\ writtenOff' \in BOOLEAN
         /\ crossed' \in BOOLEAN
<1> USE StandaloneAssumption
<1>1. /\ outstanding \in Nat /\ left \in 0..(Timeout + 1)
      /\ held \in BOOLEAN /\ refused \in BOOLEAN /\ refusals \in 0..MaxRefusals
      /\ writtenOff \in BOOLEAN /\ crossed \in BOOLEAN
  BY DEF TypeOK
<1>2. outstanding' \in Nat
  BY <1>1, CountedIs DEF UpdateWakeLock
<1>3. left' \in 0..(Timeout + 1)
  BY <1>1 DEF UpdateWakeLock, Renewed
<1>4. writtenOff' \in BOOLEAN /\ crossed' \in BOOLEAN
  BY Zenon DEF UpdateWakeLock
<1>5. Acquire \/ Release \/ Keep
  BY DEF UpdateWakeLock
<1>6. held' \in BOOLEAN /\ refused' \in BOOLEAN
  <2>1. CASE Acquire
    BY Zenon, <2>1 DEF Acquire
  <2>2. CASE Release
    BY Zenon, <1>1, <2>2 DEF Release
  <2>3. CASE Keep
    BY Zenon, <1>1, <2>3 DEF Keep
  <2> QED
    BY <1>5, <2>1, <2>2, <2>3
<1>7. refusals' \in 0..MaxRefusals
  <2>1. refusals' = refusals \/ (refusals < MaxRefusals /\ refusals' = refusals + 1)
    BY <1>5 DEF Acquire, Release, Keep
  <2> QED
    BY <1>1, <2>1
<1> QED
  BY Zenon, <1>2, <1>3, <1>4, <1>6, <1>7

-----------------------------------------------------------------------------
(* Types.                                                                  *)

LEMMA TypeInit == Init => TypeOK
<1> USE StandaloneAssumption
<1> SUFFICES ASSUME Init PROVE TypeOK
  OBVIOUS
<1>1. /\ left \in 0..(Timeout + 1) /\ refusals \in 0..MaxRefusals /\ step \in 0..Len(Steps)
      /\ plain + wake <= FmqCapacity
  BY FiveSteps DEF Init
<1>2. /\ enabled \in [Sensors -> BOOLEAN]
      /\ pc \in [Posters -> {"idle", "plain", "wakeup"} \cup InWrite]
  BY DEF Init
<1>3. /\ running \in BOOLEAN /\ held \in BOOLEAN /\ refused \in BOOLEAN
      /\ writtenOff \in BOOLEAN /\ crossed \in BOOLEAN
  BY Zenon DEF Init
<1>4. /\ target \in Nat /\ plain \in Nat /\ wake \in Nat /\ owed \in Nat /\ answered \in Nat
      /\ handled \in Nat /\ generation \in Nat /\ outstanding \in Nat
      /\ reader \in {"top", "reading", "update", "exited"}
  BY DEF Init
<1> QED
  BY Zenon, <1>1, <1>2, <1>3, <1>4 DEF TypeOK

LEMMA TypePost ==
  ASSUME TypeOK, NEW p \in Posters, PostEvents(p)
  PROVE  TypeOK'
<1> USE StandaloneAssumption
<1>1. CASE LockWrite(p)
  BY <1>1 DEF LockWrite, TypeOK, InWrite, queueVars, initVars, readerVars, lockVars
<1>2. CASE Write(p)
  <2>1. /\ plain' \in Nat /\ wake' \in Nat /\ plain' + wake' <= FmqCapacity
    BY <1>2 DEF Write, TypeOK
  <2>2. pc' \in [Posters -> {"idle", "plain", "wakeup"} \cup InWrite]
    BY <1>2 DEF Write, TypeOK, InWrite
  <2> QED
    BY <1>2, <2>1, <2>2 DEF Write, TypeOK, initVars, readerVars, lockVars
<1>3. CASE Count(p)
  <2>1. UpdateWakeLock(1, 0)
    BY <1>3 DEF Count
  <2>2. pc' \in [Posters -> {"idle", "plain", "wakeup"} \cup InWrite]
    BY <1>3 DEF Count, TypeOK
  <2>3. UNCHANGED <<enabled, target, queueVars, initVars, readerVars>>
    BY <1>3 DEF Count
  <2> QED
    BY <2>1, <2>2, <2>3, UpdateTypes DEF TypeOK, queueVars, initVars, readerVars
<1> QED
  BY <1>1, <1>2, <1>3 DEF PostEvents

LEMMA TypeReader ==
  ASSUME TypeOK, ReadWakeLockFMQ
  PROVE  TypeOK'
<1>1. CASE LookAtFlag
  BY <1>1 DEF LookAtFlag, TypeOK, threadVars, queueVars, initVars, lockVars
<1>2. CASE ReadAnswer
  <2>1. handled' \in Nat /\ answered' \in Nat
    BY <1>2 DEF ReadAnswer, TypeOK
  <2> QED
    BY <1>2, <2>1 DEF ReadAnswer, TypeOK, threadVars, initVars, lockVars
<1>3. CASE Subtract
  <2>1. UpdateWakeLock(0, handled) /\ handled \in Nat
    BY <1>3 DEF Subtract, TypeOK
  <2>2. reader' = "top" /\ handled' = 0 /\ UNCHANGED <<threadVars, queueVars, initVars>>
    BY <1>3 DEF Subtract
  <2> QED
    BY <2>1, <2>2, UpdateTypes DEF TypeOK, threadVars, queueVars, initVars
<1> QED
  BY <1>1, <1>2, <1>3 DEF ReadWakeLockFMQ

\* One more step, or none left.
LEMMA AdvanceType ==
  ASSUME step \in 0..Len(Steps), Advance
  PROVE  step' \in 0..Len(Steps)
BY FiveSteps DEF Advance

LEMMA TypeInitialize ==
  ASSUME TypeOK, InitializeSteps
  PROVE  TypeOK'
<1> USE StandaloneAssumption
<1>1. ASSUME NEW s \in Sensors, DisableSensor(s)
      PROVE  TypeOK'
  BY <1>1 DEF DisableSensor, TypeOK, queueVars, initVars, readerVars, lockVars
<1>2. CASE AllDisabled \/ StopThread \/ Join
  <2>1. step' \in 0..Len(Steps)
    BY <1>2, AdvanceType DEF AllDisabled, StopThread, Join, TypeOK
  <2> QED
    BY <1>2, <2>1 DEF AllDisabled, StopThread, Join, TypeOK, threadVars, queueVars, readerVars,
                      lockVars
<1>3. CASE ReplaceQueue
  <2>1. step' \in 0..Len(Steps)
    BY <1>3, AdvanceType DEF ReplaceQueue, TypeOK
  <2> QED
    BY <1>3, <2>1 DEF ReplaceQueue, TypeOK, threadVars, readerVars, lockVars
<1>4. CASE StartThread
  <2>1. step' \in 0..Len(Steps)
    BY <1>4, AdvanceType DEF StartThread, TypeOK
  <2> QED
    BY <1>4, <2>1 DEF StartThread, TypeOK, threadVars
<1> QED
  BY <1>1, <1>2, <1>3, <1>4 DEF InitializeSteps

LEMMA TypeNext == TypeOK /\ [Next]_vars => TypeOK'
<1> SUFFICES ASSUME TypeOK, [Next]_vars PROVE TypeOK'
  OBVIOUS
<1> USE StandaloneAssumption
<1>1. ASSUME NEW s \in Sensors, Sample(s) \/ Flush(s)
      PROVE  TypeOK'
  BY <1>1 DEF Sample, Flush, TypeOK, Posters, queueVars, initVars, readerVars, lockVars
<1>2. ASSUME NEW s \in Sensors, Activate(s)
      PROVE  TypeOK'
  BY <1>2 DEF Activate, TypeOK, queueVars, initVars, readerVars, lockVars
<1>3. ASSUME NEW p \in Posters, PostEvents(p)
      PROVE  TypeOK'
  BY <1>3, TypePost
<1>4. CASE Framework
  <2>1. /\ plain' \in Nat /\ wake' \in Nat /\ plain' + wake' <= FmqCapacity
        /\ owed' \in Nat /\ answered' \in Nat
    BY <1>4 DEF Framework, ReadPlain, ReadWake, Answer, TypeOK
  <2>2. UNCHANGED <<threadVars, initVars, readerVars, lockVars>>
    BY Zenon, <1>4 DEF Framework, ReadPlain, ReadWake, Answer
  <2> QED
    BY <2>1, <2>2 DEF TypeOK, threadVars, initVars, readerVars, lockVars
<1>5. CASE ReadWakeLockFMQ
  BY <1>5, TypeReader
<1>6. CASE Initialize
  <2>1. step' \in 0..Len(Steps)
    BY <1>6, FiveSteps DEF Initialize
  <2> QED
    BY <1>6, <2>1 DEF Initialize, TypeOK, threadVars, queueVars, readerVars, lockVars
<1>7. CASE InitializeSteps
  BY <1>7, TypeInitialize
<1>8. CASE Tick
  <2>1. left' \in 0..(Timeout + 1)
    BY <1>8 DEF Tick, TypeOK
  <2> QED
    BY <1>8, <2>1 DEF Tick, TypeOK, threadVars, queueVars, initVars, readerVars
<1>9. CASE UNCHANGED vars
  BY <1>9 DEF vars, TypeOK, threadVars, queueVars, initVars, readerVars, lockVars
<1> QED
  BY <1>1, <1>2, <1>3, <1>4, <1>5, <1>6, <1>7, <1>8, <1>9 DEF Next

\* The variables keep their types: the count of outstanding wake-up events
\* never passes below zero (Sensors.h:251-256), the FMQ is never overfilled.
THEOREM TypeCorrect == Spec => []TypeOK
BY TypeInit, TypeNext, PTL DEF Spec, Safe

-----------------------------------------------------------------------------
(* Where the threads can be while initialize is on its way (HIDL order).   *)

\* mWriteLock.
OneInWrite == \A p, q \in Posters : pc[p] \in InWrite /\ pc[q] \in InWrite => p = q

\* mRunMutex, and the single binder thread.
SensorsPost == \A s \in Sensors : pc[s] # "idle" => enabled[s]
BinderFree == step > 0 => pc[Binder] = "idle"

\* Nothing is posted from the time all sensors are disabled, nor before the first
\* initialize.
Quiet == generation = 0 \/ step \in 2..5 =>
           (\A s \in Sensors : ~enabled[s]) /\ (\A p \in Posters : pc[p] = "idle")

ReaderGone == generation = 0 \/ step \in 4..5 => reader = "exited"
NothingHandled == reader # "update" => handled = 0
FreshQueue == step = 5 => generation > 0 /\ plain = 0 /\ wake = 0 /\ owed = 0
TargetCurrent == \A p \in Posters : pc[p] \in InWrite \ {"counting"} => target = generation

Control == /\ OneInWrite /\ SensorsPost /\ BinderFree /\ Quiet
           /\ ReaderGone /\ NothingHandled /\ FreshQueue /\ TargetCurrent

LEMMA StepOrder ==
  ASSUME ~QueueFirst, step \in 0..Len(Steps)
  PROVE  /\ step \in 0..5
         /\ At("disable") => step = 1
         /\ At("stop") => step = 2
         /\ At("join") => step = 3
         /\ At("queue") => step = 4
         /\ At("start") => step = 5
         /\ Advance => step' = IF step = 5 THEN 0 ELSE step + 1
<1>1. Steps = <<"disable", "stop", "join", "queue", "start">>
  BY DEF Steps
<1> QED
  BY <1>1, FiveSteps DEF At, Advance

LEMMA ControlInit == Init => Control
BY DEF Init, Control, OneInWrite, SensorsPost, BinderFree, Quiet, ReaderGone, NothingHandled,
       FreshQueue, TargetCurrent, InWrite, Posters

LEMMA ControlPost ==
  ASSUME TypeOK, Control, NEW p \in Posters, PostEvents(p)
  PROVE  Control'
<1>1. UNCHANGED <<enabled, generation, step, reader, handled>> /\ owed' = owed
  BY DEF PostEvents, LockWrite, Write, Count, queueVars, initVars, readerVars
<1>2. pc[p] # "idle"
  BY DEF PostEvents, LockWrite, Write, Count
<1>3. /\ pc' \in [Posters -> {"idle", "plain", "wakeup"} \cup InWrite]
      /\ \A q \in Posters \ {p} : pc'[q] = pc[q]
  BY TypePost DEF PostEvents, LockWrite, Write, Count, TypeOK
<1>4. generation # 0 /\ step \notin 2..5
  BY <1>2 DEF Control, Quiet
<1>5. OneInWrite'
  <2>1. CASE LockWrite(p)
    BY <1>3, <2>1 DEF LockWrite, OneInWrite
  <2>2. CASE Write(p) \/ Count(p)
    <3>1. pc[p] \in InWrite
      BY <2>2 DEF Write, Count, InWrite
    <3>2. \A q \in Posters \ {p} : pc[q] \notin InWrite
      BY <3>1 DEF Control, OneInWrite
    <3> QED
      BY <1>3, <3>2 DEF OneInWrite
  <2> QED
    BY <2>1, <2>2 DEF PostEvents
<1>6. SensorsPost'
  BY <1>1, <1>2, <1>3 DEF Control, SensorsPost, Posters
<1>7. BinderFree'
  BY <1>1, <1>2, <1>3 DEF Control, BinderFree, Posters
<1>8. TargetCurrent'
  <2>1. CASE LockWrite(p)
    BY <1>1, <2>1 DEF LockWrite, TargetCurrent
  <2>2. CASE Write(p) \/ Count(p)
    <3>1. pc[p] \in InWrite /\ pc'[p] \in {"idle", "counting"}
      BY <1>3, <2>2 DEF Write, Count, InWrite, TypeOK
    <3>2. \A q \in Posters \ {p} : pc'[q] \notin InWrite
      BY <1>3, <3>1 DEF Control, OneInWrite
    <3> QED
      BY <3>1, <3>2 DEF TargetCurrent, InWrite
  <2> QED
    BY <2>1, <2>2 DEF PostEvents
<1>9. Quiet' /\ ReaderGone' /\ NothingHandled' /\ FreshQueue'
  BY <1>1, <1>4 DEF Control, Quiet, ReaderGone, NothingHandled, FreshQueue
<1> QED
  BY <1>5, <1>6, <1>7, <1>8, <1>9 DEF Control

LEMMA ControlInitialize ==
  ASSUME ~QueueFirst, TypeOK, Control, InitializeSteps
  PROVE  Control'
<1> USE DEF Control
<1>1. step \in 0..Len(Steps)
  BY DEF TypeOK
<1>2. pc' = pc /\ handled' = handled /\ target' = target
  BY DEF InitializeSteps, DisableSensor, AllDisabled, StopThread, Join, ReplaceQueue, StartThread,
         threadVars, readerVars
<1>3. OneInWrite'
  BY <1>2 DEF OneInWrite
<1>4. ASSUME NEW s \in Sensors, DisableSensor(s)
      PROVE  Control'
  <2>1. UNCHANGED <<generation, step, reader, handled, plain, wake, owed>> /\ pc[s] = "idle"
    BY <1>4 DEF DisableSensor, initVars, readerVars, queueVars
  <2>2. \A t \in Sensors : enabled'[t] = IF t = s THEN FALSE ELSE enabled[t]
    BY <1>4 DEF DisableSensor, TypeOK
  <2>3. SensorsPost' /\ Quiet'
    BY <1>2, <2>1, <2>2 DEF SensorsPost, Quiet
  <2> QED
    BY <1>2, <1>3, <2>1, <2>3 DEF BinderFree, ReaderGone, NothingHandled, FreshQueue,
                                   TargetCurrent
<1>5. CASE AllDisabled
  <2>1. /\ step = 1 /\ step' = 2
        /\ UNCHANGED <<enabled, generation, reader, plain, wake, owed>>
    BY <1>1, <1>5, StepOrder DEF AllDisabled, threadVars, readerVars, queueVars
  <2>2. \A s \in Sensors : ~enabled[s]
    BY <1>5 DEF AllDisabled
  <2>3. \A p \in Posters : pc[p] = "idle"
    BY <2>1, <2>2 DEF SensorsPost, BinderFree, Posters
  <2> QED
    BY <1>2, <1>3, <2>1, <2>2, <2>3 DEF SensorsPost, BinderFree, Quiet, ReaderGone,
                                         NothingHandled, FreshQueue, TargetCurrent
<1>6. CASE StopThread
  <2>1. /\ step = 2 /\ step' = 3
        /\ UNCHANGED <<enabled, generation, reader, plain, wake, owed>>
    BY <1>1, <1>6, StepOrder DEF StopThread, threadVars, readerVars, queueVars
  <2> QED
    BY <1>2, <1>3, <2>1 DEF SensorsPost, BinderFree, Quiet, ReaderGone, NothingHandled,
                             FreshQueue, TargetCurrent
<1>7. CASE Join
  <2>1. /\ step = 3 /\ step' = 4 /\ reader = "exited"
        /\ UNCHANGED <<enabled, generation, reader, plain, wake, owed>>
    BY <1>1, <1>7, StepOrder DEF Join, threadVars, readerVars, queueVars
  <2> QED
    BY <1>2, <1>3, <2>1 DEF SensorsPost, BinderFree, Quiet, ReaderGone, NothingHandled,
                             FreshQueue, TargetCurrent
<1>8. CASE ReplaceQueue
  <2>1. /\ step = 4 /\ step' = 5 /\ generation' = generation + 1
        /\ plain' = 0 /\ wake' = 0 /\ owed' = 0
        /\ UNCHANGED <<enabled, reader>>
    BY <1>1, <1>8, StepOrder DEF ReplaceQueue, threadVars, readerVars
  <2>2. \A p \in Posters : pc[p] = "idle"
    BY <2>1 DEF Quiet
  <2>3. generation' > 0
    BY <2>1 DEF TypeOK
  <2> QED
    BY <1>2, <1>3, <2>1, <2>2, <2>3 DEF SensorsPost, BinderFree, Quiet, ReaderGone,
                                         NothingHandled, FreshQueue, TargetCurrent, InWrite
<1>9. CASE StartThread
  <2>1. /\ step = 5 /\ step' = 0 /\ reader' = "top"
        /\ UNCHANGED <<enabled, generation, plain, wake, owed>>
    BY <1>1, <1>9, StepOrder DEF StartThread, threadVars
  <2>2. generation # 0 /\ handled = 0
    BY <2>1 DEF FreshQueue, ReaderGone, NothingHandled
  <2> QED
    BY <1>2, <1>3, <2>1, <2>2 DEF SensorsPost, BinderFree, Quiet, ReaderGone, NothingHandled,
                                   FreshQueue, TargetCurrent
<1> QED
  BY <1>4, <1>5, <1>6, <1>7, <1>8, <1>9 DEF InitializeSteps

LEMMA ControlNext ==
  ASSUME ~QueueFirst, TypeOK, Control, [Next]_vars
  PROVE  Control'
<1>1. ASSUME NEW s \in Sensors, Sample(s) \/ Flush(s)
      PROVE  Control'
  <2>1. PICK p \in Posters :
          /\ pc[p] = "idle"
          /\ pc' = [pc EXCEPT ![p] = IF s \in WakeUp THEN "wakeup" ELSE "plain"]
          /\ p \in Sensors => enabled[p]
          /\ p = Binder => step = 0
    BY <1>1, StandaloneAssumption DEF Sample, Flush, Posters
  <2>2. UNCHANGED <<enabled, target, generation, step, reader, handled, plain, wake, owed>>
        /\ enabled[s]
    BY <1>1 DEF Sample, Flush, queueVars, initVars, readerVars
  <2>3. generation # 0 /\ step \notin 2..5
    BY <2>2 DEF Control, Quiet
  <2>4. \A q \in Posters : pc'[q] = IF q = p THEN IF s \in WakeUp THEN "wakeup" ELSE "plain"
                                            ELSE pc[q]
    BY <2>1 DEF TypeOK
  <2>5. pc'[p] \notin InWrite /\ pc'[p] \in {"plain", "wakeup"}
    BY <2>4 DEF InWrite
  <2>6. OneInWrite' /\ TargetCurrent'
    BY <2>2, <2>4, <2>5 DEF Control, OneInWrite, TargetCurrent
  <2>7. SensorsPost'
    BY <2>1, <2>2, <2>4 DEF Control, SensorsPost, Posters
  <2>8. BinderFree'
    BY <2>1, <2>2, <2>4 DEF Control, BinderFree, Posters
  <2>9. Quiet' /\ ReaderGone' /\ NothingHandled' /\ FreshQueue'
    BY <2>2, <2>3 DEF Control, Quiet, ReaderGone, NothingHandled, FreshQueue
  <2> QED
    BY <2>6, <2>7, <2>8, <2>9 DEF Control
<1>2. ASSUME NEW s \in Sensors, Activate(s)
      PROVE  Control'
  <2>1. /\ step = 0 /\ generation > 0 /\ pc[s] = "idle"
        /\ UNCHANGED <<pc, target, generation, step, reader, handled, plain, wake, owed>>
    BY <1>2 DEF Activate, queueVars, initVars, readerVars
  <2>2. \A t \in Sensors \ {s} : enabled'[t] = enabled[t]
    BY <1>2 DEF Activate, TypeOK
  <2>3. SensorsPost'
    BY <2>1, <2>2 DEF Control, SensorsPost
  <2>4. Quiet'
    BY <2>1 DEF Quiet
  <2> QED
    BY <2>1, <2>3, <2>4 DEF Control, OneInWrite, BinderFree, ReaderGone, NothingHandled,
                            FreshQueue, TargetCurrent
<1>3. ASSUME NEW p \in Posters, PostEvents(p)
      PROVE  Control'
  BY <1>3, ControlPost
<1>4. CASE Framework
  <2>1. /\ UNCHANGED <<enabled, pc, target, generation, step, reader, handled>>
        /\ step # 5
    BY <1>4 DEF Framework, ReadPlain, ReadWake, Answer, Control, FreshQueue, threadVars, initVars,
                readerVars
  <2> QED
    BY <2>1 DEF Control, OneInWrite, SensorsPost, BinderFree, Quiet, ReaderGone, NothingHandled,
                FreshQueue, TargetCurrent
<1>5. CASE ReadWakeLockFMQ
  <2>1. /\ UNCHANGED <<enabled, pc, target, generation, step, plain, wake, owed>>
        /\ reader # "exited"
    BY <1>5 DEF ReadWakeLockFMQ, LookAtFlag, ReadAnswer, Subtract, threadVars, queueVars, initVars
  <2>2. NothingHandled'
    BY <1>5 DEF ReadWakeLockFMQ, LookAtFlag, ReadAnswer, Subtract, Control, NothingHandled
  <2> QED
    BY <2>1, <2>2 DEF Control, OneInWrite, SensorsPost, BinderFree, Quiet, ReaderGone,
                      FreshQueue, TargetCurrent
<1>6. CASE Initialize
  <2>1. /\ pc[Binder] = "idle" /\ step' = 1
        /\ UNCHANGED <<enabled, pc, target, generation, reader, handled, plain, wake, owed>>
    BY <1>6 DEF Initialize, threadVars, queueVars, readerVars
  <2> QED
    BY <2>1 DEF Control, OneInWrite, SensorsPost, BinderFree, Quiet, ReaderGone, NothingHandled,
                FreshQueue, TargetCurrent
<1>7. CASE InitializeSteps
  BY <1>7, ControlInitialize
<1>8. CASE Tick \/ UNCHANGED vars
  <2>1. UNCHANGED <<enabled, pc, target, generation, step, reader, handled, plain, wake, owed>>
    BY <1>8 DEF Tick, vars, threadVars, queueVars, initVars, readerVars
  <2> QED
    BY <2>1 DEF Control, OneInWrite, SensorsPost, BinderFree, Quiet, ReaderGone, NothingHandled,
                FreshQueue, TargetCurrent
<1> QED
  BY <1>1, <1>2, <1>3, <1>4, <1>5, <1>6, <1>7, <1>8 DEF Next

\* With the HIDL HAL's initialize nobody writes to an event FMQ that has been
\* replaced, and the new one is empty when the HAL goes back to work.
THEOREM QueueIsProtected == ~QueueFirst => (Spec => []QueueProtected)
<1> SUFFICES ASSUME ~QueueFirst PROVE Spec => []QueueProtected
  OBVIOUS
<1>1. TypeOK /\ Control => QueueProtected
  <2> SUFFICES ASSUME TypeOK, Control PROVE QueueProtected
    OBVIOUS
  <2>1. At("start") => step = 5
    BY StepOrder DEF TypeOK
  <2> QED
    BY <2>1 DEF Control, FreshQueue, TargetCurrent, QueueProtected
<1>2. TypeOK /\ Control /\ [Next]_vars => Control'
  BY ControlNext
<1> QED
  BY <1>1, <1>2, ControlInit, TypeCorrect, PTL DEF Spec, Safe

-----------------------------------------------------------------------------
(* The counter, the lock and the events they stand for.                    *)

\* The lock is held while the counter is not zero, if it could be had.
LockFollows == refused \/ (outstanding > 0 => held)

\* Nothing is counted before the first session has begun.
NothingYet == generation = 0 \/ (generation = 1 /\ step = 5) => outstanding = 0

\* No event is without its count, before the automatic release strikes.
Covered == writtenOff \/ InFlight <= outstanding + Uncounted

Accounts == LockFollows /\ NothingYet /\ Covered /\ NeverOvercounted

LEMMA UncountedIs ==
  /\ Uncounted \in {0, 1}
  /\ (\A p \in Posters : pc[p] # "counting") => Uncounted = 0
  /\ \A p \in Posters : pc[p] = "counting" => Uncounted = 1
BY DEF Uncounted

LEMMA UncountedKept ==
  ASSUME \A p \in Posters : pc'[p] = "counting" <=> pc[p] = "counting"
  PROVE  Uncounted' = Uncounted
BY DEF Uncounted

\* A step that changes neither the counter nor the lock, adds no event and does
\* not touch what is in flight, or drops some of it between two sessions.
LEMMA AccountsKept ==
  ASSUME TypeOK, TypeOK', Accounts,
         UNCHANGED <<outstanding, held, refused, writtenOff, crossed>>,
         Uncounted' = Uncounted,
         InFlight' = InFlight,
         generation' = generation,
         generation' = 1 /\ step' = 5 => step = 5
  PROVE  Accounts'
<1>1. LockFollows' /\ NothingYet'
  BY DEF Accounts, LockFollows, NothingYet
<1>2. Covered' /\ NeverOvercounted'
  BY DEF Accounts, Covered, NeverOvercounted
<1> QED
  BY <1>1, <1>2 DEF Accounts

\* Answers for h events come off events in flight a, counted b and now c, with u
\* not counted yet.
LEMMA CoverArithmetic ==
  ASSUME NEW a \in Nat, NEW b \in Nat, NEW c \in Nat, NEW u \in {0, 1}, NEW h \in Nat,
         a <= b + u, b <= c + h, h <= a
  PROVE  a - h <= c + u
OBVIOUS

LEMMA BoundArithmetic ==
  ASSUME NEW a \in Nat, NEW b \in Nat, NEW c \in Nat, NEW u \in {0, 1}, NEW h \in Nat,
         b + u <= a, c + h <= b
  PROVE  c + u <= a - h
OBVIOUS

LEMMA LockUpdated ==
  ASSUME TypeOK, LockFollows, NEW written \in Nat, NEW done \in Nat,
         UpdateWakeLock(written, done)
  PROVE  LockFollows'
<1>1. Acquire \/ Release \/ Keep
  BY DEF UpdateWakeLock
<1>2. outstanding' \in Nat
  BY UpdateTypes
<1>3. CASE Acquire
  BY <1>3 DEF Acquire, LockFollows
<1>4. CASE Release
  BY <1>4 DEF Release, LockFollows
<1>5. CASE Keep
  BY <1>5 DEF Keep, LockFollows
<1> QED
  BY <1>1, <1>3, <1>4, <1>5

LEMMA AccountsCount ==
  ASSUME TypeOK, TypeOK', Control, Accounts, NEW p \in Posters, Count(p)
  PROVE  Accounts'
<1> USE StandaloneAssumption
<1>1. /\ pc[p] = "counting" /\ UpdateWakeLock(1, 0)
      /\ UNCHANGED <<enabled, target, queueVars, initVars, readerVars>>
      /\ pc' = [pc EXCEPT ![p] = "idle"]
  BY DEF Count
<1>2. LockFollows'
  BY <1>1, LockUpdated DEF Accounts
<1>3. generation # 0 /\ step \notin 2..5
  BY <1>1 DEF Control, Quiet
<1>4. NothingYet'
  BY <1>1, <1>3 DEF NothingYet, initVars
<1>5. Uncounted = 1
  BY <1>1, UncountedIs
<1>6. Uncounted' = 0
  <2>1. \A q \in Posters \ {p} : pc[q] # "counting"
    BY <1>1 DEF Control, OneInWrite, InWrite
  <2>2. \A q \in Posters : pc'[q] # "counting"
    BY <1>1, <2>1 DEF TypeOK
  <2> QED
    BY <2>2 DEF Uncounted
<1>7. Renewed(1) = Timeout + 1 /\ Renewed(1) # 0
  BY DEF Renewed
<1>8. outstanding' = outstanding + 1
  <2>1. outstanding' = Counted(1, 0)
    BY <1>1, <1>7 DEF UpdateWakeLock
  <2>2. outstanding \in Nat /\ 1 \in Nat /\ 0 \in Nat
    BY DEF TypeOK
  <2>3. Counted(1, 0) \in Nat /\ Counted(1, 0) + 0 = outstanding + 1
    BY <2>2, CountedIs
  <2> QED
    BY <2>1, <2>3
<1>9. (writtenOff' <=> writtenOff) /\ (crossed' <=> crossed)
  <2>1. 1 # 0
    OBVIOUS
  <2> QED
    BY Zenon, <1>1, <1>7, <2>1 DEF UpdateWakeLock
<1>10. InFlight' = InFlight /\ generation' = generation
  BY <1>1 DEF InFlight, queueVars, readerVars, initVars
<1>11. outstanding' + Uncounted' = outstanding + Uncounted
  BY <1>5, <1>6, <1>8 DEF TypeOK
<1>12. Covered' /\ NeverOvercounted'
  BY <1>9, <1>10, <1>11 DEF Accounts, Covered, NeverOvercounted
<1> QED
  BY <1>2, <1>4, <1>12 DEF Accounts

LEMMA AccountsSubtract ==
  ASSUME TypeOK, TypeOK', Control, Accounts, Subtract
  PROVE  Accounts'
<1>1. /\ UpdateWakeLock(0, handled) /\ handled' = 0 /\ reader = "update"
      /\ UNCHANGED <<threadVars, queueVars, initVars>>
  BY DEF Subtract
<1>2. LockFollows'
  BY <1>1, LockUpdated DEF Accounts, TypeOK
<1>3. NothingYet'
  <2>1. generation # 0 /\ step # 5
    BY <1>1 DEF Control, ReaderGone
  <2> QED
    BY <1>1, <2>1 DEF NothingYet, initVars
<1>4. Uncounted' = Uncounted /\ Uncounted \in {0, 1}
  BY <1>1, UncountedIs, UncountedKept DEF threadVars
<1>5. /\ InFlight \in Nat /\ InFlight' = InFlight - handled /\ handled <= InFlight
      /\ handled \in Nat /\ outstanding \in Nat /\ outstanding' \in Nat
      /\ generation' = generation
  BY <1>1 DEF InFlight, TypeOK, queueVars, initVars
<1>6. outstanding' = Counted(0, handled) \/ (outstanding' = 0 /\ Counted(0, handled) >= 0)
  BY <1>1, <1>5, CountedIs DEF UpdateWakeLock
<1>7. Covered'
  <2>1. CASE writtenOff'
    BY <2>1 DEF Covered
  <2>2. CASE ~writtenOff'
    <3>1. ~writtenOff /\ outstanding' = Counted(0, handled)
      <4>1. ~writtenOff /\ ~(held /\ Renewed(0) = 0 /\ Counted(0, handled) > 0)
        BY <1>1, <2>2 DEF UpdateWakeLock
      <4>2. Counted(0, handled) \in Nat
        BY <1>5, CountedIs
      <4> QED
        BY <1>1, <4>1, <4>2 DEF UpdateWakeLock
    <3>2. InFlight <= outstanding + Uncounted
      BY <3>1 DEF Accounts, Covered
    <3>3. outstanding <= outstanding' + handled
      BY <1>5, <3>1, CountedIs
    <3>4. InFlight - handled <= outstanding' + Uncounted
      BY <1>4, <1>5, <3>2, <3>3, CoverArithmetic
    <3> QED
      BY <1>4, <1>5, <3>4 DEF Covered
  <2> QED
    BY <2>1, <2>2
<1>8. NeverOvercounted'
  <2> SUFFICES ASSUME generation <= 1, ~crossed'
               PROVE  outstanding' + Uncounted' <= InFlight'
    BY <1>5 DEF NeverOvercounted
  <2>1. ~crossed /\ ~(handled > outstanding /\ Uncounted = 1)
    BY <1>1 DEF UpdateWakeLock
  <2>2. outstanding + Uncounted <= InFlight
    BY <2>1 DEF Accounts, NeverOvercounted
  <2>3. CASE handled <= outstanding
    <3>1. Counted(0, handled) \in Nat /\ Counted(0, handled) + handled = outstanding + 0
      <4>1. 0 \in Nat /\ handled \in Nat /\ outstanding \in Nat /\ outstanding + 0 >= handled
        BY <1>5, <2>3
      <4> QED
        BY <4>1, CountedIs
    <3>2. outstanding' + handled <= outstanding
      <4>1. CASE outstanding' = Counted(0, handled)
        BY <1>5, <3>1, <4>1
      <4>2. CASE outstanding' = 0
        BY <1>5, <2>3, <4>2
      <4> QED
        BY <1>6, <4>1, <4>2
    <3>3. outstanding' + Uncounted <= InFlight - handled
      <4>1. /\ InFlight \in Nat /\ outstanding \in Nat /\ outstanding' \in Nat
            /\ Uncounted \in {0, 1} /\ handled \in Nat
        BY <1>4, <1>5
      <4> QED
        BY <2>2, <3>2, <4>1, BoundArithmetic
    <3> QED
      BY <1>4, <1>5, <3>3
  <2>4. CASE handled > outstanding
    <3>1. outstanding' = 0
      BY <1>5, <1>6, <2>4, CountedIs
    <3>2. Uncounted = 0
      BY <1>4, <2>1, <2>4
    <3> QED
      BY <1>4, <1>5, <3>1, <3>2
  <2> QED
    BY <1>5, <2>3, <2>4
<1> QED
  BY <1>2, <1>3, <1>7, <1>8 DEF Accounts

LEMMA AccountsWrite ==
  ASSUME TypeOK, TypeOK', Control, Accounts, NEW p \in Posters, Write(p)
  PROVE  Accounts'
<1>1. /\ pc[p] \in {"writePlain", "writeWakeup"}
      /\ UNCHANGED <<owed, answered, initVars, readerVars, lockVars>>
  BY DEF Write
<1>2. \A q \in Posters : pc[q] # "counting"
  BY <1>1 DEF Control, OneInWrite, InWrite
<1>3. Uncounted = 0
  BY <1>2, UncountedIs
<1>4. CASE wake' = wake /\ pc'[p] = "idle"
  <2>1. \A q \in Posters : pc'[q] # "counting"
    BY <1>2, <1>4 DEF Write, TypeOK
  <2>2. Uncounted' = Uncounted
    BY <1>3, <2>1 DEF Uncounted
  <2> QED
    BY <1>1, <1>4, <2>2, AccountsKept DEF InFlight, initVars, readerVars, lockVars
<1>5. CASE wake' = wake + 1 /\ pc'[p] = "counting"
  <2>1. Uncounted' = 1
    BY <1>5 DEF Uncounted
  <2>2. /\ InFlight' = InFlight + 1 /\ InFlight \in Nat
        /\ UNCHANGED <<outstanding, held, refused, writtenOff, crossed, generation, step>>
    BY <1>1, <1>5 DEF InFlight, initVars, readerVars, lockVars, TypeOK
  <2>3. LockFollows' /\ NothingYet'
    BY <2>2 DEF Accounts, LockFollows, NothingYet
  <2>4. Covered' /\ NeverOvercounted'
    BY <1>3, <2>1, <2>2 DEF Accounts, Covered, NeverOvercounted, TypeOK
  <2> QED
    BY <2>3, <2>4 DEF Accounts
<1> QED
  BY <1>4, <1>5 DEF Write, TypeOK

LEMMA AccountsInitialize ==
  ASSUME ~QueueFirst, TypeOK, TypeOK', Control, Accounts, InitializeSteps
  PROVE  Accounts'
<1>1. step \in 0..Len(Steps)
  BY DEF TypeOK
<1>2. pc' = pc /\ UNCHANGED <<outstanding, held, refused, crossed, handled>>
  BY DEF InitializeSteps, DisableSensor, AllDisabled, StopThread, Join, ReplaceQueue, StartThread,
         threadVars, readerVars, lockVars
<1>3. Uncounted' = Uncounted
  BY <1>2, UncountedKept
<1>4. ASSUME NEW s \in Sensors, DisableSensor(s)
      PROVE  Accounts'
  BY <1>2, <1>3, <1>4, AccountsKept DEF DisableSensor, InFlight, queueVars, initVars, readerVars,
                                      lockVars
<1>5. CASE AllDisabled \/ StopThread \/ Join
  <2>1. step' # 5
    BY <1>1, <1>5, StepOrder DEF AllDisabled, StopThread, Join
  <2> QED
    BY <1>2, <1>3, <1>5, <2>1, AccountsKept DEF AllDisabled, StopThread, Join, InFlight, queueVars,
                                              readerVars, lockVars
<1>6. CASE ReplaceQueue
  <2>1. /\ step = 4 /\ generation' = generation + 1 /\ wake' = 0 /\ owed' = 0
        /\ answered' = answered /\ writtenOff' = writtenOff
    BY <1>1, <1>6, StepOrder DEF ReplaceQueue, lockVars
  <2>2. Uncounted = 0
    BY <2>1, UncountedIs DEF Control, Quiet
  <2>3. InFlight' <= InFlight /\ InFlight' \in Nat /\ InFlight \in Nat
    BY <1>2, <2>1 DEF InFlight, TypeOK
  <2>4. generation' <= 1 => outstanding = 0
    BY <2>1 DEF Accounts, NothingYet, TypeOK
  <2>5. LockFollows' /\ NothingYet'
    BY <1>2, <2>1, <2>4 DEF Accounts, LockFollows, NothingYet, TypeOK
  <2>6. Covered'
    BY <1>2, <1>3, <2>1, <2>2, <2>3 DEF Accounts, Covered, TypeOK
  <2>7. NeverOvercounted'
    BY <1>2, <1>3, <2>2, <2>3, <2>4 DEF NeverOvercounted
  <2> QED
    BY <2>5, <2>6, <2>7 DEF Accounts
<1>7. CASE StartThread
  <2>1. /\ step = 5 /\ step' = 0 /\ answered' = 0
        /\ UNCHANGED <<generation, wake, owed>>
    BY <1>1, <1>7, StepOrder DEF StartThread
  <2>2. generation > 0 /\ wake = 0 /\ owed = 0 /\ handled = 0
    BY <2>1 DEF Control, FreshQueue, ReaderGone, NothingHandled
  <2>3. InFlight' = 0 /\ Uncounted = 0
    BY <1>2, <2>1, <2>2, UncountedIs DEF InFlight, Control, Quiet
  <2>4. generation <= 1 => outstanding = 0
    BY <2>1, <2>2 DEF Accounts, NothingYet, TypeOK
  <2>5. LockFollows' /\ NothingYet'
    BY <1>2, <2>1, <2>2 DEF Accounts, LockFollows, NothingYet
  <2>6. Covered' /\ NeverOvercounted'
    BY <1>2, <1>3, <2>1, <2>3, <2>4 DEF Covered, NeverOvercounted, TypeOK
  <2> QED
    BY <2>5, <2>6 DEF Accounts
<1> QED
  BY <1>4, <1>5, <1>6, <1>7 DEF InitializeSteps

LEMMA AccountsNext ==
  ASSUME ~QueueFirst, TypeOK, TypeOK', Control, Accounts, [Next]_vars
  PROVE  Accounts'
<1>1. ASSUME NEW s \in Sensors, Sample(s) \/ Flush(s)
      PROVE  Accounts'
  <2>1. \A p \in Posters : pc'[p] = "counting" <=> pc[p] = "counting"
    BY <1>1 DEF Sample, Flush, TypeOK, Posters
  <2> QED
    BY <1>1, <2>1, UncountedKept, AccountsKept
       DEF Sample, Flush, InFlight, queueVars, initVars, readerVars, lockVars
<1>2. ASSUME NEW s \in Sensors, Activate(s)
      PROVE  Accounts'
  BY <1>2, UncountedKept, AccountsKept
     DEF Activate, InFlight, queueVars, initVars, readerVars, lockVars
<1>3. ASSUME NEW p \in Posters, LockWrite(p)
      PROVE  Accounts'
  <2>1. \A q \in Posters : pc'[q] = "counting" <=> pc[q] = "counting"
    BY <1>3 DEF LockWrite, TypeOK
  <2> QED
    BY <1>3, <2>1, UncountedKept, AccountsKept
       DEF LockWrite, InFlight, queueVars, initVars, readerVars, lockVars
<1>4. ASSUME NEW p \in Posters, Write(p) \/ Count(p)
      PROVE  Accounts'
  BY <1>4, AccountsWrite, AccountsCount
<1>5. CASE Framework
  <2>1. InFlight' = InFlight
    <3>1. wake \in Nat /\ owed \in Nat /\ answered \in Nat /\ handled \in Nat
      BY DEF TypeOK
    <3>2. handled' = handled
      BY <1>5 DEF Framework, ReadPlain, ReadWake, Answer, readerVars
    <3>3. \/ wake' = wake /\ owed' = owed /\ answered' = answered
          \/ wake' = wake - 1 /\ owed' = owed + 1 /\ answered' = answered
          \/ wake' = wake /\ owed' = owed - 1 /\ answered' = answered + 1
      BY <1>5 DEF Framework, ReadPlain, ReadWake, Answer
    <3> QED
      BY <3>1, <3>2, <3>3 DEF InFlight
  <2>2. UNCHANGED <<threadVars, initVars, lockVars>>
    BY Zenon, <1>5 DEF Framework, ReadPlain, ReadWake, Answer
  <2> QED
    BY <2>1, <2>2, UncountedKept, AccountsKept DEF threadVars, initVars, lockVars
<1>6. CASE LookAtFlag \/ ReadAnswer
  <2>1. InFlight' = InFlight
    <3>1. CASE LookAtFlag
      BY <3>1 DEF LookAtFlag, InFlight, queueVars
    <3>2. CASE ReadAnswer
      <4>1. handled = 0
        BY <3>2 DEF ReadAnswer, Control, NothingHandled
      <4> QED
        BY <3>2, <4>1 DEF ReadAnswer, InFlight, TypeOK
    <3> QED
      BY <1>6, <3>1, <3>2
  <2>2. UNCHANGED <<threadVars, initVars, lockVars>>
    BY <1>6 DEF LookAtFlag, ReadAnswer
  <2> QED
    BY <2>1, <2>2, UncountedKept, AccountsKept DEF threadVars, initVars, lockVars
<1>7. CASE Subtract
  BY <1>7, AccountsSubtract
<1>8. CASE Initialize
  BY <1>8, UncountedKept, AccountsKept
     DEF Initialize, InFlight, threadVars, queueVars, readerVars, lockVars
<1>9. CASE InitializeSteps
  BY <1>9, AccountsInitialize
<1>10. CASE Tick \/ UNCHANGED vars
  BY <1>10, UncountedKept, AccountsKept
     DEF Tick, vars, InFlight, threadVars, queueVars, initVars, readerVars, lockVars
<1> QED
  BY <1>1, <1>2, <1>3, <1>4, <1>5, <1>6, <1>7, <1>8, <1>9, <1>10
     DEF Next, PostEvents, ReadWakeLockFMQ

LEMMA AccountsInit == Init => Accounts
<1> SUFFICES ASSUME Init PROVE Accounts
  OBVIOUS
<1>1. /\ outstanding = 0 /\ InFlight = 0
      /\ \A p \in Posters : pc[p] # "counting"
  BY DEF Init, InFlight
<1>2. Uncounted = 0
  BY <1>1, UncountedIs
<1> QED
  BY <1>1, <1>2 DEF Accounts, LockFollows, NothingYet, Covered, NeverOvercounted

LEMMA AccountsAlways == ~QueueFirst => (Spec => [](TypeOK /\ Accounts))
<1> SUFFICES ASSUME ~QueueFirst PROVE Spec => [](TypeOK /\ Accounts)
  OBVIOUS
<1>1. TypeOK /\ Control /\ [Next]_vars => Control'
  BY ControlNext
<1>2. TypeOK /\ TypeOK' /\ Control /\ Accounts /\ [Next]_vars => Accounts'
  BY AccountsNext
<1> QED
  BY <1>1, <1>2, ControlInit, AccountsInit, TypeCorrect, PTL DEF Spec, Safe

\* An unread or unanswered wake-up event of the HIDL HAL keeps the lock held from
\* its count on (Sensors.h:249-282), whatever answers are subtracted meanwhile.
THEOREM LockedFromCountOn == ~QueueFirst => (Spec => []LockedOnceCounted)
<1> SUFFICES ASSUME ~QueueFirst PROVE Spec => []LockedOnceCounted
  OBVIOUS
<1>1. TypeOK /\ Accounts => LockedOnceCounted
  <2> SUFFICES ASSUME TypeOK, Accounts, ~writtenOff, ~refused, Uncounted = 0, InFlight > 0
               PROVE  held
    BY DEF LockedOnceCounted
  <2>1. InFlight \in Nat /\ outstanding \in Nat
    BY DEF InFlight, TypeOK
  <2>2. outstanding > 0
    BY <2>1 DEF Accounts, Covered
  <2> QED
    BY <2>2 DEF Accounts, LockFollows
<1> QED
  BY <1>1, AccountsAlways, PTL

\* The counter of the first session stands for nothing but events on their way,
\* unless an answer has overtaken the count of its event (Sensors.h:193-199).
THEOREM NothingOvercounted == ~QueueFirst => (Spec => []NeverOvercounted)
<1> SUFFICES ASSUME ~QueueFirst PROVE Spec => []NeverOvercounted
  OBVIOUS
<1> QED
  BY AccountsAlways, PTL DEF Accounts

=============================================================================
