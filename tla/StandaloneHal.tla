---------------------------- MODULE StandaloneHal ----------------------------
(***************************************************************************)
(* The HALs that serve the framework without the multi-HAL proxy: HIDL     *)
(* (2.X/Sensors.h) and AIDL (aidl/SensorsHalAidl).  Sensor threads and the *)
(* single binder thread post events to the event FMQ and count the         *)
(* wake-up events among them; the framework reads the events, and answers  *)
(* on the wake lock FMQ how many wake-up events it has taken care of; the  *)
(* wake lock thread subtracts the answers, and releases the lock by itself *)
(* when no wake-up event has been written for long.                        *)
(*                                                                         *)
(* Every batch is one event: a sample, or the end of a flush.  The order   *)
(* of the events does not matter here, so a queue is the number of its     *)
(* elements.  The two HALs differ in when initialize replaces the event    *)
(* FMQ.                                                                    *)
(***************************************************************************)
EXTENDS Naturals, Sequences

CONSTANTS
  Sensors,        \* mSensors; each has a run thread
  WakeUp,         \* those of them whose events wake the device up
  Binder,         \* the thread that calls the HAL
  FmqCapacity,    \* size of the event FMQ
  Timeout,        \* WAKE_LOCK_SECONDS, in ticks
  QueueFirst,     \* initialize replaces the event FMQ before all else (AIDL)
  MaxInFlight,    \* no event is begun with so many without an answer
  MaxRefusals,    \* bound on the failures of acquire and release_wake_lock
  MaxGeneration   \* bound on the calls of initialize

ASSUME StandaloneAssumption ==
  /\ WakeUp \subseteq Sensors
  /\ Binder \notin Sensors
  /\ FmqCapacity \in Nat \ {0}
  /\ Timeout \in Nat
  /\ QueueFirst \in BOOLEAN
  /\ MaxInFlight \in Nat
  /\ MaxRefusals \in Nat
  /\ MaxGeneration \in Nat

VARIABLES
  enabled,      \* mIsEnabled of each sensor
  pc,           \* where each thread is in postEvents
  target,       \* the event FMQ that the thread with mWriteLock has looked up
  plain, wake,  \* ordinary and wake-up events in the event FMQ
  owed,         \* wake-up events the framework has read and not yet answered
  answered,     \* sum of the answers in the wake lock FMQ
  generation,   \* how many event FMQs there have been
  step,         \* how far initialize is
  reader,       \* where the wake lock thread is
  handled,      \* its eventsHandled
  running,      \* mReadWakeLockQueueRun
  outstanding,  \* mOutstandingWakeUpEvents
  left,         \* 1 + mAutoReleaseWakeLockTime - uptime, 0 when that is past
  held,         \* mHasWakeLock
  refused,      \* the last acquire_wake_lock failed
  refusals,     \* how often acquire_wake_lock or release_wake_lock failed
  writtenOff,   \* in this session the automatic release has struck
  crossed       \* an answer has overtaken the counting of its event

threadVars == <<enabled, pc, target>>
queueVars == <<plain, wake, owed, answered>>
initVars == <<generation, step, running>>
readerVars == <<reader, handled>>
lockVars == <<outstanding, left, held, refused, refusals, writtenOff, crossed>>
vars == <<threadVars, queueVars, initVars, readerVars, lockVars>>

Posters == Sensors \cup {Binder}

-----------------------------------------------------------------------------
(* Counting.                                                               *)

\* Wake-up events written whose answer has not been subtracted.
InFlight == wake + owed + answered + handled

\* The wake-up events written and not counted yet: mWriteLock admits one.
Uncounted == IF \E p \in Posters : pc[p] = "counting" THEN 1 ELSE 0

\* Mistaken variant: no lower bound.
CountedUnclamped(written, done) == outstanding + written - done

\* newVal, at least 0.
Counted(written, done) ==
  IF outstanding + written >= done THEN outstanding + written - done ELSE 0

\* mAutoReleaseWakeLockTime.
Renewed(written) == IF written > 0 THEN Timeout + 1 ELSE left

\* acquire_wake_lock, if the lock is wanted and not held.  It may fail.
Acquire ==
  /\ ~held
  /\ outstanding' > 0
  /\ \/ held' = TRUE /\ refused' = FALSE /\ UNCHANGED refusals
     \/ /\ refusals < MaxRefusals
        /\ held' = FALSE /\ refused' = TRUE /\ refusals' = refusals + 1

\* release_wake_lock, if it is held and not wanted.  It may fail, too.
Release ==
  /\ held
  /\ outstanding' = 0
  /\ \/ held' = FALSE /\ UNCHANGED refusals
     \/ refusals < MaxRefusals /\ held' = TRUE /\ refusals' = refusals + 1
  /\ UNCHANGED refused

Keep == held = (outstanding' > 0) /\ UNCHANGED <<held, refused, refusals>>

\* Mistaken variant: only an answer releases the lock.
UpdateNeverExpires(written, done) ==
  /\ left' = Renewed(written)
  /\ outstanding' = Counted(written, done)
  /\ crossed' = (crossed \/ (written = 0 /\ done > outstanding /\ Uncounted = 1))
  /\ Acquire \/ Release \/ Keep
  /\ UNCHANGED writtenOff

\* updateWakeLock, under mWakeLockLock.
UpdateWakeLock(written, done) ==
  LET expired == held /\ Renewed(written) = 0
  IN /\ left' = Renewed(written)
     /\ outstanding' = IF expired THEN 0 ELSE Counted(written, done)
     /\ writtenOff' = (writtenOff \/ (expired /\ Counted(written, done) > 0))
     /\ crossed' = (crossed \/ (written = 0 /\ done > outstanding /\ Uncounted = 1))
     /\ Acquire \/ Release \/ Keep

-----------------------------------------------------------------------------
(* The threads that post.                                                  *)

\* A sensor finds a sample due; it owns its mRunMutex until postEvents returns.
Sample(s) ==
  /\ pc[s] = "idle"
  /\ enabled[s]
  /\ InFlight < MaxInFlight
  /\ pc' = [pc EXCEPT ![s] = IF s \in WakeUp THEN "wakeup" ELSE "plain"]
  /\ UNCHANGED <<enabled, target, queueVars, initVars, readerVars, lockVars>>

\* flush of an enabled sensor posts from the binder thread.
Flush(s) ==
  /\ step = 0
  /\ pc[Binder] = "idle"
  /\ enabled[s]
  /\ InFlight < MaxInFlight
  /\ pc' = [pc EXCEPT ![Binder] = IF s \in WakeUp THEN "wakeup" ELSE "plain"]
  /\ UNCHANGED <<enabled, target, queueVars, initVars, readerVars, lockVars>>

InWrite == {"writePlain", "writeWakeup", "counting"}

\* mWriteLock is taken, and mEventQueue looked up.
LockWrite(p) ==
  /\ pc[p] \in {"plain", "wakeup"}
  /\ \A q \in Posters : pc[q] \notin InWrite
  /\ pc' = [pc EXCEPT ![p] = IF @ = "plain" THEN "writePlain" ELSE "writeWakeup"]
  /\ target' = generation
  /\ UNCHANGED <<enabled, queueVars, initVars, readerVars, lockVars>>

\* Mistaken variant: a wake-up event is counted though the FMQ was full.
WriteCountsLost(p) ==
  /\ pc[p] \in {"writePlain", "writeWakeup"}
  /\ pc' = [pc EXCEPT ![p] = IF @ = "writePlain" THEN "idle" ELSE "counting"]
  /\ IF plain + wake = FmqCapacity
     THEN UNCHANGED <<plain, wake>>
     ELSE IF pc[p] = "writePlain"
     THEN plain' = plain + 1 /\ UNCHANGED wake
     ELSE wake' = wake + 1 /\ UNCHANGED plain
  /\ target' = 0
  /\ UNCHANGED <<enabled, owed, answered, initVars, readerVars, lockVars>>

\* The event is written, and may be read from now on; or the FMQ is full, and
\* the event lost.  So is what is written to an FMQ that no longer exists.
Write(p) ==
  /\ pc[p] \in {"writePlain", "writeWakeup"}
  /\ IF plain + wake = FmqCapacity \/ target # generation
     THEN pc' = [pc EXCEPT ![p] = "idle"] /\ UNCHANGED <<plain, wake>>
     ELSE IF pc[p] = "writePlain"
     THEN pc' = [pc EXCEPT ![p] = "idle"] /\ plain' = plain + 1 /\ UNCHANGED wake
     ELSE pc' = [pc EXCEPT ![p] = "counting"] /\ wake' = wake + 1 /\ UNCHANGED plain
  /\ target' = 0
  /\ UNCHANGED <<enabled, owed, answered, initVars, readerVars, lockVars>>

Count(p) ==
  /\ pc[p] = "counting"
  /\ UpdateWakeLock(1, 0)
  /\ pc' = [pc EXCEPT ![p] = "idle"]
  /\ UNCHANGED <<enabled, target, queueVars, initVars, readerVars>>

-----------------------------------------------------------------------------
(* The framework.                                                          *)

ReadPlain ==
  /\ plain > 0
  /\ plain' = plain - 1
  /\ UNCHANGED <<wake, owed, answered, threadVars, initVars, readerVars, lockVars>>

ReadWake ==
  /\ wake > 0
  /\ wake' = wake - 1
  /\ owed' = owed + 1
  /\ UNCHANGED <<plain, answered, threadVars, initVars, readerVars, lockVars>>

Answer ==
  /\ owed > 0
  /\ owed' = owed - 1
  /\ answered' = answered + 1
  /\ UNCHANGED <<plain, wake, threadVars, initVars, readerVars, lockVars>>

-----------------------------------------------------------------------------
(* The wake lock thread, readWakeLockFMQ.                                  *)

LookAtFlag ==
  /\ reader = "top"
  /\ reader' = IF running THEN "reading" ELSE "exited"
  /\ UNCHANGED <<handled, threadVars, queueVars, initVars, lockVars>>

\* readBlocking gives one answer, which may stand for several events, or none in
\* time.
ReadAnswer ==
  /\ reader = "reading"
  /\ \E n \in 0..answered : handled' = n /\ answered' = answered - n
  /\ reader' = "update"
  /\ UNCHANGED <<plain, wake, owed, threadVars, initVars, lockVars>>

\* Mistaken variant: a read that times out counts as an answer.
SubtractTimedOut ==
  /\ reader = "update"
  /\ UpdateWakeLock(0, IF handled = 0 THEN 1 ELSE handled)
  /\ reader' = "top"
  /\ handled' = 0
  /\ UNCHANGED <<threadVars, queueVars, initVars>>

Subtract ==
  /\ reader = "update"
  /\ UpdateWakeLock(0, handled)
  /\ reader' = "top"
  /\ handled' = 0
  /\ UNCHANGED <<threadVars, queueVars, initVars>>

-----------------------------------------------------------------------------
(* The binder thread.                                                      *)

\* activate takes mRunMutex, which a posting sensor owns.
Activate(s) ==
  /\ step = 0
  /\ generation > 0
  /\ pc[Binder] = "idle"
  /\ pc[s] = "idle"
  /\ enabled' = [enabled EXCEPT ![s] = ~@]
  /\ UNCHANGED <<pc, target, queueVars, initVars, readerVars, lockVars>>

\* Mistaken variant: the queue is replaced while sensors are enabled.
StepsQueueFirst == <<"queue", "disable", "stop", "join", "start">>

\* What initialize does, in the order of the code.
Steps == IF QueueFirst
         THEN <<"queue", "disable", "stop", "join", "start">>
         ELSE <<"disable", "stop", "join", "queue", "start">>

At(name) == step > 0 /\ Steps[step] = name

Advance == step' = IF step = Len(Steps) THEN 0 ELSE step + 1

Initialize ==
  /\ step = 0
  /\ generation < MaxGeneration
  /\ pc[Binder] = "idle"
  /\ step' = 1
  /\ UNCHANGED <<generation, running, threadVars, queueVars, readerVars, lockVars>>

\* activate(false) of one sensor after the other.
DisableSensor(s) ==
  /\ At("disable")
  /\ enabled[s]
  /\ pc[s] = "idle"
  /\ enabled' = [enabled EXCEPT ![s] = FALSE]
  /\ UNCHANGED <<pc, target, queueVars, initVars, readerVars, lockVars>>

AllDisabled ==
  /\ At("disable")
  /\ \A s \in Sensors : ~enabled[s]
  /\ Advance
  /\ UNCHANGED <<generation, running, threadVars, queueVars, readerVars, lockVars>>

StopThread ==
  /\ At("stop")
  /\ running' = FALSE
  /\ Advance
  /\ UNCHANGED <<generation, threadVars, queueVars, readerVars, lockVars>>

Join ==
  /\ At("join")
  /\ reader = "exited"
  /\ Advance
  /\ UNCHANGED <<generation, running, threadVars, queueVars, readerVars, lockVars>>

\* mEventQueue is replaced, and whatever the old FMQ held or the framework owed for
\* it is gone.
ReplaceQueue ==
  /\ At("queue")
  /\ generation' = generation + 1
  /\ plain' = 0
  /\ wake' = 0
  /\ owed' = 0
  /\ Advance
  /\ UNCHANGED <<answered, running, threadVars, readerVars, lockVars>>

\* A new wake lock FMQ, and a new thread that reads it.
StartThread ==
  /\ At("start")
  /\ answered' = 0
  /\ running' = TRUE
  /\ reader' = "top"
  /\ writtenOff' = FALSE
  /\ Advance
  /\ UNCHANGED <<generation, plain, wake, owed, handled, threadVars,
                 outstanding, left, held, refused, refusals, crossed>>

Tick ==
  /\ left > 0
  /\ left' = left - 1
  /\ UNCHANGED <<threadVars, queueVars, initVars, readerVars,
                 outstanding, held, refused, refusals, writtenOff, crossed>>

-----------------------------------------------------------------------------
\* As constructed; the wake lock thread does not exist yet.
Init ==
  /\ enabled = [s \in Sensors |-> FALSE]
  /\ pc = [p \in Posters |-> "idle"]
  /\ target = 0
  /\ plain = 0 /\ wake = 0 /\ owed = 0 /\ answered = 0
  /\ generation = 0 /\ step = 0 /\ running = FALSE
  /\ reader = "exited" /\ handled = 0
  /\ outstanding = 0 /\ left = 0 /\ held = FALSE
  /\ refused = FALSE /\ refusals = 0
  /\ writtenOff = FALSE /\ crossed = FALSE

PostEvents(p) == LockWrite(p) \/ Write(p) \/ Count(p)

Framework == ReadPlain \/ ReadWake \/ Answer

ReadWakeLockFMQ == LookAtFlag \/ ReadAnswer \/ Subtract

InitializeSteps ==
  \/ \E s \in Sensors : DisableSensor(s)
  \/ AllDisabled \/ StopThread \/ Join \/ ReplaceQueue \/ StartThread

Next ==
  \/ \E s \in Sensors : Sample(s) \/ Flush(s) \/ Activate(s)
  \/ \E p \in Posters : PostEvents(p)
  \/ Framework
  \/ ReadWakeLockFMQ
  \/ Initialize
  \/ InitializeSteps
  \/ Tick

Safe == Init /\ [][Next]_vars

\* Threads are scheduled, initialize goes on once begun, and time passes.  The
\* framework need not read or answer, and nobody has to call.
Fairness ==
  /\ \A p \in Posters : WF_vars(PostEvents(p))
  /\ WF_vars(ReadWakeLockFMQ)
  /\ WF_vars(InitializeSteps)
  /\ WF_vars(Tick)

Spec == Safe /\ Fairness

-----------------------------------------------------------------------------
TypeOK ==
  /\ enabled \in [Sensors -> BOOLEAN]
  /\ pc \in [Posters -> {"idle", "plain", "wakeup"} \cup InWrite]
  /\ target \in Nat
  /\ plain \in Nat /\ wake \in Nat /\ plain + wake <= FmqCapacity
  /\ owed \in Nat /\ answered \in Nat /\ handled \in Nat
  /\ generation \in Nat
  /\ step \in 0..Len(Steps)
  /\ reader \in {"top", "reading", "update", "exited"}
  /\ running \in BOOLEAN
  /\ outstanding \in Nat
  /\ left \in 0..(Timeout + 1)
  /\ held \in BOOLEAN
  /\ refused \in BOOLEAN /\ refusals \in 0..MaxRefusals
  /\ writtenOff \in BOOLEAN /\ crossed \in BOOLEAN

\* updateWakeLock (Sensors.h:249-282): an unread or unanswered wake-up event keeps
\* the lock held, but for the moment between its write and its count, until the
\* automatic release strikes, or when the lock could not be had.  Other
\* threads' answers, late ones and those of an earlier session included, do not
\* take away the count of an event.
LockedOnceCounted ==
  ~writtenOff /\ ~refused /\ Uncounted = 0 /\ InFlight > 0 => held

\* No count is left behind by events that are lost, answered or read: the lock is
\* not held for more than what is in flight, until initialize drops events that
\* were counted, or an answer overtakes the count of its event.
NeverOvercounted == generation <= 1 /\ ~crossed => outstanding + Uncounted <= InFlight

\* "Lock to protect writes to the FMQs" (Sensors.h:316-319, SensorsHalAidl.h:190-191):
\* nobody is writing to an event FMQ that initialize has replaced, and thereby
\* destroyed; and when initialize returns the new one is empty.
QueueProtected ==
  /\ \A p \in Posters : pc[p] \in InWrite \ {"counting"} => target = generation
  /\ At("start") => plain + wake = 0

\* readWakeLockFMQ (Sensors.h:231-243): whatever the framework and initialize do, the
\* lock is released at last if no further wake-up event is counted.
ReleasedAtLast ==
  held /\ left <= Timeout ~> ~held \/ left > Timeout

\* "Keep track of the number of outstanding WAKE_UP events in order to properly hold
\* a wake lock until the framework has secured a wake lock" (Sensors.h:197-198):
\* the lock is held while a wake-up event can be read or awaits its answer.
LockedWhileUnsecured ==
  ~writtenOff /\ ~refused /\ wake + owed > 0 => held

=============================================================================
