---------------------------- MODULE SensorThread ----------------------------
(***************************************************************************)
(* A sensor of the sub-HAL (multihal/Sensor.cpp): its run thread samples   *)
(* and posts while the sensor is enabled, and sleeps in mWaitCV otherwise; *)
(* the calls batch, activate, flush and the destructor come from one other *)
(* thread (the service has a single binder thread).                        *)
(*                                                                         *)
(* The run thread owns mRunMutex except while it sleeps.  activate and the *)
(* destructor take the mutex for all they change, batch takes it for       *)
(* nothing.                                                                *)
(***************************************************************************)
EXTENDS Naturals

CONSTANTS
  MaxPeriod,  \* the longest sampling period, in ticks
  Unlocks     \* the destructor gives mRunMutex up before it joins

ASSUME SensorAssumption == MaxPeriod \in Nat \ {0} /\ Unlocks \in BOOLEAN

VARIABLES
  enabled,      \* mIsEnabled
  period,       \* mSamplingPeriodNs
  stop,         \* mStopThread
  sinceSample,  \* now - mLastSampleTimeNs, saturating at MaxPeriod
  run,          \* where the run thread is
  wakeIn,       \* what is left of its wait_for
  caller        \* the call the other thread is in

vars == <<enabled, period, stop, sinceSample, run, wakeIn, caller>>
runVars == <<run, wakeIn>>

Holding == {"top", "due", "posting", "toWait"}

\* mRunMutex is free.
MutexFree == run \notin Holding /\ (caller = "joining" => Unlocks)

\* Mistaken variant: nobody is woken.
NotNotified(pc) == pc

\* notify_all on mWaitCV.
Notified(pc) == IF pc \in {"idle", "asleep"} THEN "woken" ELSE pc

-----------------------------------------------------------------------------
(* The run thread.                                                         *)

\* The mutex is taken, at the start of run or at the end of a wait.
Lock ==
  /\ run \in {"start", "woken"}
  /\ MutexFree
  /\ run' = "top"
  /\ UNCHANGED <<enabled, period, stop, sinceSample, wakeIn, caller>>

\* mStopThread is seen, and the mutex released.
Exit ==
  /\ run = "top"
  /\ stop
  /\ run' = "exited"
  /\ UNCHANGED <<enabled, period, stop, sinceSample, wakeIn, caller>>

\* Mistaken variant: the wait disregards mStopThread.
RestThoughStopped ==
  /\ run = "top"
  /\ ~enabled
  /\ run' = "idle"
  /\ UNCHANGED <<enabled, period, stop, sinceSample, wakeIn, caller>>

\* The wait of a disabled sensor, whose predicate the next Lock evaluates.
Rest ==
  /\ run = "top"
  /\ ~stop
  /\ ~enabled
  /\ run' = "idle"
  /\ UNCHANGED <<enabled, period, stop, sinceSample, wakeIn, caller>>

\* Mistaken variant: the comparison the wrong way round.
LookAtClockReversed ==
  /\ run = "top"
  /\ ~stop
  /\ enabled
  /\ IF sinceSample <= period
     THEN run' = "due" /\ UNCHANGED wakeIn
     ELSE run' = "toWait" /\ wakeIn' = period - sinceSample
  /\ UNCHANGED <<enabled, period, stop, sinceSample, caller>>

\* The next sample is due, or its time is computed.
LookAtClock ==
  /\ run = "top"
  /\ ~stop
  /\ enabled
  /\ IF sinceSample >= period
     THEN run' = "due" /\ UNCHANGED wakeIn
     ELSE run' = "toWait" /\ wakeIn' = period - sinceSample
  /\ UNCHANGED <<enabled, period, stop, sinceSample, caller>>

\* mLastSampleTimeNs and nextSampleTime are set; postEvents begins.
TakeSample ==
  /\ run = "due"
  /\ run' = "posting"
  /\ sinceSample' = 0
  /\ wakeIn' = period
  /\ UNCHANGED <<enabled, period, stop, caller>>

PostReturns ==
  /\ run = "posting"
  /\ run' = "toWait"
  /\ UNCHANGED <<enabled, period, stop, sinceSample, wakeIn, caller>>

\* wait_for blocks and releases the mutex.
Sleep ==
  /\ run = "toWait"
  /\ run' = "asleep"
  /\ UNCHANGED <<enabled, period, stop, sinceSample, wakeIn, caller>>

WaitEnds ==
  /\ run = "asleep"
  /\ wakeIn = 0
  /\ run' = "woken"
  /\ UNCHANGED <<enabled, period, stop, sinceSample, wakeIn, caller>>

\* Either wait may end for no reason.
SpuriousWake ==
  /\ run \in {"idle", "asleep"}
  /\ run' = "woken"
  /\ UNCHANGED <<enabled, period, stop, sinceSample, wakeIn, caller>>

-----------------------------------------------------------------------------
(* The other thread.                                                       *)

\* batch with a new period, already clamped.
BatchWrite(p) ==
  /\ caller = "none"
  /\ p # period
  /\ period' = p
  /\ caller' = "batch"
  /\ UNCHANGED <<enabled, stop, sinceSample, runVars>>

BatchNotify ==
  /\ caller = "batch"
  /\ run' = Notified(run)
  /\ caller' = "none"
  /\ UNCHANGED <<enabled, period, stop, sinceSample, wakeIn>>

\* activate looks at mIsEnabled, without the mutex.
ActivateCheck(enable) ==
  /\ caller = "none"
  /\ enabled # enable
  /\ caller' = IF enable THEN "enable" ELSE "disable"
  /\ UNCHANGED <<enabled, period, stop, sinceSample, runVars>>

\* Mistaken variant: does not take the mutex.
ActivateSetUnlocked ==
  /\ caller \in {"enable", "disable"}
  /\ enabled' = (caller = "enable")
  /\ run' = Notified(run)
  /\ caller' = "none"
  /\ UNCHANGED <<period, stop, sinceSample, wakeIn>>

\* The rest of activate, under the mutex.
ActivateSet ==
  /\ caller \in {"enable", "disable"}
  /\ MutexFree
  /\ enabled' = (caller = "enable")
  /\ run' = Notified(run)
  /\ caller' = "none"
  /\ UNCHANGED <<period, stop, sinceSample, wakeIn>>

\* flush of an enabled sensor posts a META_DATA event, without the mutex.
Flush ==
  /\ caller = "none"
  /\ enabled
  /\ caller' = "flush"
  /\ UNCHANGED <<enabled, period, stop, sinceSample, runVars>>

FlushReturns ==
  /\ caller = "flush"
  /\ caller' = "none"
  /\ UNCHANGED <<enabled, period, stop, sinceSample, runVars>>

\* The destructor, up to the join.
Destroy ==
  /\ caller = "none"
  /\ MutexFree
  /\ stop' = TRUE
  /\ enabled' = FALSE
  /\ run' = Notified(run)
  /\ caller' = "joining"
  /\ UNCHANGED <<period, sinceSample, wakeIn>>

Joined ==
  /\ caller = "joining"
  /\ run = "exited"
  /\ caller' = "gone"
  /\ UNCHANGED <<enabled, period, stop, sinceSample, runVars>>

Tick ==
  /\ sinceSample' = IF sinceSample < MaxPeriod THEN sinceSample + 1 ELSE sinceSample
  /\ wakeIn' = IF run = "asleep" /\ wakeIn > 0 THEN wakeIn - 1 ELSE wakeIn
  /\ UNCHANGED <<enabled, period, stop, run, caller>>

-----------------------------------------------------------------------------
\* The constructor has started the thread.  It leaves mStopThread alone, which
\* thus begins with either value; the last sample was at time 0, long ago.
Init ==
  /\ enabled = FALSE
  /\ period = 0
  /\ stop \in BOOLEAN
  /\ sinceSample = MaxPeriod
  /\ run = "start"
  /\ wakeIn = 0
  /\ caller = "none"

Run == Lock \/ Exit \/ Rest \/ LookAtClock \/ TakeSample \/ PostReturns \/ Sleep \/ WaitEnds

Return == BatchNotify \/ ActivateSet \/ FlushReturns \/ Joined

Next ==
  \/ Run
  \/ SpuriousWake
  \/ \E p \in 1..MaxPeriod : BatchWrite(p)
  \/ \E enable \in BOOLEAN : ActivateCheck(enable)
  \/ Flush
  \/ Destroy
  \/ Return
  \/ Tick

Safe == Init /\ [][Next]_vars

\* The run thread is scheduled, postEvents returns, a call that has begun goes
\* on once it gets the mutex, and time passes.  Nobody has to call anything.
Fairness == WF_vars(Run) /\ WF_vars(Return) /\ WF_vars(Tick)

Spec == Safe /\ Fairness

-----------------------------------------------------------------------------
TypeOK ==
  /\ enabled \in BOOLEAN
  /\ period \in 0..MaxPeriod
  /\ stop \in BOOLEAN
  /\ sinceSample \in 0..MaxPeriod
  /\ run \in Holding \cup {"start", "idle", "asleep", "woken", "exited"}
  /\ wakeIn \in 0..MaxPeriod
  /\ caller \in {"none", "batch", "enable", "disable", "flush", "joining", "gone"}

\* Once activate(false) has returned no sample is posted, nor is a call of
\* postEvents still under way: HalProxy::initializeCommon clears its queues on
\* the strength of that (HalProxy.cpp:200-206).
QuietWhenDisabled == run = "posting" => enabled

\* An enabled sensor posts again and again until it is disabled, however batch
\* and activate meet the run thread on its way into either wait (Sensor.cpp:109,
\* :122); unless mStopThread was set to begin with.
KeepsSampling == enabled ~> run = "posting" \/ ~enabled \/ stop

\* "Ensure that lock is unlocked before calling mRunThread.join() or a deadlock
\* will occur" (multihal/Sensor.cpp:48-49): the destructor returns.
DestructorReturns == caller = "joining" ~> caller = "gone"

\* "Wake up the 'run' thread to check if a new event should be generated now"
\* (multihal/Sensor.cpp:67): when batch has returned the run thread does not sleep
\* longer than the new period.
BatchHeeded == run = "asleep" /\ caller = "none" => wakeIn <= period

=============================================================================
