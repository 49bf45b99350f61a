------------------------- MODULE WakelockRefCounter -------------------------
(***************************************************************************)
(* The reference count of the shared wake lock SensorsHAL_WAKEUP that the  *)
(* multi-HAL proxy keeps (multihal/2.X/HalProxy.cpp): who increments it,   *)
(* who decrements it, the thread that times it out, and what stopping and  *)
(* re-initialising the proxy does to it.                                   *)
(*                                                                         *)
(* Time.  The code compares timestamps in two ways only, so the model      *)
(* keeps the outcome of the comparisons:                                   *)
(*   - elapsed is now - mWakelockTimeoutStartTime, saturating one tick     *)
(*     above Timeout (kWakelockTimeoutNs);                                 *)
(*   - scoped[o] orders mCreatedAtTimeNs of the ScopedWakelock of thread o *)
(*     against the clock and against mWakelockTimeoutResetTime: "now" (no  *)
(*     tick since it was created), "earlier", or "beforeReset" (created    *)
(*     strictly before the last reset); "none" is an unlocked one.         *)
(***************************************************************************)
EXTENDS Naturals, FiniteSets

CONSTANTS
  Owners,       \* sub-HAL threads that create ScopedWakelocks
  WakeCounts,   \* numWakeupEvents of the batches they post
  Timeout,      \* kWakelockTimeoutNs, in ticks
  MaxRefCount,  \* bound on mWakelockRefCount
  MaxUnacked    \* bound on the wake-up events the framework still owes

ASSUME WakelockAssumption ==
  /\ IsFiniteSet(Owners)
  /\ WakeCounts \subseteq Nat
  /\ Timeout \in Nat
  /\ MaxRefCount \in Nat
  /\ MaxUnacked \in Nat

VARIABLES
  threadsRun,   \* mThreadsRun
  refCount,     \* mWakelockRefCount
  kernelLock,   \* the wake lock in the kernel: "held" or "free"
  elapsed,      \* age of mWakelockTimeoutStartTime
  scoped,       \* the ScopedWakelock of each thread (mLocked, mCreatedAtTimeNs)
  counted,      \* threads whose postEventsToMessageQueue has counted its events
  wlThread,     \* mWakelockThread: in the CV wait, in readBlocking, or exited
  init,         \* the thread that runs initializeCommon
  unacked,      \* history: counted wake-up events neither handled nor dropped
  cutShort,     \* history: a timeout has zeroed a positive count
  stoppedOnce   \* history: stopThreads has run

wlVars == <<refCount, kernelLock, elapsed, scoped, counted, wlThread>>
vars == <<threadsRun, wlVars, init, unacked, cutShort, stoppedOnce>>

ScopedStates == {"none", "now", "earlier", "beforeReset"}

Least(a, b) == IF a <= b THEN a ELSE b

-----------------------------------------------------------------------------
(* The two operations of IScopedWakelockRefCounter, under mWakelockMutex.  *)

\* incrementRefCountAndMaybeAcquireWakelock once mThreadsRun was seen true.
Increment(delta) ==
  /\ kernelLock' = IF refCount = 0 THEN "held" ELSE kernelLock
  /\ refCount' = refCount + delta
  /\ elapsed' = 0

\* Mistaken variants, used to confirm that the properties below notice them:
\* without the clamp of the subtraction, ...
DecrementUnclamped(delta) ==
  IF threadsRun
  THEN /\ refCount' = refCount - delta
       /\ kernelLock' = IF 0 < refCount /\ refCount <= delta THEN "free" ELSE kernelLock
  ELSE UNCHANGED <<refCount, kernelLock>>

\* ... and releasing only when the count is given back exactly.
DecrementExactOnly(delta) ==
  IF threadsRun
  THEN /\ refCount' = refCount - Least(refCount, delta)
       /\ kernelLock' = IF 0 < refCount /\ refCount = delta THEN "free" ELSE kernelLock
  ELSE UNCHANGED <<refCount, kernelLock>>

\* decrementRefCountAndMaybeReleaseWakelock whose start is not before the
\* last reset.
Decrement(delta) ==
  IF threadsRun
  THEN /\ refCount' = refCount - Least(refCount, delta)
       /\ kernelLock' = IF 0 < refCount /\ refCount <= delta THEN "free" ELSE kernelLock
  ELSE UNCHANGED <<refCount, kernelLock>>

\* resetSharedWakelock: the decrement, then mWakelockTimeoutResetTime = now,
\* which makes every ScopedWakelock of an earlier instant a stale one.
ResetSharedWakelock ==
  /\ Decrement(refCount)
  /\ scoped' = [o \in Owners |-> IF scoped[o] = "earlier" THEN "beforeReset"
                                 ELSE scoped[o]]

-----------------------------------------------------------------------------
(* Sub-HAL threads.                                                        *)

\* createScopedWakelock(true): the constructor of ScopedWakelock.
CreateScoped(o) ==
  /\ scoped[o] = "none"
  /\ threadsRun
  /\ refCount < MaxRefCount
  /\ Increment(1)
  /\ scoped' = [scoped EXCEPT ![o] = "now"]
  /\ UNCHANGED <<threadsRun, counted, wlThread, init, unacked, cutShort, stoppedOnce>>

\* postEventsToMessageQueue counts the wake-up events of the batch if the
\* ScopedWakelock it was given is locked.
CountEvents(o, n) ==
  /\ scoped[o] # "none"
  /\ o \notin counted
  /\ counted' = counted \cup {o}
  /\ IF threadsRun
     THEN /\ refCount + n <= MaxRefCount
          /\ unacked + n <= MaxUnacked
          /\ Increment(n)
          /\ unacked' = unacked + n
     ELSE UNCHANGED <<refCount, kernelLock, elapsed, unacked>>
  /\ UNCHANGED <<threadsRun, scoped, wlThread, init, cutShort, stoppedOnce>>

\* ~ScopedWakelock: gives its reference back unless a reset came in between.
DestroyScoped(o) ==
  /\ scoped[o] # "none"
  /\ IF scoped[o] = "beforeReset" THEN UNCHANGED <<refCount, kernelLock>> ELSE Decrement(1)
  /\ scoped' = [scoped EXCEPT ![o] = "none"]
  /\ counted' = counted \ {o}
  /\ UNCHANGED <<threadsRun, elapsed, wlThread, init, unacked, cutShort, stoppedOnce>>

\* Mistaken variant: the events go, their count stays.
DropPendingKeepsCount(n) ==
  /\ threadsRun
  /\ n \in 1..unacked
  /\ unacked' = unacked - n
  /\ UNCHANGED <<threadsRun, refCount, kernelLock, elapsed, scoped, counted, wlThread,
                 init, cutShort, stoppedOnce>>

\* handlePendingWrites gives back the count of events it drops.
DropPending(n) ==
  /\ threadsRun
  /\ n \in 1..unacked
  /\ Decrement(n)
  /\ unacked' = unacked - n
  /\ UNCHANGED <<threadsRun, elapsed, scoped, counted, wlThread, init, cutShort, stoppedOnce>>

-----------------------------------------------------------------------------
(* handleWakelocks.                                                        *)

\* Mistaken variant: only the reset time is set, the count stays.
TimeOutKeepsCount ==
  /\ wlThread = "wait"
  /\ threadsRun
  /\ refCount > 0
  /\ elapsed > Timeout
  /\ scoped' = [o \in Owners |-> IF scoped[o] = "earlier" THEN "beforeReset"
                                 ELSE scoped[o]]
  /\ cutShort' = TRUE
  /\ UNCHANGED <<threadsRun, refCount, kernelLock, elapsed, counted, wlThread,
                 init, unacked, stoppedOnce>>

\* The CV predicate holds and sharedWakelockDidTimeout: the count is reset.
TimeOut ==
  /\ wlThread = "wait"
  /\ threadsRun
  /\ refCount > 0
  /\ elapsed > Timeout
  /\ ResetSharedWakelock
  /\ cutShort' = TRUE
  /\ UNCHANGED <<threadsRun, elapsed, counted, wlThread, init, unacked, stoppedOnce>>

\* The CV predicate holds and time is left: go and read, without the mutex.
BeginRead ==
  /\ wlThread = "wait"
  /\ threadsRun
  /\ refCount > 0
  /\ elapsed <= Timeout
  /\ wlThread' = "read"
  /\ UNCHANGED <<threadsRun, refCount, kernelLock, elapsed, scoped, counted, init,
                 unacked, cutShort, stoppedOnce>>

\* readBlocking returns a count the framework wrote.
AckRead(n) ==
  /\ wlThread = "read"
  /\ threadsRun
  /\ n \in 1..unacked
  /\ Decrement(n)
  /\ unacked' = unacked - n
  /\ wlThread' = "wait"
  /\ UNCHANGED <<threadsRun, elapsed, scoped, counted, init, cutShort, stoppedOnce>>

\* Mistaken variant: the outcome of readBlocking is not looked at.
ReadTimesOutDecrements ==
  /\ wlThread = "read"
  /\ threadsRun
  /\ Decrement(1)
  /\ wlThread' = "wait"
  /\ UNCHANGED <<threadsRun, elapsed, scoped, counted, init, unacked, cutShort, stoppedOnce>>

\* readBlocking gives up after timeLeft; nothing is decremented.
ReadTimesOut ==
  /\ wlThread = "read"
  /\ threadsRun
  /\ wlThread' = "wait"
  /\ UNCHANGED <<threadsRun, refCount, kernelLock, elapsed, scoped, counted, init,
                 unacked, cutShort, stoppedOnce>>

\* The loop ends because mThreadsRun is false; the last reset runs.
ThreadExit ==
  /\ wlThread # "exited"
  /\ ~threadsRun
  /\ wlThread' = "exited"
  /\ ResetSharedWakelock
  /\ UNCHANGED <<threadsRun, elapsed, counted, init, unacked, cutShort, stoppedOnce>>

-----------------------------------------------------------------------------
(* initializeCommon, as far as the wake lock is concerned.                 *)

StopThreads ==
  /\ init = "idle"
  /\ init' = "joining"
  /\ threadsRun' = FALSE
  /\ stoppedOnce' = TRUE
  /\ UNCHANGED <<wlVars, unacked, cutShort>>

\* Both threads are joined; resetSharedWakelock runs on the binder thread.
InitReset ==
  /\ init = "joining"
  /\ wlThread = "exited"
  /\ init' = "reset"
  /\ ResetSharedWakelock
  /\ UNCHANGED <<threadsRun, elapsed, counted, wlThread, unacked, cutShort, stoppedOnce>>

\* mThreadsRun is set again and the thread started, on a fresh wake lock FMQ.
StartThreads ==
  /\ init = "reset"
  /\ init' = "idle"
  /\ threadsRun' = TRUE
  /\ wlThread' = "wait"
  /\ unacked' = 0
  /\ UNCHANGED <<refCount, kernelLock, elapsed, scoped, counted, cutShort, stoppedOnce>>

Tick ==
  /\ elapsed' = Least(elapsed + 1, Timeout + 1)
  /\ scoped' = [o \in Owners |-> IF scoped[o] = "now" THEN "earlier" ELSE scoped[o]]
  /\ UNCHANGED <<threadsRun, refCount, kernelLock, counted, wlThread, init,
                 unacked, cutShort, stoppedOnce>>

-----------------------------------------------------------------------------
\* The state right after the first initialize.
Init ==
  /\ threadsRun = TRUE
  /\ refCount = 0
  /\ kernelLock = "free"
  /\ elapsed = 0
  /\ scoped = [o \in Owners |-> "none"]
  /\ counted = {}
  /\ wlThread = "wait"
  /\ init = "idle"
  /\ unacked = 0
  /\ cutShort = FALSE
  /\ stoppedOnce = FALSE

HandleWakelocks ==
  \/ TimeOut
  \/ BeginRead
  \/ \E n \in 1..MaxUnacked : AckRead(n)
  \/ ReadTimesOut
  \/ ThreadExit

SubHal(o) ==
  \/ CreateScoped(o)
  \/ \E n \in WakeCounts : CountEvents(o, n)
  \/ DestroyScoped(o)

Initialize == StopThreads \/ InitReset \/ StartThreads

Next ==
  \/ \E o \in Owners : SubHal(o)
  \/ \E n \in 1..MaxUnacked : DropPending(n)
  \/ HandleWakelocks
  \/ Initialize
  \/ Tick

Safe == Init /\ [][Next]_vars

\* The threads are scheduled, a post returns, an initialize call that began
\* goes on, and the clock advances.  Nobody has to post or to re-initialise.
Fairness ==
  /\ WF_vars(HandleWakelocks)
  /\ \A o \in Owners : WF_vars(DestroyScoped(o))
  /\ WF_vars(InitReset)
  /\ WF_vars(StartThreads)
  /\ WF_vars(Tick)

Spec == Safe /\ Fairness

-----------------------------------------------------------------------------
TypeOK ==
  /\ threadsRun \in BOOLEAN
  /\ refCount \in Nat
  /\ kernelLock \in {"held", "free"}
  /\ elapsed \in 0..(Timeout + 1)
  /\ scoped \in [Owners -> ScopedStates]
  /\ counted \in SUBSET Owners
  /\ wlThread \in {"wait", "read", "exited"}
  /\ init \in {"idle", "joining", "reset"}
  /\ unacked \in Nat
  /\ cutShort \in BOOLEAN
  /\ stoppedOnce \in BOOLEAN

\* ScopedWakelocks whose destructor will still give a reference back.
Live == {o \in Owners : scoped[o] \in {"now", "earlier"}}

\* The kernel wake lock is held exactly while the count is positive: every
\* path that brings the count to zero releases it, every path that leaves zero
\* acquires it (HalProxy.cpp:644 and :665), stopped or not.
HeldIffCounted == kernelLock = "held" <=> refCount > 0

\* As long as no timeout has zeroed the count, every ScopedWakelock that is
\* still in scope and every wake-up event the framework still owes an answer
\* for has a reference: no interleaving of posts, answers, drops and restarts
\* gives a reference back twice.
NeverUndercounted ==
  ~cutShort => refCount >= Cardinality(Live) + unacked

\* As long as the proxy was never stopped, nothing else has a reference: after
\* a timeout, late answers and late destructors leave no stray count behind.
NeverOvercounted ==
  ~stoppedOnce => refCount <= Cardinality(Live) + unacked

\* "To ensure wake locks are not held indefinitely" (ScopedWakelock.h:66-68):
\* while the threads run, the lock is again and again released or refreshed by
\* a new increment; it is never kept by a count nobody gives back.
ReleasedOrRefreshed == []<>(kernelLock = "free" \/ elapsed = 0 \/ ~threadsRun)

-----------------------------------------------------------------------------
(* What the documentation says and the code does not do.                   *)

\* ScopedWakelock.h:59-60: a ScopedWakelock keeps "a wake lock held for the
\* duration of a scoped block".  A late answer for events whose count a timeout
\* already took back is subtracted from newer references.
ScopedHoldsLock == Live # {} => kernelLock = "held"

=============================================================================
