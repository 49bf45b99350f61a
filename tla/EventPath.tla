------------------------------ MODULE EventPath ------------------------------
(***************************************************************************)
(* The event path and the wake lock of the multi-HAL proxy together: the   *)
(* steps of EventDelivery and of WakelockRefCounter that are one step of   *)
(* the code, and the wake lock FMQ by which the framework answers.         *)
(***************************************************************************)
EXTENDS Naturals, Sequences, FiniteSets

CONSTANTS
  Posters, Batches, FmqCapacity, MaxPending, MaxPosted, MaxSessions,
  Timeout, MaxRefCount, MaxUnacked

ASSUME PathAssumption ==
  /\ Batches \subseteq Seq({"wake", "plain"}) \ {<<>>}
  /\ FmqCapacity \in Nat \ {0}
  /\ MaxPending \in Nat /\ MaxPosted \in Nat /\ MaxSessions \in Nat
  /\ IsFiniteSet(Posters)
  /\ Timeout \in Nat /\ MaxRefCount \in Nat /\ MaxUnacked \in Nat

VARIABLES
  threadsRun, init,
  fmq, pending, sizePending, pwThread, checked, session, posted, delivered,
  refCount, kernelLock, elapsed, scoped, counted, wlThread, unacked, cutShort, stoppedOnce,
  answers  \* wake-up events the framework has answered and nobody subtracted yet

E == INSTANCE EventDelivery

WakeCount(batch) == Cardinality({i \in DOMAIN batch : batch[i] = "wake"})
WakeCounts == {WakeCount(batch) : batch \in Batches} \ {0}

\* WakelockRefCounter sees less of initializeCommon.
W == INSTANCE WakelockRefCounter
  WITH Owners <- Posters,
       init <- IF init = "idle" THEN "idle"
               ELSE IF init = "disabling" THEN "reset" ELSE "joining"

evVars == <<fmq, pending, sizePending, pwThread, checked, session, posted, delivered>>
wlVars == <<refCount, kernelLock, elapsed, scoped, counted, wlThread, unacked, cutShort,
            stoppedOnce>>

-----------------------------------------------------------------------------
(* Sub-HAL threads: SensorsSubHal::postEvents.                             *)

\* createScopedWakelock(true), for a wake-up sensor.
CreateScoped(p) ==
  /\ checked[p] = 0
  /\ posted < MaxPosted
  /\ UNCHANGED <<evVars, answers, init>>
  /\ W!CreateScoped(p)

EnterPost(p) ==
  /\ p \notin counted
  /\ E!EnterPost(p)
  /\ UNCHANGED <<wlVars, answers>>

\* The lock region of postEventsToMessageQueue, for a batch with wake-up events
\* and a locked ScopedWakelock, and for one without either.
Commit(p, batch) ==
  LET n == WakeCount(batch)
  IN /\ scoped[p] # "none" <=> n > 0
     /\ E!Commit(p, batch)
     /\ IF n > 0 THEN W!CountEvents(p, n) ELSE UNCHANGED wlVars
     /\ UNCHANGED answers

\* The ScopedWakelock goes out of scope when postEvents returns.
DestroyScoped(p) ==
  /\ checked[p] = 0
  /\ UNCHANGED <<evVars, answers, init>>
  /\ W!DestroyScoped(p)

-----------------------------------------------------------------------------
\* Wake-up events that the write that just failed takes with it.
WakeDropped == E!NumWakeup(SubSeq(Head(pending).events, 1, E!NumToWrite))

\* Mistaken variant: the references of dropped events are kept.
WriteFailsKeepsCount ==
  /\ E!WriteFails
  /\ unacked' = IF threadsRun THEN unacked - WakeDropped ELSE unacked
  /\ UNCHANGED <<refCount, kernelLock, elapsed, scoped, counted, wlThread, cutShort,
                 stoppedOnce, answers>>

\* The write of the front batch fails: its events go, and GivenBack references.
WriteFails ==
  /\ E!WriteFails
  /\ IF threadsRun
     THEN W!Decrement(E!GivenBack) /\ unacked' = unacked - WakeDropped
     ELSE UNCHANGED <<refCount, kernelLock, unacked>>
  /\ UNCHANGED <<elapsed, scoped, counted, wlThread, cutShort, stoppedOnce, answers>>

\* Every other step of the background thread.
HandlePendingWrites ==
  /\ E!PwCheck \/ E!PwSleep \/ E!PwSpuriousWake \/ E!WriteSucceeds \/ E!Retire
  /\ UNCHANGED <<wlVars, answers>>

-----------------------------------------------------------------------------
\* The framework reads an event and answers it if it is a wake-up event.
FrameworkRead ==
  /\ E!FrameworkRead
  /\ answers' = IF Head(fmq).kind = "wake" THEN answers + 1 ELSE answers
  /\ UNCHANGED wlVars

\* The wake lock thread reads a number of answers, written as one count.
AckRead(n) ==
  /\ n <= answers
  /\ answers' = answers - n
  /\ UNCHANGED <<evVars, init>>
  /\ W!AckRead(n)

HandleWakelocks ==
  /\ UNCHANGED <<evVars, answers, init>>
  /\ W!TimeOut \/ W!BeginRead \/ W!ReadTimesOut \/ W!ThreadExit

-----------------------------------------------------------------------------
(* initializeCommon.                                                       *)

StopFlag == E!StopFlag /\ W!StopThreads /\ UNCHANGED answers

Drain == E!Drain /\ UNCHANGED <<wlVars, answers>>

\* Both threads are joined, then resetSharedWakelock.
Join == E!Join /\ W!InitReset /\ UNCHANGED answers

\* A sensor thread leaves postEvents only after the ScopedWakelock is gone.
Restart ==
  /\ \A p \in Posters : scoped[p] = "none"
  /\ E!Restart
  /\ W!StartThreads
  /\ answers' = 0

-----------------------------------------------------------------------------
Init == E!Init /\ W!Init /\ answers = 0

Next ==
  \/ \E p \in Posters : \/ CreateScoped(p)
                        \/ EnterPost(p)
                        \/ \E batch \in Batches : Commit(p, batch)
                        \/ DestroyScoped(p)
  \/ WriteFails
  \/ HandlePendingWrites
  \/ FrameworkRead
  \/ \E n \in 1..MaxUnacked : AckRead(n)
  \/ HandleWakelocks
  \/ UNCHANGED <<evVars, answers, init>> /\ W!Tick
  \/ StopFlag \/ Drain \/ Join \/ Restart

vars == <<threadsRun, init, evVars, wlVars, answers>>

Spec == Init /\ [][Next]_vars

-----------------------------------------------------------------------------

\* The variables of both components and the number of answers under way keep their types.
TypeOK == E!TypeOK /\ W!TypeOK /\ answers \in Nat

Unread == E!NumWakeup(fmq) > 0
          \/ \E b \in DOMAIN E!Unwritten : E!NumWakeup(E!Unwritten[b].events) > 0

\* "the HalProxy will handle holding the wake lock, if necessary, until the
\* framework has successfully processed any wakeup events" (V2_0/SubHal.h:60-61): while
\* the threads run and no timeout has struck, a wake-up event on its way keeps
\* the wake lock held.
LockedUntilRead == threadsRun /\ ~cutShort /\ Unread => kernelLock = "held"

\* The event path gives back exactly the references of the wake-up events that
\* are handled or dropped, as WakelockRefCounter takes for granted of its users.
ImplementsWakelock == W!Safe

=============================================================================
