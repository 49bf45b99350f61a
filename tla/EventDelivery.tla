---------------------------- MODULE EventDelivery ----------------------------
(***************************************************************************)
(* How an event posted by a sub-HAL reaches the framework                  *)
(* (multihal/2.X/HalProxy.cpp): the batch goes to the event FMQ as far as  *)
(* it fits, the rest waits in mPendingWriteEventsQueue for a background    *)
(* thread that writes it with a blocking write and drops it when that      *)
(* fails; initializeCommon stops the thread, empties everything and starts *)
(* again on a new FMQ.                                                     *)
(*                                                                         *)
(* Every region under mEventQueueWriteMutex is one action, but for one:    *)
(* the background thread that found nothing to do still owns the mutex     *)
(* until it blocks in the condition variable ("dozing"), and stopThreads   *)
(* notifies without the mutex.                                             *)
(***************************************************************************)
EXTENDS Integers, Sequences, FiniteSets

CONSTANTS
  Posters,      \* sub-HAL threads
  Batches,      \* what they post: sequences over {"wake", "plain"}
  FmqCapacity,  \* getQuantumCount of the event FMQ
  MaxPending,   \* kMaxSizePendingWriteEventsQueue
  MaxPosted,    \* no call of postEvents begins when this many were posted
  MaxSessions   \* bound on the number of initialize calls

ASSUME DeliveryAssumption ==
  /\ Batches \subseteq Seq({"wake", "plain"}) \ {<<>>}
  /\ FmqCapacity \in Nat \ {0}
  /\ MaxPending \in Nat
  /\ MaxPosted \in Nat
  /\ MaxSessions \in Nat

VARIABLES
  threadsRun,   \* mThreadsRun
  fmq,          \* the event FMQ
  pending,      \* mPendingWriteEventsQueue
  sizePending,  \* mSizePendingWriteEventsQueue
  pwThread,     \* mPendingWritesThread
  checked,      \* session in which a poster passed areThreadsRunning, 0 if none
  init,         \* the thread that runs initializeCommon
  session,      \* number of initialize calls so far
  posted,       \* number of events posted so far, the id of the last one
  delivered     \* history: the ids the framework has read

vars == <<threadsRun, fmq, pending, sizePending, pwThread, checked, init, session, posted, delivered>>

Event == [id : Nat, kind : {"wake", "plain"}, session : Nat]

Least(a, b) == IF a <= b THEN a ELSE b

\* countNumWakeupEvents, and the count that processEvents makes.
NumWakeup(events) == Cardinality({i \in DOMAIN events : events[i].kind = "wake"})

\* The events of a batch are numbered on, in the order of the batch.
Stamped(batch, s) ==
  [i \in 1..Len(batch) |-> [id |-> posted + i, kind |-> batch[i], session |-> s]]

-----------------------------------------------------------------------------
(* Sub-HAL threads: HalProxyCallback::postEvents.                          *)

\* The call passes the areThreadsRunning check.
EnterPost(p) ==
  /\ checked[p] = 0
  /\ threadsRun
  /\ posted < MaxPosted
  /\ checked' = [checked EXCEPT ![p] = session]
  /\ UNCHANGED <<threadsRun, fmq, pending, sizePending, pwThread, init, session, posted, delivered>>

\* Mistaken variant: tries the FMQ even while older events are pending.
FitsPastPending(n) == Least(n, FmqCapacity - Len(fmq))

\* How many of n events go to the FMQ at once: none while older ones are pending.
Fits(n) == IF pending = <<>> THEN Least(n, FmqCapacity - Len(fmq)) ELSE 0

HasRoom(n) == sizePending + n <= MaxPending

\* Mistaken variant: forgets the notification.
NotNotified(pc) == pc

\* notify_one on mEventQueueWriteCV.
Notified(pc) == IF pc = "asleep" THEN "check" ELSE pc

\* postEventsToMessageQueue.  The count is taken whatever becomes of the
\* events; those with no room in the pending queue either are dropped.
Commit(p, batch) ==
  LET events == Stamped(batch, checked[p])
      fits   == Fits(Len(events))
      left   == SubSeq(events, fits + 1, Len(events))
      queued == left # <<>> /\ HasRoom(Len(left))
  IN /\ checked[p] # 0
     /\ pwThread # "dozing"
     /\ checked' = [checked EXCEPT ![p] = 0]
     /\ posted' = posted + Len(batch)
     /\ fmq' = fmq \o SubSeq(events, 1, fits)
     /\ IF queued
        THEN /\ pending' = Append(pending, [events |-> left, numWakeup |-> NumWakeup(events)])
             /\ sizePending' = sizePending + Len(left)
             /\ pwThread' = Notified(pwThread)
        ELSE UNCHANGED <<pending, sizePending, pwThread>>
     /\ UNCHANGED <<threadsRun, init, session, delivered>>

-----------------------------------------------------------------------------
(* handlePendingWrites.                                                    *)

\* What one writeBlocking of the front batch writes.
NumToWrite == Least(Len(Head(pending).events), FmqCapacity)

\* Mistaken variant: a wait without a predicate.
PwCheckOnce ==
  /\ pwThread = "check"
  /\ pwThread' = IF threadsRun THEN "writing" ELSE "exited"
  /\ UNCHANGED <<threadsRun, fmq, pending, sizePending, checked, init, session, posted,
                 delivered>>

\* The loop and the predicate of the wait look at mThreadsRun and the queue.
PwCheck ==
  /\ pwThread = "check"
  /\ pwThread' = IF ~threadsRun THEN "exited"
                 ELSE IF pending = <<>> THEN "dozing" ELSE "writing"
  /\ UNCHANGED <<threadsRun, fmq, pending, sizePending, checked, init, session, posted, delivered>>

\* The wait blocks and releases the mutex.
PwSleep ==
  /\ pwThread = "dozing"
  /\ pwThread' = "asleep"
  /\ UNCHANGED <<threadsRun, fmq, pending, sizePending, checked, init, session, posted, delivered>>

\* A condition variable may wake up for no reason.
PwSpuriousWake ==
  /\ pwThread = "asleep"
  /\ pwThread' = "check"
  /\ UNCHANGED <<threadsRun, fmq, pending, sizePending, checked, init, session, posted, delivered>>

\* writeBlocking succeeds, without the mutex.
WriteSucceeds ==
  /\ pwThread = "writing"
  /\ Len(fmq) + NumToWrite <= FmqCapacity
  /\ fmq' = fmq \o SubSeq(Head(pending).events, 1, NumToWrite)
  /\ pwThread' = "retire"
  /\ UNCHANGED <<threadsRun, pending, sizePending, checked, init, session,
                 posted, delivered>>

\* The wake lock references given back when the write of the front batch failed.
GivenBack ==
  IF Len(Head(pending).events) > FmqCapacity
  THEN NumWakeup(SubSeq(Head(pending).events, 1, FmqCapacity))
  ELSE Head(pending).numWakeup

\* writeBlocking gave up after kPendingWriteTimeoutNs; the events are dropped.
WriteFails ==
  /\ pwThread = "writing"
  /\ pwThread' = "retire"
  /\ UNCHANGED <<threadsRun, fmq, pending, sizePending, checked, init, session, posted,
                 delivered>>

\* Mistaken variants: a batch that was only partly written is popped too, ...
AfterRetirePopped == Tail(pending)

\* ... and one that fits the FMQ exactly is not popped.
AfterRetireKept ==
  LET front == Head(pending).events IN
  IF Len(front) >= FmqCapacity THEN pending ELSE Tail(pending)

\* The pending queue without what the last writeBlocking was about.
AfterRetire ==
  LET front == Head(pending).events IN
  IF Len(front) > FmqCapacity
  THEN <<[events |-> SubSeq(front, FmqCapacity + 1, Len(front)),
          numWakeup |-> Head(pending).numWakeup]>> \o Tail(pending)
  ELSE Tail(pending)

\* The mutex is taken again: the events written or dropped leave the queue.
Retire ==
  /\ pwThread = "retire"
  /\ sizePending' = sizePending - NumToWrite
  /\ pending' = AfterRetire
  /\ pwThread' = "check"
  /\ UNCHANGED <<threadsRun, fmq, checked, init, session, posted, delivered>>

-----------------------------------------------------------------------------
\* The framework reads one event.
FrameworkRead ==
  /\ init = "idle"
  /\ fmq # <<>>
  /\ delivered' = Append(delivered, Head(fmq).id)
  /\ fmq' = Tail(fmq)
  /\ UNCHANGED <<threadsRun, pending, sizePending, pwThread, checked, init, session, posted>>

-----------------------------------------------------------------------------
(* initializeCommon.                                                       *)

\* stopThreads: the flag.
StopFlag ==
  /\ init = "idle"
  /\ session < MaxSessions
  /\ threadsRun' = FALSE
  /\ init' = "draining"
  /\ UNCHANGED <<fmq, pending, sizePending, pwThread, checked, session, posted,
                 delivered>>

\* stopThreads: reads the FMQ empty to let a blocked write go on, and notifies.
Drain ==
  /\ init = "draining"
  /\ fmq' = <<>>
  /\ pwThread' = Notified(pwThread)
  /\ init' = "joining"
  /\ UNCHANGED <<threadsRun, pending, sizePending, checked, session, posted,
                 delivered>>

\* stopThreads: join.
Join ==
  /\ init = "joining"
  /\ pwThread = "exited"
  /\ init' = "disabling"
  /\ UNCHANGED <<threadsRun, fmq, pending, sizePending, pwThread, checked, session, posted, delivered>>

\* Mistaken variant: does not wait for calls of postEvents to return.
RestartAtOnce ==
  /\ init = "disabling"
  /\ pending' = <<>>
  /\ sizePending' = 0
  /\ fmq' = <<>>
  /\ threadsRun' = TRUE
  /\ pwThread' = "check"
  /\ session' = session + 1
  /\ init' = "idle"
  /\ UNCHANGED <<checked, posted, delivered>>

\* disableAllSensors returns when no sensor thread is in postEvents any more:
\* Sensor::activate(false) needs mRunMutex, which run holds while it posts
\* (multihal/Sensor.cpp:72-79, 103-125).  Then everything is cleared, the new
\* FMQ put in place and the threads are started.
Restart ==
  /\ init = "disabling"
  /\ \A p \in Posters : checked[p] = 0
  /\ pending' = <<>>
  /\ sizePending' = 0
  /\ fmq' = <<>>
  /\ threadsRun' = TRUE
  /\ pwThread' = "check"
  /\ session' = session + 1
  /\ init' = "idle"
  /\ UNCHANGED <<checked, posted, delivered>>

-----------------------------------------------------------------------------
\* The state right after the first initialize.
Init ==
  /\ threadsRun = TRUE
  /\ fmq = <<>>
  /\ pending = <<>>
  /\ sizePending = 0
  /\ pwThread = "check"
  /\ checked = [p \in Posters |-> 0]
  /\ init = "idle"
  /\ session = 1
  /\ posted = 0
  /\ delivered = <<>>

HandlePendingWrites == PwCheck \/ PwSleep \/ WriteSucceeds \/ WriteFails \/ Retire

InitializeCommon == StopFlag \/ Drain \/ Join \/ Restart

Next ==
  \/ \E p \in Posters : EnterPost(p) \/ \E batch \in Batches : Commit(p, batch)
  \/ HandlePendingWrites
  \/ PwSpuriousWake
  \/ FrameworkRead
  \/ InitializeCommon

Safe == Init /\ [][Next]_vars

\* The background thread is scheduled and initializeCommon goes on once begun.
\* A call of postEvents under way returns.  The framework need not read, nobody
\* need begin to post, no wake-up need be spurious.
Fairness ==
  /\ WF_vars(HandlePendingWrites)
  /\ \A p \in Posters : WF_vars(\E batch \in Batches : Commit(p, batch))
  /\ WF_vars(Drain \/ Join \/ Restart)

Spec == Safe /\ Fairness

-----------------------------------------------------------------------------
TypeOK ==
  /\ threadsRun \in BOOLEAN
  /\ fmq \in Seq(Event)
  /\ Len(fmq) <= FmqCapacity
  /\ pending \in Seq([events : Seq(Event) \ {<<>>}, numWakeup : Nat])
  /\ sizePending \in Int
  /\ pwThread \in {"check", "dozing", "asleep", "writing", "retire", "exited"}
  /\ pwThread \in {"writing", "retire"} => pending # <<>>
  /\ checked \in [Posters -> Nat]
  /\ init \in {"idle", "draining", "joining", "disabling"}
  /\ session \in Nat
  /\ posted \in Nat
  /\ delivered \in Seq(Nat)

\* The pending queue without events that were already written or dropped.
Unwritten == IF pwThread = "retire" THEN AfterRetire ELSE pending

Ids(events) == {events[i].id : i \in DOMAIN events}
ReadIds == {delivered[i] : i \in DOMAIN delivered}

Before(A, B) == \A a \in A, b \in B : a < b
Increasing(events) == \A i, j \in DOMAIN events : i < j => events[i].id < events[j].id

\* The batches of a pending queue are in order, within and among each other, and
\* all after the ids in A.
OrderedAfter(A, queue) ==
  \A b \in DOMAIN queue :
    /\ Increasing(queue[b].events)
    /\ Before(A, Ids(queue[b].events))
    /\ \A c \in DOMAIN queue : b < c => Before(Ids(queue[b].events), Ids(queue[c].events))

\* What the framework has read, what it will read next and what waits behind
\* that are in the order of posting, each event at most once, although two
\* threads write the FMQ and one of them without the mutex
\* (HalProxy.cpp:535-563, 618-629).
InOrder ==
  /\ \A i, j \in DOMAIN delivered : i < j => delivered[i] < delivered[j]
  /\ Increasing(fmq)
  /\ Before(ReadIds, Ids(fmq))
  /\ OrderedAfter(ReadIds \cup Ids(fmq), Unwritten)

\* While the background thread writes without the mutex, nobody else does: the
\* FMQ allows one writer.
OneWriter == [][pwThread = "writing" /\ pwThread' = "writing" => Len(fmq') <= Len(fmq)]_vars

\* HalProxy.cpp:200-202: the queues are cleared safely, "and when we start
\* threads again we do not get new events until after initialize resets the
\* subhals": no event posted to an earlier session is in a queue of this one.
NoStaleEvents ==
  /\ \A i \in DOMAIN fmq : fmq[i].session = session
  /\ \A b \in DOMAIN pending : \A i \in DOMAIN pending[b].events :
       pending[b].events[i].session = session

\* The places of the pending queue: the i-th event of the b-th batch.
PendingSlots == UNION {{b} \X DOMAIN pending[b].events : b \in DOMAIN pending}

\* mSizePendingWriteEventsQueue is the number of events in the pending queue at
\* every step, although chunks are subtracted after the mutex was given up, and
\* the queue never holds more than kMaxSizePendingWriteEventsQueue.
PendingCounted == sizePending = Cardinality(PendingSlots) /\ sizePending <= MaxPending

\* No event stays in the pending queue: it is written, dropped when the write
\* times out, or cleared by initialize, whether or not the framework reads.
PendingDrains ==
  \A id \in 1..MaxPosted :
    (\E b \in DOMAIN pending : id \in Ids(pending[b].events))
      ~> ~ \E b \in DOMAIN pending : id \in Ids(pending[b].events)

\* "Stops all threads by setting the threads running flag to false and joining
\* to them" (HalProxy.h:276-278): a call of initialize returns.
InitializeReturns == init # "idle" ~> init = "idle"

-----------------------------------------------------------------------------
\* The events that are on their way to the framework.
InTransit == Ids(fmq) \cup UNION {Ids(Unwritten[b].events) : b \in DOMAIN Unwritten}

\* Two threads that write the FMQ, chunked writes, drops, draining and clearing
\* amount to one lossy queue that keeps the order.
Lossy == INSTANCE LossyFifo WITH sent <- posted, chan <- InTransit, delivered <- delivered
ImplementsLossyFifo == Lossy!Spec

=============================================================================
