---------------------------- MODULE EventPath_proof ----------------------------
(***************************************************************************)
(* Proofs about EventPath: each of its steps is a step of EventDelivery    *)
(* and, where batches are single events, of WakelockRefCounter, so that    *)
(* what is proved of the two components holds of the composition.          *)
(***************************************************************************)
EXTENDS EventPath, FiniteSetTheorems, TLAPS

\* The proofs of the components, under the names of the composition.
EP == INSTANCE EventDelivery_proof
WP == INSTANCE WakelockRefCounter_proof
  WITH Owners <- Posters,
       init <- IF init = "idle" THEN "idle"
               ELSE IF init = "disabling" THEN "reset" ELSE "joining"

\* What the sensors of the Bosch sub-HAL post (multihal/Sensor.cpp:95, 119, 139).
SingleEvents == \A batch \in Batches : Len(batch) = 1

-----------------------------------------------------------------------------
(* The components and their proofs speak of the same steps.                *)

LEMMA WakeCountsType == WakeCounts \subseteq Nat /\ 0 \notin WakeCounts
<1>1. ASSUME NEW batch \in Batches PROVE WakeCount(batch) \in Nat
  <2>1. batch \in Seq({"wake", "plain"})
    BY PathAssumption
  <2>2. IsFiniteSet(1..Len(batch)) /\ DOMAIN batch = 1..Len(batch)
    BY <2>1, FS_Interval
  <2>3. IsFiniteSet({i \in DOMAIN batch : batch[i] = "wake"})
    BY <2>2, FS_Subset
  <2> QED
    BY <2>3, FS_CardinalityType DEF WakeCount
<1> QED
  BY <1>1 DEF WakeCounts

LEMMA SameCardinality ==
  \A S : /\ E!Cardinality(S) = Cardinality(S) /\ EP!Cardinality(S) = Cardinality(S)
         /\ W!Cardinality(S) = Cardinality(S) /\ WP!Cardinality(S) = Cardinality(S)
<1>1. \A S : E!Cardinality(S) = Cardinality(S)
  BY DEF E!Cardinality, Cardinality
<1>2. \A S : EP!Cardinality(S) = Cardinality(S)
  BY DEF EP!Cardinality, Cardinality
<1>3. \A S : W!Cardinality(S) = Cardinality(S)
  BY DEF W!Cardinality, Cardinality
<1>4. \A S : WP!Cardinality(S) = Cardinality(S)
  BY DEF WP!Cardinality, Cardinality
<1> QED
  BY <1>1, <1>2, <1>3, <1>4

LEMMA SameDelivery ==
  /\ E!Init <=> EP!Init
  /\ \A p : E!EnterPost(p) <=> EP!EnterPost(p)
  /\ \A p, batch : E!Commit(p, batch) <=> EP!Commit(p, batch)
  /\ E!PwCheck <=> EP!PwCheck
  /\ E!PwSleep <=> EP!PwSleep
  /\ E!PwSpuriousWake <=> EP!PwSpuriousWake
  /\ E!WriteSucceeds <=> EP!WriteSucceeds
  /\ E!WriteFails <=> EP!WriteFails
  /\ E!Retire <=> EP!Retire
  /\ E!FrameworkRead <=> EP!FrameworkRead
  /\ E!StopFlag <=> EP!StopFlag
  /\ E!Drain <=> EP!Drain
  /\ E!Join <=> EP!Join
  /\ E!Restart <=> EP!Restart
<1>1. E!Init <=> EP!Init
  BY DEF E!Init, EP!Init
<1>2. \A p : E!EnterPost(p) <=> EP!EnterPost(p)
  BY DEF E!EnterPost, EP!EnterPost
<1>3. \A p, batch : E!Commit(p, batch) <=> EP!Commit(p, batch)
  BY DEF E!Commit, EP!Commit, E!Stamped, EP!Stamped, E!Fits, EP!Fits, E!HasRoom, EP!HasRoom,
         E!Least, EP!Least, E!NumWakeup, EP!NumWakeup, E!Notified, EP!Notified,
         E!Cardinality, EP!Cardinality, E!IsFiniteSet, EP!IsFiniteSet
<1>4. E!PwCheck <=> EP!PwCheck
  BY DEF E!PwCheck, EP!PwCheck
<1>5. E!PwSleep <=> EP!PwSleep
  BY DEF E!PwSleep, EP!PwSleep
<1>6. E!PwSpuriousWake <=> EP!PwSpuriousWake
  BY DEF E!PwSpuriousWake, EP!PwSpuriousWake
<1>7. E!WriteSucceeds <=> EP!WriteSucceeds
  BY DEF E!WriteSucceeds, EP!WriteSucceeds, E!NumToWrite, EP!NumToWrite, E!Least, EP!Least
<1>8. E!WriteFails <=> EP!WriteFails
  BY DEF E!WriteFails, EP!WriteFails
<1>9. E!Retire <=> EP!Retire
  BY DEF E!Retire, EP!Retire, E!NumToWrite, EP!NumToWrite, E!Least, EP!Least, E!AfterRetire,
         EP!AfterRetire
<1>10. E!FrameworkRead <=> EP!FrameworkRead
  BY DEF E!FrameworkRead, EP!FrameworkRead
<1>11. E!StopFlag <=> EP!StopFlag
  BY DEF E!StopFlag, EP!StopFlag
<1>12. E!Drain <=> EP!Drain
  BY DEF E!Drain, EP!Drain, E!Notified, EP!Notified
<1>13. E!Join <=> EP!Join
  BY DEF E!Join, EP!Join
<1>14. E!Restart <=> EP!Restart
  BY DEF E!Restart, EP!Restart
<1> QED
  BY <1>1, <1>2, <1>3, <1>4, <1>5, <1>6, <1>7, <1>8, <1>9, <1>10, <1>11, <1>12, <1>13, <1>14

LEMMA SameWakelock ==
  /\ W!Init <=> WP!Init
  /\ \A o : W!CreateScoped(o) <=> WP!CreateScoped(o)
  /\ \A o, n : W!CountEvents(o, n) <=> WP!CountEvents(o, n)
  /\ \A o : W!DestroyScoped(o) <=> WP!DestroyScoped(o)
  /\ \A n : W!Decrement(n) <=> WP!Decrement(n)
  /\ \A n : W!DropPending(n) <=> WP!DropPending(n)
  /\ \A n : W!AckRead(n) <=> WP!AckRead(n)
  /\ W!TimeOut <=> WP!TimeOut
  /\ W!BeginRead <=> WP!BeginRead
  /\ W!ReadTimesOut <=> WP!ReadTimesOut
  /\ W!ThreadExit <=> WP!ThreadExit
  /\ W!StopThreads <=> WP!StopThreads
  /\ W!InitReset <=> WP!InitReset
  /\ W!StartThreads <=> WP!StartThreads
  /\ W!Tick <=> WP!Tick
<1>1. W!Init <=> WP!Init
  BY DEF W!Init, WP!Init
<1>2. \A o : W!CreateScoped(o) <=> WP!CreateScoped(o)
  BY DEF W!CreateScoped, WP!CreateScoped, W!Increment, WP!Increment
<1>3. \A o, n : W!CountEvents(o, n) <=> WP!CountEvents(o, n)
  BY DEF W!CountEvents, WP!CountEvents, W!Increment, WP!Increment
<1>4. \A o : W!DestroyScoped(o) <=> WP!DestroyScoped(o)
  BY DEF W!DestroyScoped, WP!DestroyScoped, W!Decrement, WP!Decrement, W!Least, WP!Least
<1>5. \A n : W!Decrement(n) <=> WP!Decrement(n)
  BY DEF W!Decrement, WP!Decrement, W!Least, WP!Least
<1>6. \A n : W!DropPending(n) <=> WP!DropPending(n)
  BY DEF W!DropPending, WP!DropPending, W!Decrement, WP!Decrement, W!Least, WP!Least
<1>7. \A n : W!AckRead(n) <=> WP!AckRead(n)
  BY DEF W!AckRead, WP!AckRead, W!Decrement, WP!Decrement, W!Least, WP!Least
<1>8. W!TimeOut <=> WP!TimeOut
  BY DEF W!TimeOut, WP!TimeOut, W!ResetSharedWakelock, WP!ResetSharedWakelock, W!Decrement,
         WP!Decrement, W!Least, WP!Least
<1>9. W!BeginRead <=> WP!BeginRead
  BY DEF W!BeginRead, WP!BeginRead
<1>10. W!ReadTimesOut <=> WP!ReadTimesOut
  BY DEF W!ReadTimesOut, WP!ReadTimesOut
<1>11. W!ThreadExit <=> WP!ThreadExit
  BY DEF W!ThreadExit, WP!ThreadExit, W!ResetSharedWakelock, WP!ResetSharedWakelock,
         W!Decrement, WP!Decrement, W!Least, WP!Least
<1>12. W!StopThreads <=> WP!StopThreads
  BY DEF W!StopThreads, WP!StopThreads, W!wlVars, WP!wlVars
<1>13. W!InitReset <=> WP!InitReset
  BY DEF W!InitReset, WP!InitReset, W!ResetSharedWakelock, WP!ResetSharedWakelock,
         W!Decrement, WP!Decrement, W!Least, WP!Least
<1>14. W!StartThreads <=> WP!StartThreads
  BY DEF W!StartThreads, WP!StartThreads
<1>15. W!Tick <=> WP!Tick
  BY DEF W!Tick, WP!Tick, W!Least, WP!Least
<1> QED
  BY <1>1, <1>2, <1>3, <1>4, <1>5, <1>6, <1>7, <1>8, <1>9, <1>10, <1>11, <1>12, <1>13,
     <1>14, <1>15

-----------------------------------------------------------------------------
(* Every step is a step of EventDelivery or leaves it alone.               *)

LEMMA DeliveryStep == [Next]_vars => [EP!Next]_(EP!vars)
<1> SUFFICES ASSUME [Next]_vars PROVE EP!Next \/ UNCHANGED EP!vars
  OBVIOUS
<1>1. ASSUME NEW p \in Posters, EnterPost(p) PROVE EP!Next
  BY <1>1, SameDelivery DEF EnterPost, EP!Next
<1>2. ASSUME NEW p \in Posters, NEW batch \in Batches, Commit(p, batch) PROVE EP!Next
  BY <1>2, SameDelivery DEF Commit, EP!Next
<1>3. CASE WriteFails
  BY <1>3, SameDelivery DEF WriteFails, EP!Next, EP!HandlePendingWrites
<1>4. CASE HandlePendingWrites
  BY <1>4, SameDelivery DEF HandlePendingWrites, EP!Next, EP!HandlePendingWrites
<1>5. CASE FrameworkRead
  BY <1>5, SameDelivery DEF FrameworkRead, EP!Next
<1>6. CASE StopFlag \/ Drain \/ Join \/ Restart
  BY <1>6, SameDelivery DEF StopFlag, Drain, Join, Restart, EP!Next, EP!InitializeCommon
<1>7. ASSUME NEW p \in Posters, CreateScoped(p) \/ DestroyScoped(p) PROVE UNCHANGED EP!vars
  BY <1>7 DEF CreateScoped, DestroyScoped, W!CreateScoped, W!DestroyScoped, evVars, EP!vars
<1>8. ASSUME NEW n \in 1..MaxUnacked, AckRead(n) PROVE UNCHANGED EP!vars
  BY <1>8 DEF AckRead, W!AckRead, evVars, EP!vars
<1>9. CASE HandleWakelocks
  BY <1>9
     DEF HandleWakelocks, W!TimeOut, W!BeginRead, W!ReadTimesOut, W!ThreadExit, evVars,
         EP!vars
<1>10. CASE UNCHANGED <<evVars, answers, init>> /\ W!Tick
  BY <1>10 DEF W!Tick, evVars, EP!vars
<1>11. CASE UNCHANGED vars
  BY <1>11 DEF vars, evVars, EP!vars
<1> QED
  BY <1>1, <1>2, <1>3, <1>4, <1>5, <1>6, <1>7, <1>8, <1>9, <1>10, <1>11 DEF Next

LEMMA OrderInit == Init => EP!OrderInv
BY PathAssumption, SameDelivery, EP!OrderInit DEF Init

LEMMA OrderNext == EP!OrderInv /\ [Next]_vars => EP!OrderInv'
BY PathAssumption, DeliveryStep, EP!OrderNext

-----------------------------------------------------------------------------
(* Batches of one event.                                                   *)

\* The wake-up events among some events, by their numbers.
WakeIds(events) == {events[i].id : i \in {j \in DOMAIN events : events[j].kind = "wake"}}
WakeOf(queue) == UNION {WakeIds(queue[b].events) : b \in DOMAIN queue}

\* The wake-up events that are on their way to the framework.
Waking == WakeIds(fmq) \cup WakeOf(EP!Unwritten)

\* The batches of a pending queue are single events with their own count.
Single(queue) ==
  \A b \in DOMAIN queue :
    /\ Len(queue[b].events) = 1
    /\ queue[b].numWakeup = EP!NumWakeup(queue[b].events)

\* Every wake-up event that is on its way, and every answer that nobody has
\* subtracted yet, is among those that were counted.
Owed == threadsRun => Cardinality(Waking) + answers <= unacked

PathInv ==
  /\ EP!OrderInv
  /\ WP!IInv
  /\ WP!HeldIffCounted
  /\ Single(pending)
  /\ answers \in Nat
  /\ unacked <= MaxUnacked
  /\ Owed

LEMMA WakeIdsIs ==
  ASSUME NEW s, NEW n
  PROVE  n \in WakeIds(s) <=> \E i \in DOMAIN s : s[i].kind = "wake" /\ n = s[i].id
BY DEF WakeIds

LEMMA WakeOfIs ==
  ASSUME NEW queue, NEW n
  PROVE  n \in WakeOf(queue) <=> \E b \in DOMAIN queue : n \in WakeIds(queue[b].events)
BY DEF WakeOf

LEMMA WakeIdsEmpty == WakeIds(<<>>) = {} /\ WakeOf(<<>>) = {}
BY DEF WakeIds, WakeOf

LEMMA WakeIdsConcat ==
  ASSUME NEW s \in Seq(EP!Event), NEW t \in Seq(EP!Event)
  PROVE  WakeIds(s \o t) = WakeIds(s) \cup WakeIds(t)
<1>1. /\ DOMAIN s = 1..Len(s) /\ DOMAIN t = 1..Len(t)
      /\ Len(s) \in Nat /\ Len(t) \in Nat
      /\ DOMAIN (s \o t) = 1..(Len(s) + Len(t))
      /\ \A i \in 1..Len(s) : (s \o t)[i] = s[i]
      /\ \A i \in 1..Len(t) : (s \o t)[Len(s) + i] = t[i]
  OBVIOUS
<1> DEFINE u == s \o t
<1> HIDE DEF u
<1>2. \A i \in DOMAIN u : i \in DOMAIN s \/ i - Len(s) \in DOMAIN t
  BY <1>1 DEF u
<1>3. ASSUME NEW n \in WakeIds(u) PROVE n \in WakeIds(s) \cup WakeIds(t)
  <2>1. PICK i \in DOMAIN u : u[i].kind = "wake" /\ n = u[i].id
    BY WakeIdsIs
  <2>2. CASE i \in DOMAIN s
    <3>1. u[i] = s[i]
      BY <2>2, <1>1 DEF u
    <3> QED
      BY <3>1, <2>1, <2>2, WakeIdsIs
  <2>3. CASE i - Len(s) \in DOMAIN t
    <3>1. PICK k \in DOMAIN t : k = i - Len(s)
      BY <2>3
    <3>2. i = Len(s) + k
      BY <3>1, <1>1, <2>1 DEF u
    <3>3. u[i] = t[k]
      BY <3>2, <1>1 DEF u
    <3> QED
      BY <3>3, <2>1, WakeIdsIs
  <2> QED
    BY <2>1, <2>2, <2>3, <1>2
<1>4. ASSUME NEW n \in WakeIds(s) PROVE n \in WakeIds(u)
  <2>1. PICK i \in DOMAIN s : s[i].kind = "wake" /\ n = s[i].id
    BY WakeIdsIs
  <2>2. i \in DOMAIN u /\ u[i] = s[i]
    BY <1>1 DEF u
  <2> QED
    BY <2>1, <2>2, WakeIdsIs
<1>5. ASSUME NEW n \in WakeIds(t) PROVE n \in WakeIds(u)
  <2>1. PICK i \in DOMAIN t : t[i].kind = "wake" /\ n = t[i].id
    BY WakeIdsIs
  <2>2. Len(s) + i \in DOMAIN u /\ u[Len(s) + i] = t[i]
    BY <1>1 DEF u
  <2> QED
    BY <2>1, <2>2, WakeIdsIs
<1> QED
  BY <1>3, <1>4, <1>5 DEF u

LEMMA WakeIdsPart ==
  ASSUME NEW s \in Seq(EP!Event), NEW m \in Nat, NEW n \in Nat, 1 <= m, n <= Len(s)
  PROVE  WakeIds(SubSeq(s, m, n)) \subseteq WakeIds(s)
<1> DEFINE u == SubSeq(s, m, n)
<1>1. \A i \in DOMAIN u : m + i - 1 \in DOMAIN s /\ u[i] = s[m + i - 1]
  OBVIOUS
<1> HIDE DEF u
<1>2. ASSUME NEW k \in WakeIds(u) PROVE k \in WakeIds(s)
  <2>1. PICK i \in DOMAIN u : u[i].kind = "wake" /\ k = u[i].id
    BY WakeIdsIs
  <2>2. PICK j \in DOMAIN s : u[i] = s[j]
    BY <1>1
  <2> QED
    BY <2>1, <2>2, WakeIdsIs
<1> QED
  BY <1>2 DEF u

\* Numbers that are on their way are finitely many.
LEMMA WakingFinite ==
  ASSUME EP!OrderInv
  PROVE  /\ Waking \subseteq EP!InTransit
         /\ IsFiniteSet(Waking) /\ Cardinality(Waking) \in Nat
<1>1. \A s : WakeIds(s) \subseteq EP!Ids(s)
  BY DEF WakeIds, EP!Ids
<1>2. Waking \subseteq EP!InTransit
  BY <1>1 DEF Waking, WakeOf, EP!InTransit
<1>3. EP!InTransit \subseteq 0..posted /\ posted \in Nat
  BY PathAssumption, EP!TransitFacts DEF EP!OrderInv, EP!TypeOK
<1>4. IsFiniteSet(0..posted)
  BY <1>3, FS_Interval
<1> QED
  BY <1>2, <1>3, <1>4, FS_Subset, FS_CardinalityType

LEMMA FewerWaking ==
  ASSUME NEW S, IsFiniteSet(S), NEW T, T \subseteq S
  PROVE  /\ Cardinality(S) \in Nat /\ Cardinality(T) \in Nat
         /\ Cardinality(T) <= Cardinality(S)
         /\ \A n \in S : n \notin T => Cardinality(T) <= Cardinality(S) - 1
<1>1. /\ IsFiniteSet(T) /\ Cardinality(T) <= Cardinality(S)
      /\ Cardinality(S) \in Nat /\ Cardinality(T) \in Nat
  BY FS_Subset, FS_CardinalityType
<1>2. ASSUME NEW n \in S, n \notin T PROVE Cardinality(T) <= Cardinality(S) - 1
  <2>1. IsFiniteSet(S \ {n}) /\ Cardinality(S \ {n}) = Cardinality(S) - 1
    BY FS_RemoveElement
  <2>2. T \subseteq S \ {n}
    BY <1>2
  <2> QED
    BY <2>1, <2>2, FS_Subset
<1> QED
  BY <1>1, <1>2

LEMMA OneMore ==
  ASSUME NEW S, IsFiniteSet(S), NEW x
  PROVE  /\ IsFiniteSet(S \cup {x}) /\ Cardinality(S \cup {x}) \in Nat
         /\ Cardinality(S \cup {x}) <= Cardinality(S) + 1
<1>1. Cardinality(S) \in Nat
  BY FS_CardinalityType
<1>2. CASE x \in S
  <2>1. S \cup {x} = S
    BY <1>2
  <2>2. Cardinality(S) <= Cardinality(S) + 1
    BY <1>1
  <2> QED
    BY <1>1, <2>1, <2>2
<1>3. CASE x \notin S
  <2>1. IsFiniteSet(S \cup {x}) /\ Cardinality(S \cup {x}) = Cardinality(S) + 1
    BY <1>3, FS_AddElement
  <2> QED
    BY <1>1, <2>1
<1> QED
  BY <1>2, <1>3

LEMMA NumWakeupOfOne ==
  ASSUME NEW S, NEW s \in Seq(S), Len(s) = 1
  PROVE  EP!NumWakeup(s) = IF s[1].kind = "wake" THEN 1 ELSE 0
<1> DEFINE W1 == {i \in DOMAIN s : s[i].kind = "wake"}
<1>1. DOMAIN s = {1}
  OBVIOUS
<1>2. EP!NumWakeup(s) = Cardinality(W1)
  BY SameCardinality DEF EP!NumWakeup
<1>3. W1 = IF s[1].kind = "wake" THEN {1} ELSE {}
  BY <1>1
<1>4. Cardinality({1}) = 1 /\ Cardinality({}) = 0
  BY FS_Singleton, FS_EmptySet
<1> HIDE DEF W1
<1> QED
  BY <1>2, <1>3, <1>4

\* A blocking write of a single event takes the whole front batch.
LEMMA FrontIsOne ==
  ASSUME EP!TypeOK, Single(pending), pending # <<>>
  PROVE  /\ pending \in Seq(EP!PendingBatch)
         /\ 1 \in DOMAIN pending /\ Head(pending) = pending[1]
         /\ Head(pending).events \in Seq(EP!Event) /\ Len(Head(pending).events) = 1
         /\ EP!NumToWrite = 1
         /\ SubSeq(Head(pending).events, 1, EP!NumToWrite) = Head(pending).events
         /\ EP!AfterRetire = Tail(pending)
         /\ EP!GivenBack = Head(pending).numWakeup
         /\ Head(pending).numWakeup = EP!NumWakeup(Head(pending).events)
<1>1. pending \in Seq(EP!PendingBatch)
  BY DEF EP!TypeOK, EP!PendingBatch
<1>2. 1 \in DOMAIN pending /\ Head(pending) = pending[1]
  BY <1>1
<1>3. Head(pending).events \in Seq(EP!Event)
  BY <1>1, <1>2, PathAssumption, EP!EntryType
<1>4. /\ Len(Head(pending).events) = 1
      /\ Head(pending).numWakeup = EP!NumWakeup(Head(pending).events)
  BY <1>2 DEF Single
<1>5. FmqCapacity \in Nat \ {0}
  BY PathAssumption
<1>6. EP!NumToWrite = 1
  <2>1. EP!NumToWrite = EP!Least(1, FmqCapacity)
    BY <1>4 DEF EP!NumToWrite
  <2>2. 1 <= FmqCapacity
    BY <1>5
  <2> QED
    BY <2>1, <2>2 DEF EP!Least
<1>7. EP!AfterRetire = Tail(pending) /\ EP!GivenBack = Head(pending).numWakeup
  BY <1>4, <1>5 DEF EP!AfterRetire, EP!GivenBack
<1>8. SubSeq(Head(pending).events, 1, 1) = Head(pending).events
  BY <1>3, <1>4
<1> QED
  BY <1>1, <1>2, <1>3, <1>4, <1>6, <1>7, <1>8

\* A posted event, and what it counts.
LEMMA StampedOne ==
  ASSUME NEW batch \in Batches, Len(batch) = 1, NEW s \in Nat, posted \in Nat
  PROVE  LET events == EP!Stamped(batch, s)
         IN /\ events \in Seq(EP!Event) \ {<<>>} /\ Len(events) = 1
            /\ SubSeq(events, 1, 0) = <<>> /\ SubSeq(events, 1, 1) = events
            /\ SubSeq(events, 2, 1) = <<>>
            /\ EP!NumWakeup(events) = WakeCount(batch)
            /\ WakeCount(batch) \in {0, 1}
            /\ WakeCount(batch) = 0 => WakeIds(events) = {}
            /\ WakeCount(batch) = 1 => \E id : WakeIds(events) = {id}
<1> DEFINE events == EP!Stamped(batch, s)
           W1 == {i \in DOMAIN batch : batch[i] = "wake"}
<1>1. events \in Seq(EP!Event) /\ Len(events) = 1
  BY PathAssumption, EP!StampedIs
<1>2. DOMAIN events = {1} /\ events # <<>>
  BY <1>1
<1>3. events[1].kind = batch[1]
  BY <1>2 DEF EP!Stamped
<1>4. DOMAIN batch = {1}
  BY PathAssumption
<1>5. W1 = IF batch[1] = "wake" THEN {1} ELSE {}
  BY <1>4
<1>6. Cardinality({1}) = 1 /\ Cardinality({}) = 0
  BY FS_Singleton, FS_EmptySet
<1>7. WakeCount(batch) = IF batch[1] = "wake" THEN 1 ELSE 0
  BY <1>5, <1>6 DEF WakeCount
<1>8. EP!NumWakeup(events) = IF events[1].kind = "wake" THEN 1 ELSE 0
  BY <1>1, NumWakeupOfOne
<1>9. WakeIds(events) = IF events[1].kind = "wake" THEN {events[1].id} ELSE {}
  BY <1>2 DEF WakeIds
<1>10. /\ SubSeq(events, 1, 0) = <<>> /\ SubSeq(events, 1, 1) = events
       /\ SubSeq(events, 2, 1) = <<>>
  BY <1>1
<1> HIDE DEF events
<1> QED
  BY <1>1, <1>2, <1>3, <1>7, <1>8, <1>9, <1>10 DEF events

\* A single event goes to the FMQ, to the pending queue or nowhere.
LEMMA CommitOne ==
  ASSUME EP!TypeOK, NEW p \in Posters, NEW batch \in Batches, Len(batch) = 1,
         EP!Commit(p, batch)
  PROVE  LET events == EP!Stamped(batch, checked[p])
             entry  == [events |-> events, numWakeup |-> EP!NumWakeup(events)]
         IN /\ checked[p] \in Nat /\ posted \in Nat
            /\ fmq' = fmq \/ fmq' = fmq \o events
            /\ \/ pending' = pending /\ pwThread' = pwThread
               \/ pending' = Append(pending, entry) /\ pwThread' = EP!Notified(pwThread)
<1> DEFINE events == EP!Stamped(batch, checked[p])
           left(f) == SubSeq(events, f + 1, Len(batch))
<1>1. checked[p] \in Nat /\ posted \in Nat
  BY DEF EP!TypeOK
<1>2. PICK fits \in 0..1, queued \in BOOLEAN :
        /\ fmq' = fmq \o SubSeq(events, 1, fits)
        /\ queued => /\ left(fits) # <<>>
                     /\ pending' = Append(pending, [events |-> left(fits),
                                                    numWakeup |-> EP!NumWakeup(events)])
                     /\ pwThread' = EP!Notified(pwThread)
        /\ ~queued => pending' = pending /\ pwThread' = pwThread
  BY PathAssumption, EP!CommitFacts
<1>3. /\ SubSeq(events, 1, 0) = <<>> /\ SubSeq(events, 1, 1) = events
      /\ SubSeq(events, 2, 1) = <<>>
  BY <1>1, StampedOne
<1>4. fmq \in Seq(EP!Event)
  BY DEF EP!TypeOK
<1> HIDE DEF events
<1>5. fits = 0 \/ fits = 1
  BY <1>2
<1>6. fmq \o <<>> = fmq
  BY <1>4
<1>7. fmq' = fmq \/ fmq' = fmq \o events
  BY <1>2, <1>3, <1>5, <1>6
<1>8. left(0) = events /\ left(1) = <<>>
  BY <1>3
<1>9. queued => left(fits) = events
  BY <1>2, <1>5, <1>8
<1>10. \/ pending' = pending /\ pwThread' = pwThread
       \/ /\ pending' = Append(pending, [events |-> events,
                                         numWakeup |-> EP!NumWakeup(events)])
          /\ pwThread' = EP!Notified(pwThread)
  BY <1>2, <1>9
<1> QED
  BY <1>1, <1>7, <1>10 DEF events

LEMMA SingleTail ==
  ASSUME NEW queue \in Seq(EP!PendingBatch), queue # <<>>, Single(queue)
  PROVE  Single(Tail(queue)) /\ Single(<<>>)
<1>1. \A b \in DOMAIN Tail(queue) : b + 1 \in DOMAIN queue /\ Tail(queue)[b] = queue[b + 1]
  OBVIOUS
<1> QED
  BY <1>1 DEF Single

LEMMA SingleAppend ==
  ASSUME NEW queue \in Seq(EP!PendingBatch), Single(queue),
         NEW entry \in EP!PendingBatch, Len(entry.events) = 1,
         entry.numWakeup = EP!NumWakeup(entry.events)
  PROVE  Single(Append(queue, entry))
<1> DEFINE longer == Append(queue, entry)
<1>1. \A b \in DOMAIN longer :
        (b \in DOMAIN queue /\ longer[b] = queue[b]) \/ longer[b] = entry
  OBVIOUS
<1> HIDE DEF longer
<1>2. Single(longer)
  BY <1>1 DEF Single
<1> QED
  BY <1>2 DEF longer

\* A posted event as an entry of the pending queue.
LEMMA EntryOne ==
  ASSUME NEW batch \in Batches, Len(batch) = 1, NEW s \in Nat, posted \in Nat
  PROVE  LET events == EP!Stamped(batch, s)
         IN [events |-> events, numWakeup |-> EP!NumWakeup(events)] \in EP!PendingBatch
BY StampedOne DEF EP!PendingBatch

LEMMA SingleNext ==
  ASSUME SingleEvents, EP!TypeOK, Single(pending), [EP!Next]_(EP!vars)
  PROVE  Single(pending')
<1> USE DEF EP!vars
<1>1. Single(<<>>)
  BY DEF Single
<1>2. ASSUME NEW p \in Posters, NEW batch \in Batches, EP!Commit(p, batch)
      PROVE  Single(pending')
  <2> DEFINE events == EP!Stamped(batch, checked[p])
             entry  == [events |-> events, numWakeup |-> EP!NumWakeup(events)]
  <2>1. /\ checked[p] \in Nat /\ posted \in Nat
        /\ pending' = pending \/ pending' = Append(pending, entry)
    BY <1>2, CommitOne DEF SingleEvents
  <2>2. entry \in EP!PendingBatch /\ Len(events) = 1
    BY <2>1, StampedOne, EntryOne DEF SingleEvents
  <2>3. pending \in Seq(EP!PendingBatch)
    BY DEF EP!TypeOK, EP!PendingBatch
  <2> HIDE DEF events
  <2>4. Single(Append(pending, entry))
    BY <2>2, <2>3, SingleAppend
  <2> QED
    BY <2>1, <2>4
<1>3. CASE EP!Retire
  <2>1. pending # <<>>
    BY <1>3 DEF EP!TypeOK, EP!Retire
  <2>2. pending' = Tail(pending) /\ pending \in Seq(EP!PendingBatch)
    BY <1>3, <2>1, FrontIsOne DEF EP!Retire
  <2> QED
    BY <2>1, <2>2, SingleTail
<1>4. CASE EP!Restart
  BY <1>1, <1>4 DEF EP!Restart
<1>5. ASSUME NEW p \in Posters, EP!EnterPost(p) PROVE Single(pending')
  BY <1>5 DEF EP!EnterPost
<1>6. CASE EP!PwCheck \/ EP!PwSleep \/ EP!PwSpuriousWake
  BY <1>6 DEF EP!PwCheck, EP!PwSleep, EP!PwSpuriousWake
<1>7. CASE EP!WriteSucceeds \/ EP!WriteFails \/ EP!FrameworkRead
  BY <1>7 DEF EP!WriteSucceeds, EP!WriteFails, EP!FrameworkRead
<1>8. CASE EP!StopFlag \/ EP!Drain \/ EP!Join
  BY <1>8 DEF EP!StopFlag, EP!Drain, EP!Join
<1>9. CASE UNCHANGED EP!vars
  BY <1>9
<1> QED
  BY <1>2, <1>3, <1>4, <1>5, <1>6, <1>7, <1>8, <1>9
     DEF EP!Next, EP!HandlePendingWrites, EP!InitializeCommon

-----------------------------------------------------------------------------
(* The wake-up events on their way, step by step.                          *)

LEMMA WakingIs ==
  \A n : n \in Waking <=> n \in WakeIds(fmq) \/ n \in WakeOf(EP!Unwritten)
BY DEF Waking

LEMMA UnwrittenKept ==
  ASSUME pending' = pending, pwThread' = pwThread
  PROVE  EP!Unwritten' = EP!Unwritten
BY DEF EP!Unwritten, EP!AfterRetire

LEMMA WakingKept ==
  ASSUME fmq' = fmq \/ fmq' = <<>>,
         EP!Unwritten' = EP!Unwritten \/ EP!Unwritten' = <<>>
  PROVE  Waking' \subseteq Waking
BY WakeIdsEmpty DEF Waking

LEMMA WakeOfAppend ==
  ASSUME NEW queue \in Seq(EP!PendingBatch), NEW entry \in EP!PendingBatch
  PROVE  WakeOf(Append(queue, entry)) \subseteq WakeOf(queue) \cup WakeIds(entry.events)
<1> DEFINE longer == Append(queue, entry)
<1>1. \A b \in DOMAIN longer :
        (b \in DOMAIN queue /\ longer[b] = queue[b]) \/ longer[b] = entry
  OBVIOUS
<1> HIDE DEF longer
<1>2. WakeOf(longer) \subseteq WakeOf(queue) \cup WakeIds(entry.events)
  BY <1>1, WakeOfIs
<1> QED
  BY <1>2 DEF longer

LEMMA WakeOfTail ==
  ASSUME NEW queue \in Seq(EP!PendingBatch), queue # <<>>
  PROVE  /\ WakeOf(Tail(queue)) \subseteq WakeOf(queue)
         /\ WakeIds(queue[1].events) \subseteq WakeOf(queue)
         /\ \A n \in WakeOf(Tail(queue)) :
              \E b \in DOMAIN queue : 1 < b /\ n \in WakeIds(queue[b].events)
<1>1. /\ 1 \in DOMAIN queue
      /\ \A b \in DOMAIN Tail(queue) :
           /\ 1 < b + 1 /\ b + 1 \in DOMAIN queue
           /\ Tail(queue)[b] = queue[b + 1]
  OBVIOUS
<1>2. ASSUME NEW n \in WakeOf(Tail(queue))
      PROVE  \E b \in DOMAIN queue : 1 < b /\ n \in WakeIds(queue[b].events)
  <2>1. PICK b \in DOMAIN Tail(queue) : n \in WakeIds(Tail(queue)[b].events)
    BY WakeOfIs
  <2>2. PICK c : c = b + 1
    OBVIOUS
  <2>3. 1 < c /\ c \in DOMAIN queue /\ n \in WakeIds(queue[c].events)
    BY <1>1, <2>1, <2>2
  <2> QED
    BY <2>3
<1> QED
  BY <1>1, <1>2, WakeOfIs

LEMMA WakingCommit ==
  ASSUME EP!TypeOK, NEW p \in Posters, NEW batch \in Batches, Len(batch) = 1,
         EP!Commit(p, batch)
  PROVE  Waking' \subseteq Waking \cup WakeIds(EP!Stamped(batch, checked[p]))
<1> DEFINE events == EP!Stamped(batch, checked[p])
           entry  == [events |-> events, numWakeup |-> EP!NumWakeup(events)]
<1>1. /\ checked[p] \in Nat /\ posted \in Nat
      /\ fmq' = fmq \/ fmq' = fmq \o events
      /\ \/ pending' = pending /\ pwThread' = pwThread
         \/ pending' = Append(pending, entry) /\ pwThread' = EP!Notified(pwThread)
  BY CommitOne
<1>2. events \in Seq(EP!Event) /\ entry \in EP!PendingBatch /\ entry.events = events
  BY <1>1, StampedOne, EntryOne
<1>3. fmq \in Seq(EP!Event)
  BY DEF EP!TypeOK
<1>4. EP!Unwritten \in Seq(EP!PendingBatch)
  BY PathAssumption, EP!UnwrittenType
<1> HIDE DEF events, entry
<1>5. WakeIds(fmq') \subseteq WakeIds(fmq) \cup WakeIds(events)
  BY <1>1, <1>2, <1>3, WakeIdsConcat
<1>6. EP!Unwritten' = EP!Unwritten \/ EP!Unwritten' = Append(EP!Unwritten, entry)
  <2>1. CASE pending' = pending /\ pwThread' = pwThread
    BY <2>1, UnwrittenKept
  <2>2. CASE pending' = Append(pending, entry) /\ pwThread' = EP!Notified(pwThread)
    BY <2>2, <1>2, PathAssumption, EP!UnwrittenAppended
  <2> QED
    BY <1>1, <2>1, <2>2 DEF entry
<1>7. WakeOf(EP!Unwritten') \subseteq WakeOf(EP!Unwritten) \cup WakeIds(events)
  BY <1>2, <1>4, <1>6, WakeOfAppend
<1> QED
  BY <1>5, <1>7 DEF Waking, events

\* A write moves the event to the FMQ, or makes it disappear.
LEMMA WakingWrite ==
  ASSUME EP!OrderInv, Single(pending), EP!WriteSucceeds \/ EP!WriteFails
  PROVE  /\ Waking' \subseteq Waking
         /\ WakeIds(Head(pending).events) \subseteq Waking
         /\ EP!WriteFails => WakeIds(Head(pending).events) \cap Waking' = {}
<1> DEFINE front == Head(pending).events
<1>1. EP!TypeOK /\ pending # <<>> /\ pwThread = "writing"
  BY DEF EP!OrderInv, EP!TypeOK, EP!WriteSucceeds, EP!WriteFails
<1>2. /\ pending \in Seq(EP!PendingBatch) /\ front = pending[1].events
      /\ 1 \in DOMAIN pending /\ front \in Seq(EP!Event)
      /\ SubSeq(front, 1, EP!NumToWrite) = front
      /\ EP!AfterRetire = Tail(pending)
  BY <1>1, FrontIsOne
<1>3. EP!Unwritten = pending
  BY <1>1 DEF EP!Unwritten
<1>4. EP!AfterRetire' = EP!AfterRetire /\ pwThread' = "retire"
  BY DEF EP!WriteSucceeds, EP!WriteFails, EP!AfterRetire
<1>5. EP!Unwritten' = Tail(pending)
  BY <1>2, <1>4 DEF EP!Unwritten
<1>6. fmq \in Seq(EP!Event) /\ fmq' = (IF EP!WriteFails THEN fmq ELSE fmq \o front)
  BY <1>1, <1>2 DEF EP!WriteSucceeds, EP!WriteFails, EP!TypeOK
<1> HIDE DEF front
<1>7. WakeIds(fmq') \subseteq WakeIds(fmq) \cup WakeIds(front)
  BY <1>2, <1>6, WakeIdsConcat
<1>8. /\ WakeOf(Tail(pending)) \subseteq WakeOf(pending)
      /\ WakeIds(front) \subseteq WakeOf(pending)
      /\ \A n \in WakeOf(Tail(pending)) :
           \E b \in DOMAIN pending : 1 < b /\ n \in WakeIds(pending[b].events)
  BY <1>1, <1>2, WakeOfTail
<1>9. Waking' \subseteq Waking /\ WakeIds(front) \subseteq Waking
  BY <1>3, <1>5, <1>7, <1>8 DEF Waking
<1>10. ASSUME EP!WriteFails, NEW n \in WakeIds(front) PROVE n \notin Waking'
  <2>1. \A s : WakeIds(s) \subseteq EP!Ids(s)
    BY DEF WakeIds, EP!Ids
  <2>2. /\ EP!Before(EP!ReadIds \cup EP!Ids(fmq), EP!Ids(pending[1].events))
        /\ \A c \in DOMAIN pending :
             1 < c => EP!Before(EP!Ids(pending[1].events), EP!Ids(pending[c].events))
    BY <1>2, <1>3 DEF EP!OrderInv, EP!InOrder, EP!OrderedAfter
  <2>3. n \in Nat /\ n \in EP!Ids(pending[1].events)
    BY <1>2, <2>1, EP!IdsType, PathAssumption
  <2>4. n \notin WakeIds(fmq)
    BY <2>1, <2>2, <2>3 DEF EP!Before
  <2>5. ASSUME NEW c \in DOMAIN pending, 1 < c PROVE n \notin WakeIds(pending[c].events)
    BY <2>1, <2>2, <2>3, <2>5 DEF EP!Before
  <2>6. n \notin WakeOf(Tail(pending))
    BY <1>8, <2>5
  <2> QED
    BY <1>5, <1>6, <1>10, <2>4, <2>6 DEF Waking
<1> QED
  BY <1>9, <1>10 DEF front

\* An event that is read is on its way no more.
LEMMA WakingRead ==
  ASSUME EP!OrderInv, EP!FrameworkRead
  PROVE  /\ Waking' \subseteq Waking
         /\ Head(fmq).kind = "wake" =>
              Head(fmq).id \in Waking /\ Head(fmq).id \notin Waking'
<1>1. fmq \in Seq(EP!Event) /\ fmq # <<>> /\ fmq' = Tail(fmq)
  BY DEF EP!OrderInv, EP!TypeOK, EP!FrameworkRead
<1>2. /\ 1 \in DOMAIN fmq /\ Head(fmq) = fmq[1] /\ fmq[1].id \in Nat
      /\ \A i \in DOMAIN Tail(fmq) :
           \E j \in DOMAIN fmq : 1 < j /\ Tail(fmq)[i] = fmq[j] /\ fmq[j].id \in Nat
  <2>1. 1 \in DOMAIN fmq /\ Head(fmq) = fmq[1]
    BY <1>1
  <2>2. \A i \in DOMAIN fmq : fmq[i].id \in Nat
    BY <1>1, PathAssumption, EP!IdsType
  <2>3. ASSUME NEW i \in DOMAIN Tail(fmq)
        PROVE  \E j \in DOMAIN fmq : 1 < j /\ Tail(fmq)[i] = fmq[j]
    <3>1. 1 < i + 1 /\ i + 1 \in DOMAIN fmq /\ Tail(fmq)[i] = fmq[i + 1]
      BY <1>1
    <3> QED
      BY <3>1
  <2> QED
    BY <2>1, <2>2, <2>3
<1>3. WakeIds(fmq') \subseteq WakeIds(fmq)
  <2>1. ASSUME NEW n \in WakeIds(Tail(fmq)) PROVE n \in WakeIds(fmq)
    <3>1. PICK i \in DOMAIN Tail(fmq) : Tail(fmq)[i].kind = "wake" /\ n = Tail(fmq)[i].id
      BY <2>1 DEF WakeIds
    <3>2. PICK j \in DOMAIN fmq : Tail(fmq)[i] = fmq[j]
      BY <1>2
    <3> QED
      BY <3>1, <3>2, WakeIdsIs
  <2> QED
    BY <1>1, <2>1
<1>4. EP!Unwritten' = EP!Unwritten
  BY UnwrittenKept DEF EP!FrameworkRead
<1>5. ASSUME fmq[1].kind = "wake" PROVE fmq[1].id \in Waking /\ fmq[1].id \notin Waking'
  <2>1. fmq[1].id \in WakeIds(fmq)
    BY <1>2, <1>5, WakeIdsIs
  <2>2. EP!Before(EP!Ids(fmq), EP!TransitOf(EP!Unwritten)) /\ EP!Increasing(fmq)
    BY PathAssumption, EP!TransitFacts DEF EP!OrderInv, EP!InOrder
  <2>3. \A j \in DOMAIN fmq : 1 < j => fmq[1].id < fmq[j].id
    BY <1>2, <2>2 DEF EP!Increasing
  <2>4. fmq[1].id \notin WakeIds(Tail(fmq))
    <3>1. ASSUME NEW i \in DOMAIN Tail(fmq) PROVE fmq[1].id # Tail(fmq)[i].id
      <4>1. PICK j \in DOMAIN fmq : 1 < j /\ Tail(fmq)[i] = fmq[j] /\ fmq[j].id \in Nat
        BY <1>2, <3>1
      <4>2. fmq[1].id < fmq[j].id
        BY <2>3, <4>1
      <4> QED
        BY <1>2, <4>1, <4>2
    <3>2. ASSUME fmq[1].id \in WakeIds(Tail(fmq)) PROVE FALSE
      <4>1. PICK i \in DOMAIN Tail(fmq) : fmq[1].id = Tail(fmq)[i].id
        BY <3>2 DEF WakeIds
      <4> QED
        BY <3>1, <4>1
    <3> QED
      BY <3>2
  <2>5. fmq[1].id \notin WakeOf(EP!Unwritten)
    <3>1. WakeOf(EP!Unwritten) \subseteq EP!TransitOf(EP!Unwritten)
      BY DEF WakeOf, EP!TransitOf, WakeIds, EP!Ids
    <3>2. fmq[1].id \in EP!Ids(fmq)
      BY <1>2 DEF EP!Ids
    <3> QED
      BY <1>2, <2>2, <3>1, <3>2 DEF EP!Before
  <2> QED
    BY <1>1, <1>4, <2>1, <2>4, <2>5 DEF Waking
<1>6. Waking' \subseteq Waking
  BY <1>3, <1>4 DEF Waking
<1> QED
  BY <1>2, <1>5, <1>6

-----------------------------------------------------------------------------
(* What is owed.                                                           *)

LEMMA OwedKept ==
  ASSUME EP!OrderInv, Owed, answers \in Nat, unacked \in Nat,
         threadsRun' = threadsRun, Waking' \subseteq Waking,
         answers' = answers, unacked' = unacked
  PROVE  Owed'
<1>1. /\ Cardinality(Waking) \in Nat /\ Cardinality(Waking') \in Nat
      /\ Cardinality(Waking') <= Cardinality(Waking)
  BY WakingFinite, FewerWaking
<1> QED
  BY <1>1 DEF Owed

LEMMA OwedAll ==
  ASSUME EP!OrderInv, Owed, answers \in Nat, unacked \in Nat, threadsRun
  PROVE  /\ IsFiniteSet(Waking) /\ Cardinality(Waking) \in Nat
         /\ Cardinality(Waking) + answers <= unacked
         /\ answers <= unacked
         /\ \A n \in Waking : 1 + answers <= unacked
<1>1. /\ IsFiniteSet(Waking) /\ Cardinality(Waking) \in Nat
      /\ Cardinality(Waking) + answers <= unacked
  BY WakingFinite DEF Owed
<1>2. ASSUME NEW n \in Waking PROVE 1 <= Cardinality(Waking)
  <2>1. Cardinality({}) = 0 /\ {} \subseteq Waking /\ n \notin {}
    BY FS_EmptySet
  <2>2. Cardinality({}) <= Cardinality(Waking) - 1
    BY <1>1, <2>1, FewerWaking
  <2> QED
    BY <1>1, <2>1, <2>2
<1> QED
  BY <1>1, <1>2

-----------------------------------------------------------------------------
(* Every step is a step of WakelockRefCounter or leaves it alone.          *)

\* What a failing write drops is a single event, and was counted once.
LEMMA DroppedOne ==
  ASSUME PathInv, E!WriteFails
  PROVE  /\ pending # <<>> /\ pwThread = "writing"
         /\ E!GivenBack = WakeDropped
         /\ WakeDropped = (IF WakeIds(Head(pending).events) = {} THEN 0 ELSE 1)
         /\ threadsRun /\ WakeDropped # 0 => 1 <= unacked
<1>1. EP!TypeOK /\ pending # <<>> /\ pwThread = "writing" /\ EP!WriteFails
  BY SameDelivery DEF PathInv, EP!OrderInv, EP!TypeOK, EP!WriteFails
<1> DEFINE front == Head(pending).events
<1>2. /\ front \in Seq(EP!Event) /\ Len(front) = 1
      /\ SubSeq(front, 1, EP!NumToWrite) = front
      /\ EP!GivenBack = EP!NumWakeup(front)
  BY <1>1, FrontIsOne DEF PathInv
<1>3. /\ E!GivenBack = EP!GivenBack /\ E!NumToWrite = EP!NumToWrite
      /\ \A s : E!NumWakeup(s) = EP!NumWakeup(s)
  BY DEF E!GivenBack, EP!GivenBack, E!NumToWrite, EP!NumToWrite, E!Least, EP!Least,
         E!NumWakeup, EP!NumWakeup, E!Cardinality, EP!Cardinality
<1>4. WakeDropped = EP!NumWakeup(front) /\ E!GivenBack = WakeDropped
  BY <1>2, <1>3 DEF WakeDropped
<1>5. EP!NumWakeup(front) = IF front[1].kind = "wake" THEN 1 ELSE 0
  BY <1>2, NumWakeupOfOne
<1>6. WakeIds(front) = IF front[1].kind = "wake" THEN {front[1].id} ELSE {}
  <2>1. DOMAIN front = {1}
    BY <1>2
  <2> QED
    BY <2>1 DEF WakeIds
<1>7. ASSUME threadsRun, NEW n \in WakeIds(front) PROVE 1 <= unacked
  <2>1. n \in Waking
    BY <1>1, WakingWrite DEF PathInv
  <2>2. unacked \in Nat /\ answers \in Nat
    BY DEF PathInv, WP!IInv, WP!TypeOK
  <2>3. 1 + answers <= unacked
    BY <1>7, <2>1, <2>2, OwedAll DEF PathInv
  <2> QED
    BY <2>2, <2>3
<1> HIDE DEF front
<1> QED
  BY <1>1, <1>4, <1>5, <1>6, <1>7 DEF front

LEMMA WakelockStep ==
  ASSUME PathInv, SingleEvents, [Next]_vars
  PROVE  [WP!Next]_(WP!vars)
<1> USE DEF WP!vars, WP!wlVars
<1>1. ASSUME NEW p \in Posters, CreateScoped(p) \/ DestroyScoped(p) PROVE WP!Next
  BY <1>1, SameWakelock DEF CreateScoped, DestroyScoped, WP!Next, WP!SubHal
<1>2. ASSUME NEW p \in Posters, EnterPost(p) PROVE UNCHANGED WP!vars
  BY <1>2 DEF EnterPost, E!EnterPost, wlVars
<1>3. ASSUME NEW p \in Posters, NEW batch \in Batches, Commit(p, batch)
      PROVE  WP!Next \/ UNCHANGED WP!vars
  <2>1. UNCHANGED <<threadsRun, init>>
    BY <1>3 DEF Commit, E!Commit
  <2>2. CASE WakeCount(batch) > 0
    <3>1. WakeCount(batch) \in WakeCounts
      BY <2>2 DEF WakeCounts
    <3>2. WP!CountEvents(p, WakeCount(batch))
      BY <1>3, <2>2, SameWakelock DEF Commit
    <3> QED
      BY <3>1, <3>2 DEF WP!Next, WP!SubHal
  <2>3. CASE ~(WakeCount(batch) > 0)
    BY <1>3, <2>1, <2>3 DEF Commit, wlVars
  <2> QED
    BY <2>2, <2>3
<1>4. CASE WriteFails
  <2>1. UNCHANGED <<threadsRun, init>> /\ E!WriteFails
    BY <1>4 DEF WriteFails, E!WriteFails
  <2>2. /\ E!GivenBack = WakeDropped /\ WakeDropped \in {0, 1}
        /\ threadsRun /\ WakeDropped # 0 => 1 <= unacked
    BY <2>1, DroppedOne
  <2>3. unacked \in Nat /\ unacked <= MaxUnacked /\ MaxUnacked \in Nat
    BY PathAssumption DEF PathInv, WP!IInv, WP!TypeOK
  <2>4. UNCHANGED <<elapsed, scoped, counted, wlThread, cutShort, stoppedOnce>>
    BY <1>4 DEF WriteFails
  <2>5. CASE ~threadsRun
    BY <1>4, <2>1, <2>4, <2>5 DEF WriteFails
  <2>6. CASE threadsRun /\ WakeDropped = 0
    <3>1. WP!Decrement(0) /\ unacked' = unacked - 0
      BY <1>4, <2>2, <2>6, SameWakelock DEF WriteFails
    <3>2. refCount \in Nat
      BY DEF PathInv, WP!IInv, WP!TypeOK
    <3>3. UNCHANGED <<refCount, kernelLock, unacked>>
      BY <2>3, <2>6, <3>1, <3>2 DEF WP!Decrement, WP!Least
    <3> QED
      BY <2>1, <2>4, <3>3
  <2>7. CASE threadsRun /\ WakeDropped = 1
    <3>1. WP!Decrement(1) /\ unacked' = unacked - 1
      BY <1>4, <2>2, <2>7, SameWakelock DEF WriteFails
    <3>2. 1 \in 1..unacked /\ 1 \in 1..MaxUnacked
      BY <2>2, <2>3, <2>7
    <3>3. WP!DropPending(1)
      BY <2>1, <2>4, <2>7, <3>1, <3>2 DEF WP!DropPending
    <3> QED
      BY <3>2, <3>3 DEF WP!Next
  <2> QED
    BY <2>2, <2>5, <2>6, <2>7
<1>5. CASE HandlePendingWrites
  <2>1. UNCHANGED <<threadsRun, init>> /\ UNCHANGED wlVars
    BY <1>5 DEF HandlePendingWrites, E!PwCheck, E!PwSleep, E!PwSpuriousWake,
                E!WriteSucceeds, E!Retire
  <2> QED
    BY <2>1 DEF wlVars
<1>6. CASE FrameworkRead
  BY <1>6 DEF FrameworkRead, E!FrameworkRead, wlVars
<1>7. ASSUME NEW n \in 1..MaxUnacked, AckRead(n) PROVE WP!Next
  BY <1>7, SameWakelock DEF AckRead, WP!Next, WP!HandleWakelocks
<1>8. CASE HandleWakelocks
  BY <1>8, SameWakelock DEF HandleWakelocks, WP!Next, WP!HandleWakelocks
<1>9. CASE UNCHANGED <<evVars, answers, init>> /\ W!Tick
  BY <1>9, SameWakelock DEF WP!Next
<1>10. CASE StopFlag \/ Join \/ Restart
  BY <1>10, SameWakelock DEF StopFlag, Join, Restart, WP!Next, WP!Initialize
<1>11. CASE Drain
  BY <1>11 DEF Drain, E!Drain, wlVars
<1>12. CASE UNCHANGED vars
  BY <1>12 DEF vars, wlVars
<1> QED
  BY <1>1, <1>2, <1>3, <1>4, <1>5, <1>6, <1>7, <1>8, <1>9, <1>10, <1>11, <1>12 DEF Next

-----------------------------------------------------------------------------
(* What is owed stays covered.                                             *)

\* The facts about one state that the steps below start from.
LEMMA PathFacts ==
  ASSUME PathInv
  PROVE  /\ EP!OrderInv /\ EP!TypeOK /\ Owed /\ Single(pending)
         /\ answers \in Nat /\ unacked \in Nat /\ refCount \in Nat
         /\ unacked <= MaxUnacked /\ MaxUnacked \in Nat
         /\ init = "idle" <=> threadsRun
<1>1. (IF init = "idle" THEN "idle" ELSE IF init = "disabling" THEN "reset" ELSE "joining")
        = "idle" <=> init = "idle"
  OBVIOUS
<1> QED
  BY <1>1, PathAssumption
     DEF PathInv, EP!OrderInv, WP!IInv, WP!TypeOK, WP!StopInv

LEMMA OwedCommit ==
  ASSUME PathInv, SingleEvents, NEW p \in Posters, NEW batch \in Batches, Commit(p, batch)
  PROVE  Owed' /\ answers' \in Nat /\ unacked' <= MaxUnacked
<1> DEFINE events == EP!Stamped(batch, checked[p])
           n == WakeCount(batch)
<1>1. /\ EP!OrderInv /\ EP!TypeOK /\ Owed /\ answers \in Nat /\ unacked \in Nat
      /\ unacked <= MaxUnacked
  BY PathFacts
<1>2. Len(batch) = 1 /\ EP!Commit(p, batch)
  BY SameDelivery DEF SingleEvents, Commit
<1>3. checked[p] \in Nat /\ posted \in Nat
  BY <1>1 DEF EP!TypeOK
<1>4. /\ n \in {0, 1}
      /\ n = 0 => WakeIds(events) = {}
      /\ n = 1 => \E id : WakeIds(events) = {id}
  BY <1>2, <1>3, StampedOne
<1>5. Waking' \subseteq Waking \cup WakeIds(events)
  BY <1>1, <1>2, WakingCommit
<1> HIDE DEF events
<1>6. answers' = answers /\ threadsRun' = threadsRun
  BY <1>2 DEF Commit, EP!Commit
<1>7. CASE n = 0
  <2>1. unacked' = unacked
    BY <1>7 DEF Commit, wlVars
  <2>2. Waking' \subseteq Waking
    BY <1>4, <1>5, <1>7
  <2> QED
    BY <1>1, <1>6, <2>1, <2>2, OwedKept
<1>8. CASE n = 1
  <2>1. W!CountEvents(p, 1)
    BY <1>8 DEF Commit
  <2>2. /\ ~threadsRun => unacked' = unacked
        /\ threadsRun => unacked' = unacked + 1 /\ unacked + 1 <= MaxUnacked
    BY <2>1 DEF W!CountEvents
  <2>3. PICK id : WakeIds(events) = {id}
    BY <1>4, <1>8
  <2>4. ASSUME threadsRun PROVE Cardinality(Waking') + answers <= unacked + 1
    <3>1. /\ IsFiniteSet(Waking) /\ Cardinality(Waking) \in Nat
          /\ Cardinality(Waking) + answers <= unacked
      BY <1>1, <2>4, OwedAll
    <3>2. /\ IsFiniteSet(Waking \cup {id})
          /\ Cardinality(Waking \cup {id}) \in Nat
          /\ Cardinality(Waking \cup {id}) <= Cardinality(Waking) + 1
      BY <3>1, OneMore
    <3>3. Cardinality(Waking') \in Nat /\ Cardinality(Waking') <= Cardinality(Waking \cup {id})
      BY <1>5, <2>3, <3>2, FewerWaking
    <3> QED
      BY <1>1, <3>1, <3>2, <3>3
  <2> QED
    BY <1>1, <1>6, <2>2, <2>4 DEF Owed
<1> QED
  BY <1>4, <1>7, <1>8

LEMMA OwedFail ==
  ASSUME PathInv, WriteFails
  PROVE  Owed' /\ answers' \in Nat /\ unacked' <= MaxUnacked
<1> DEFINE lost == WakeIds(Head(pending).events)
<1>1. /\ EP!OrderInv /\ Owed /\ answers \in Nat /\ unacked \in Nat
      /\ unacked <= MaxUnacked /\ MaxUnacked \in Nat /\ Single(pending)
  BY PathFacts
<1>2. E!WriteFails /\ EP!WriteFails /\ answers' = answers /\ threadsRun' = threadsRun
  BY SameDelivery DEF WriteFails, E!WriteFails
<1>3. /\ WakeDropped = (IF lost = {} THEN 0 ELSE 1)
      /\ threadsRun /\ WakeDropped # 0 => 1 <= unacked
  BY <1>2, DroppedOne
<1>4. Waking' \subseteq Waking /\ lost \subseteq Waking /\ lost \cap Waking' = {}
  BY <1>1, <1>2, WakingWrite
<1>5. unacked' = IF threadsRun THEN unacked - WakeDropped ELSE unacked
  BY DEF WriteFails
<1> HIDE DEF lost
<1>6. CASE ~threadsRun \/ lost = {}
  <2>1. unacked' = unacked
    BY <1>1, <1>3, <1>5, <1>6
  <2> QED
    BY <1>1, <1>2, <1>4, <2>1, OwedKept
<1>7. CASE threadsRun /\ lost # {}
  <2>1. unacked' = unacked - 1
    BY <1>3, <1>5, <1>7
  <2>2. PICK id \in lost : TRUE
    BY <1>7
  <2>3. id \in Waking /\ id \notin Waking'
    BY <1>4, <2>2
  <2>4. /\ IsFiniteSet(Waking) /\ Cardinality(Waking) \in Nat
        /\ Cardinality(Waking) + answers <= unacked
    BY <1>1, <1>7, OwedAll
  <2>5. Cardinality(Waking') \in Nat /\ Cardinality(Waking') <= Cardinality(Waking) - 1
    BY <1>4, <2>3, <2>4, FewerWaking
  <2>6. Cardinality(Waking') + answers' <= unacked' /\ unacked' <= MaxUnacked
    BY <1>1, <1>2, <2>1, <2>4, <2>5
  <2> QED
    BY <1>1, <1>2, <2>6 DEF Owed
<1> QED
  BY <1>6, <1>7

LEMMA OwedRead ==
  ASSUME PathInv, FrameworkRead
  PROVE  Owed' /\ answers' \in Nat /\ unacked' <= MaxUnacked
<1>1. /\ EP!OrderInv /\ Owed /\ answers \in Nat /\ unacked \in Nat
      /\ unacked <= MaxUnacked
      /\ init = "idle" <=> threadsRun
  BY PathFacts
<1>2. /\ EP!FrameworkRead /\ threadsRun' = threadsRun /\ threadsRun /\ unacked' = unacked
      /\ answers' = IF Head(fmq).kind = "wake" THEN answers + 1 ELSE answers
  BY <1>1, SameDelivery DEF FrameworkRead, E!FrameworkRead, wlVars
<1>3. /\ Waking' \subseteq Waking
      /\ Head(fmq).kind = "wake" => Head(fmq).id \in Waking /\ Head(fmq).id \notin Waking'
  BY <1>1, <1>2, WakingRead
<1>4. CASE Head(fmq).kind = "wake"
  <2>1. /\ IsFiniteSet(Waking) /\ Cardinality(Waking) \in Nat
        /\ Cardinality(Waking) + answers <= unacked
    BY <1>1, <1>2, OwedAll
  <2>2. Cardinality(Waking') \in Nat /\ Cardinality(Waking') <= Cardinality(Waking) - 1
    BY <1>3, <1>4, <2>1, FewerWaking
  <2>3. answers' = answers + 1
    BY <1>2, <1>4
  <2>4. Cardinality(Waking') + answers' <= unacked'
    BY <1>1, <1>2, <2>1, <2>2, <2>3
  <2> QED
    BY <1>1, <1>2, <2>3, <2>4 DEF Owed
<1>5. CASE Head(fmq).kind # "wake"
  BY <1>1, <1>2, <1>3, <1>5, OwedKept
<1> QED
  BY <1>4, <1>5

LEMMA OwedNext ==
  ASSUME PathInv, SingleEvents, [Next]_vars
  PROVE  Owed' /\ answers' \in Nat /\ unacked' <= MaxUnacked
<1>1. /\ EP!OrderInv /\ EP!TypeOK /\ Owed /\ Single(pending)
      /\ answers \in Nat /\ unacked \in Nat
      /\ unacked <= MaxUnacked /\ MaxUnacked \in Nat
      /\ init = "idle" <=> threadsRun
  BY PathFacts
<1>2. ASSUME Waking' \subseteq Waking, threadsRun' = threadsRun,
             answers' = answers, unacked' = unacked
      PROVE  Owed' /\ answers' \in Nat /\ unacked' <= MaxUnacked
  BY <1>1, <1>2, OwedKept
<1>3. ASSUME UNCHANGED evVars, threadsRun' = threadsRun, answers' = answers, unacked' = unacked
      PROVE  Owed' /\ answers' \in Nat /\ unacked' <= MaxUnacked
  <2>1. Waking' \subseteq Waking
    BY <1>3, UnwrittenKept, WakingKept DEF evVars
  <2> QED
    BY <1>2, <1>3, <2>1
<1>4. ASSUME NEW p \in Posters, CreateScoped(p) \/ DestroyScoped(p)
      PROVE  Owed' /\ answers' \in Nat /\ unacked' <= MaxUnacked
  BY <1>3, <1>4 DEF CreateScoped, DestroyScoped, W!CreateScoped, W!DestroyScoped
<1>5. ASSUME NEW p \in Posters, EnterPost(p)
      PROVE  Owed' /\ answers' \in Nat /\ unacked' <= MaxUnacked
  <2>1. Waking' \subseteq Waking
    BY <1>5, UnwrittenKept, WakingKept DEF EnterPost, E!EnterPost
  <2> QED
    BY <1>2, <1>5, <2>1 DEF EnterPost, E!EnterPost, wlVars
<1>6. CASE HandlePendingWrites
  <2>1. threadsRun' = threadsRun /\ answers' = answers /\ unacked' = unacked
    BY <1>6 DEF HandlePendingWrites, E!PwCheck, E!PwSleep, E!PwSpuriousWake,
                E!WriteSucceeds, E!Retire, wlVars
  <2>2. CASE E!PwCheck \/ E!PwSleep \/ E!PwSpuriousWake
    <3>1. /\ pwThread # "retire" /\ pwThread' # "retire"
          /\ fmq' = fmq /\ pending' = pending
      BY <2>2 DEF E!PwCheck, E!PwSleep, E!PwSpuriousWake
    <3>2. EP!Unwritten' = EP!Unwritten
      BY <3>1 DEF EP!Unwritten
    <3> QED
      BY <1>2, <2>1, <3>1, <3>2, WakingKept
  <2>3. CASE E!WriteSucceeds
    <3>1. Waking' \subseteq Waking
      BY <1>1, <2>3, SameDelivery, WakingWrite
    <3> QED
      BY <1>2, <2>1, <3>1
  <2>4. CASE E!Retire
    <3>1. /\ pwThread = "retire" /\ pwThread' = "check" /\ fmq' = fmq
          /\ pending' = EP!AfterRetire
      BY <2>4, SameDelivery DEF EP!Retire
    <3>2. EP!Unwritten' = EP!Unwritten
      BY <3>1 DEF EP!Unwritten
    <3> QED
      BY <1>2, <2>1, <3>1, <3>2, WakingKept
  <2> QED
    BY <1>6, <2>2, <2>3, <2>4 DEF HandlePendingWrites
<1>7. ASSUME NEW n \in 1..MaxUnacked, AckRead(n)
      PROVE  Owed' /\ answers' \in Nat /\ unacked' <= MaxUnacked
  <2>1. /\ n <= answers /\ answers' = answers - n /\ unacked' = unacked - n
        /\ threadsRun' = threadsRun /\ threadsRun /\ n \in Nat
    BY <1>1, <1>7 DEF AckRead, W!AckRead
  <2>2. Waking' \subseteq Waking
    BY <1>7, UnwrittenKept, WakingKept DEF AckRead, evVars
  <2>3. /\ IsFiniteSet(Waking) /\ Cardinality(Waking) \in Nat
        /\ Cardinality(Waking) + answers <= unacked
    BY <1>1, <2>1, OwedAll
  <2>4. Cardinality(Waking') \in Nat /\ Cardinality(Waking') <= Cardinality(Waking)
    BY <2>2, <2>3, FewerWaking
  <2>5. /\ answers' \in Nat /\ unacked' <= MaxUnacked
        /\ Cardinality(Waking') + answers' <= unacked'
    BY <1>1, <2>1, <2>3, <2>4
  <2> QED
    BY <2>5 DEF Owed
<1>8. CASE HandleWakelocks
  BY <1>3, <1>8 DEF HandleWakelocks, W!TimeOut, W!BeginRead, W!ReadTimesOut, W!ThreadExit
<1>9. CASE UNCHANGED <<evVars, answers, init>> /\ W!Tick
  BY <1>3, <1>9 DEF W!Tick
<1>10. CASE StopFlag
  <2>1. threadsRun' = FALSE /\ answers' = answers /\ unacked' = unacked
    BY <1>10 DEF StopFlag, E!StopFlag, W!StopThreads
  <2> QED
    BY <1>1, <2>1 DEF Owed
<1>11. CASE Drain
  <2>1. /\ threadsRun' = threadsRun /\ ~threadsRun
        /\ answers' = answers /\ unacked' = unacked
    BY <1>1, <1>11 DEF Drain, E!Drain, wlVars
  <2> QED
    BY <1>1, <2>1 DEF Owed
<1>12. CASE Join
  <2>1. threadsRun' = threadsRun /\ answers' = answers /\ unacked' = unacked
    BY <1>12 DEF Join, E!Join, W!InitReset
  <2>2. Waking' \subseteq Waking
    BY <1>12, UnwrittenKept, WakingKept DEF Join, E!Join
  <2> QED
    BY <1>2, <2>1, <2>2
<1>13. CASE Restart
  <2>1. /\ fmq' = <<>> /\ pending' = <<>> /\ pwThread' = "check"
        /\ answers' = 0 /\ unacked' = 0
    BY <1>13 DEF Restart, E!Restart, W!StartThreads
  <2>2. Waking' = {}
    BY <2>1, WakeIdsEmpty DEF Waking, EP!Unwritten
  <2>3. Cardinality(Waking') = 0
    BY <2>2, FS_EmptySet
  <2> QED
    BY <1>1, <2>1, <2>3 DEF Owed
<1>14. CASE UNCHANGED vars
  BY <1>3, <1>14 DEF vars, wlVars
<1> QED
  BY <1>4, <1>5, <1>6, <1>7, <1>8, <1>9, <1>10, <1>11, <1>12, <1>13, <1>14,
     OwedCommit, OwedFail, OwedRead DEF Next

LEMMA PathInit == Init => PathInv
<1> SUFFICES ASSUME Init PROVE PathInv
  OBVIOUS
<1>1. EP!OrderInv
  BY OrderInit
<1>2. WP!Init /\ E!Init /\ answers = 0
  BY SameWakelock DEF Init
<1>3. WP!IsFiniteSet(Posters)
  BY PathAssumption DEF WP!IsFiniteSet, IsFiniteSet
<1>4. WP!IInv
  BY <1>2, <1>3, PathAssumption, WakeCountsType, WP!IInvInit
<1>5. WP!HeldIffCounted
  BY <1>2 DEF WP!Init, WP!HeldIffCounted
<1>6. Single(pending) /\ fmq = <<>> /\ EP!Unwritten = <<>>
  BY <1>2 DEF E!Init, Single, EP!Unwritten
<1>7. Cardinality(Waking) = 0
  BY <1>6, WakeIdsEmpty, FS_EmptySet DEF Waking
<1>8. unacked = 0
  BY <1>2 DEF WP!Init
<1>9. Owed /\ answers \in Nat /\ unacked <= MaxUnacked
  BY <1>2, <1>7, <1>8, PathAssumption DEF Owed
<1> QED
  BY <1>1, <1>4, <1>5, <1>6, <1>9 DEF PathInv

LEMMA PathNext == SingleEvents /\ PathInv /\ [Next]_vars => PathInv'
<1> SUFFICES ASSUME SingleEvents, PathInv, [Next]_vars PROVE PathInv'
  OBVIOUS
<1>1. EP!OrderInv'
  BY OrderNext DEF PathInv
<1>2. [WP!Next]_(WP!vars)
  BY WakelockStep
<1>3. WP!IsFiniteSet(Posters)
  BY PathAssumption DEF WP!IsFiniteSet, IsFiniteSet
<1>4. WP!IInv'
  BY <1>2, <1>3, PathAssumption, WakeCountsType, WP!IInvNext DEF PathInv
<1>5. WP!HeldIffCounted'
  BY <1>2, <1>3, PathAssumption, WakeCountsType, WP!HeldNext DEF PathInv, WP!IInv
<1>6. Single(pending)'
  BY DeliveryStep, PathFacts, SingleNext
<1>7. Owed' /\ answers' \in Nat /\ unacked' <= MaxUnacked
  BY OwedNext
<1> QED
  BY <1>1, <1>4, <1>5, <1>6, <1>7 DEF PathInv

LEMMA UnreadIsWaking ==
  ASSUME Unread
  PROVE  \E n : n \in Waking
<1>1. ASSUME NEW s, E!NumWakeup(s) > 0 PROVE \E n : n \in WakeIds(s)
  <2>1. {i \in DOMAIN s : s[i].kind = "wake"} # {}
    BY <1>1, SameCardinality, FS_EmptySet DEF E!NumWakeup
  <2> QED
    BY <2>1, WakeIdsIs
<1>2. E!Unwritten = EP!Unwritten
  BY DEF E!Unwritten, EP!Unwritten, E!AfterRetire, EP!AfterRetire
<1>3. CASE E!NumWakeup(fmq) > 0
  BY <1>1, <1>3 DEF Waking
<1>4. ASSUME NEW b \in DOMAIN E!Unwritten, E!NumWakeup(E!Unwritten[b].events) > 0
      PROVE  \E n : n \in Waking
  <2>1. PICK n : n \in WakeIds(EP!Unwritten[b].events)
    BY <1>1, <1>2, <1>4
  <2>2. n \in WakeOf(EP!Unwritten)
    BY <1>2, <2>1, WakeOfIs
  <2> QED
    BY <2>2 DEF Waking
<1> QED
  BY <1>3, <1>4 DEF Unread

LEMMA PathLocked == PathInv => LockedUntilRead
<1> SUFFICES ASSUME PathInv, threadsRun, ~cutShort, Unread PROVE kernelLock = "held"
  BY DEF LockedUntilRead
<1>1. /\ EP!OrderInv /\ Owed
      /\ answers \in Nat /\ unacked \in Nat /\ refCount \in Nat
  BY PathFacts
<1>2. PICK n : n \in Waking
  BY UnreadIsWaking
<1>3. 1 + answers <= unacked
  BY <1>1, <1>2, OwedAll
<1>4. WP!TypeOK /\ refCount >= WP!Cardinality(WP!Live) + unacked
  BY DEF PathInv, WP!IInv, WP!NeverUndercounted
<1>5. WP!IsFiniteSet(Posters)
  BY PathAssumption DEF WP!IsFiniteSet, IsFiniteSet
<1>6. WP!Cardinality(WP!Live) \in Nat
  BY <1>4, <1>5, PathAssumption, WakeCountsType, WP!LiveSize
<1>7. refCount > 0
  BY <1>1, <1>3, <1>4, <1>6
<1> QED
  BY <1>7 DEF PathInv, WP!HeldIffCounted

LEMMA PathTyped == PathInv => TypeOK
<1> SUFFICES ASSUME PathInv PROVE TypeOK
  OBVIOUS
<1>1. E!TypeOK <=> EP!TypeOK
  BY DEF E!TypeOK, EP!TypeOK, E!Event, EP!Event
<1>2. W!TypeOK <=> WP!TypeOK
  BY DEF W!TypeOK, WP!TypeOK, W!ScopedStates, WP!ScopedStates
<1> QED
  BY <1>1, <1>2 DEF TypeOK, PathInv, EP!OrderInv, WP!IInv

LEMMA SameSteps ==
  /\ [WP!Next]_(WP!vars) => [W!Next]_(W!vars)
  /\ [EP!Next]_(EP!vars) => [E!Next]_(E!vars)
<1>1. WP!Next => W!Next
  BY SameWakelock
     DEF WP!Next, W!Next, WP!SubHal, W!SubHal, WP!HandleWakelocks, W!HandleWakelocks,
         WP!Initialize, W!Initialize
<1>2. EP!Next => E!Next
  BY SameDelivery
     DEF EP!Next, E!Next, EP!HandlePendingWrites, E!HandlePendingWrites,
         EP!InitializeCommon, E!InitializeCommon
<1>3. UNCHANGED WP!vars => UNCHANGED W!vars
  BY DEF WP!vars, W!vars, WP!wlVars, W!wlVars
<1>4. UNCHANGED EP!vars => UNCHANGED E!vars
  BY DEF EP!vars, E!vars
<1> QED
  BY <1>1, <1>2, <1>3, <1>4

\* The composition is typed: in whatever order the two threads, the framework and
\* initialize act, the variables of both components and the number of answers under way
\* keep their types.
THEOREM PathTypes == ASSUME SingleEvents PROVE Spec => []TypeOK
<1>1. PathInv /\ [Next]_vars => PathInv'
  BY PathNext
<1> QED
  BY <1>1, PathInit, PathTyped, PTL DEF Spec

\* While the threads run and no timeout has struck, a wake-up event on its way
\* keeps the wake lock held (V2_0/SubHal.h:60-61).
THEOREM LockedWhileUnread == ASSUME SingleEvents PROVE Spec => []LockedUntilRead
<1>1. PathInv /\ [Next]_vars => PathInv'
  BY PathNext
<1> QED
  BY <1>1, PathInit, PathLocked, PTL DEF Spec

\* The event path uses the reference count the way WakelockRefCounter takes for
\* granted: it drops and answers what was counted, and no more.
THEOREM PathImplementsWakelock == ASSUME SingleEvents PROVE Spec => ImplementsWakelock
<1>1. PathInv /\ [Next]_vars => PathInv'
  BY PathNext
<1>2. PathInv /\ [Next]_vars => [W!Next]_(W!vars)
  BY WakelockStep, SameSteps
<1>3. Init => W!Init
  BY DEF Init
<1> QED
  BY <1>1, <1>2, <1>3, PathInit, PTL DEF Spec, ImplementsWakelock, W!Safe

\* With batches of any length, the wake lock hinders no step of the event
\* delivery and adds none: what is proved of EventDelivery holds here too.
THEOREM PathImplementsDelivery == Spec => E!Safe
<1>1. [Next]_vars => [E!Next]_(E!vars)
  BY DeliveryStep, SameSteps
<1>2. Init => E!Init
  BY DEF Init
<1> QED
  BY <1>1, <1>2, PTL DEF Spec, E!Safe

=============================================================================
