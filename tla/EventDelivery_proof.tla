-------------------------- MODULE EventDelivery_proof --------------------------
(***************************************************************************)
(* Proofs about EventDelivery for every set of sub-HAL threads, every set  *)
(* of batches and every capacity of the queues.                            *)
(***************************************************************************)
EXTENDS EventDelivery, FiniteSetTheorems, SequenceTheorems, TLAPS

PendingBatch == [events : Seq(Event) \ {<<>>}, numWakeup : Nat]

\* The bounded choices are what they look like.
LEMMA LeastIs ==
  ASSUME NEW a \in Int, NEW b \in Int
  PROVE  /\ Least(a, b) \in {a, b}
         /\ Least(a, b) <= a
         /\ Least(a, b) <= b
BY DEF Least

LEMMA NumWakeupType ==
  ASSUME NEW S, NEW events \in Seq(S)
  PROVE  NumWakeup(events) \in Nat
<1>1. IsFiniteSet(1..Len(events))
  BY FS_Interval
<1>2. IsFiniteSet({i \in DOMAIN events : events[i].kind = "wake"})
  BY <1>1, FS_Subset
<1> QED
  BY <1>2, FS_CardinalityType DEF NumWakeup

\* A part of a sequence, element by element.
LEMMA PartOfSeq ==
  ASSUME NEW S, NEW s \in Seq(S), NEW m \in Nat, NEW n \in Nat,
         1 <= m, n <= Len(s)
  PROVE  /\ SubSeq(s, m, n) \in Seq(S)
         /\ Len(SubSeq(s, m, n)) = IF m <= n THEN n - m + 1 ELSE 0
         /\ \A i \in 1..Len(SubSeq(s, m, n)) : SubSeq(s, m, n)[i] = s[m + i - 1]
OBVIOUS

LEMMA PrefixOfSeq ==
  ASSUME NEW S, NEW s \in Seq(S), NEW n \in Nat, 1 <= n, n <= Len(s)
  PROVE  /\ SubSeq(s, 1, n) \in Seq(S)
         /\ Len(SubSeq(s, 1, n)) = n
OBVIOUS

LEMMA TailIs ==
  ASSUME NEW S, NEW s \in Seq(S), s # <<>>
  PROVE  /\ \A b \in DOMAIN Tail(s) : b + 1 \in DOMAIN s /\ Tail(s)[b] = s[b + 1]
         /\ \A b \in DOMAIN s : b # 1 => b - 1 \in DOMAIN Tail(s) /\ Tail(s)[b - 1] = s[b]
<1>1. /\ DOMAIN s = 1..Len(s) /\ Len(s) \in Nat
      /\ DOMAIN Tail(s) = 1..(Len(s) - 1)
      /\ \A b \in DOMAIN Tail(s) : Tail(s)[b] = s[b + 1]
  OBVIOUS
<1>2. \A b \in DOMAIN Tail(s) : b + 1 \in DOMAIN s
  BY <1>1
<1>3. \A b \in DOMAIN s : b # 1 => b - 1 \in DOMAIN Tail(s) /\ b - 1 + 1 = b
  BY <1>1
<1> QED
  BY <1>1, <1>2, <1>3

LEMMA StampedIs ==
  ASSUME NEW batch \in Batches, NEW s \in Nat, posted \in Nat
  PROVE  /\ Stamped(batch, s) \in Seq(Event)
         /\ Len(Stamped(batch, s)) = Len(batch)
         /\ Len(batch) \in Nat \ {0}
         /\ \A i \in 1..Len(batch) : /\ Stamped(batch, s)[i].id = posted + i
                                     /\ Stamped(batch, s)[i].session = s
<1>1. batch \in Seq({"wake", "plain"}) /\ batch # <<>>
  BY DeliveryAssumption
<1>2. \A i \in 1..Len(batch) : batch[i] \in {"wake", "plain"}
  BY <1>1
<1>3. Stamped(batch, s) \in [1..Len(batch) -> Event]
  BY <1>2 DEF Stamped, Event
<1> QED
  BY <1>1, <1>3 DEF Stamped

\* What AfterRetire leaves of the pending queue.
LEMMA AfterRetireIs ==
  ASSUME pending \in Seq(PendingBatch), pending # <<>>
  PROVE  /\ AfterRetire \in Seq(PendingBatch)
         /\ Len(Head(pending).events) > FmqCapacity =>
              /\ Len(AfterRetire) = Len(pending)
              /\ AfterRetire[1].events =
                   SubSeq(Head(pending).events, FmqCapacity + 1, Len(Head(pending).events))
              /\ \A b \in 2..Len(pending) : AfterRetire[b] = pending[b]
         /\ Len(Head(pending).events) <= FmqCapacity => AfterRetire = Tail(pending)
<1> DEFINE front == Head(pending).events
<1>1. /\ front \in Seq(Event) \ {<<>>}
      /\ Head(pending) = pending[1]
      /\ Len(pending) \in Nat \ {0}
      /\ FmqCapacity \in Nat
      /\ Len(front) \in Nat \ {0}
      /\ Head(pending).numWakeup \in Nat
  <2>1. Len(pending) \in Nat \ {0} /\ Head(pending) = pending[1]
    OBVIOUS
  <2>2. pending[1] \in PendingBatch
    BY <2>1
  <2>3. front \in Seq(Event) \ {<<>>} /\ Head(pending).numWakeup \in Nat
    BY <2>1, <2>2 DEF PendingBatch
  <2> HIDE DEF front
  <2>4. Len(front) \in Nat \ {0}
    BY <2>3
  <2> QED
    BY <2>1, <2>3, <2>4, DeliveryAssumption
<1>2. CASE Len(front) > FmqCapacity
  <2> DEFINE rest  == SubSeq(front, FmqCapacity + 1, Len(front))
             entry == [events |-> rest, numWakeup |-> Head(pending).numWakeup]
  <2>1. rest \in Seq(Event) \ {<<>>}
    <3> HIDE DEF front
    <3>1. rest \in Seq(Event) /\ Len(rest) = Len(front) - FmqCapacity
      BY <1>1, <1>2, PartOfSeq
    <3>2. Len(rest) # 0
      <4> HIDE DEF rest
      <4> QED
        BY <3>1, <1>1, <1>2
    <3> HIDE DEF rest
    <3> QED
      BY <3>1, <3>2
  <2>2. entry \in PendingBatch /\ entry.events = rest
    BY <2>1, <1>1 DEF PendingBatch
  <2>3. AfterRetire = <<entry>> \o Tail(pending)
    BY <1>2 DEF AfterRetire
  <2> HIDE DEF entry
  <2>4. /\ AfterRetire \in Seq(PendingBatch)
        /\ Len(AfterRetire) = Len(pending)
        /\ AfterRetire[1] = entry
        /\ \A b \in 2..Len(pending) : AfterRetire[b] = pending[b]
    BY <2>2, <2>3, <1>1
  <2> QED
    BY <2>2, <2>4, <1>1, <1>2
<1>3. CASE Len(front) <= FmqCapacity
  BY <1>1, <1>3 DEF AfterRetire
<1> QED
  BY <1>1, <1>2, <1>3

-----------------------------------------------------------------------------
LEMMA TypeInit == Init => TypeOK
BY DeliveryAssumption DEF Init, TypeOK

LEMMA CommitFacts ==
  ASSUME TypeOK, NEW p \in Posters, NEW batch \in Batches, Commit(p, batch)
  PROVE  \E fits \in 0..Len(batch), queued \in BOOLEAN :
           LET events == Stamped(batch, checked[p])
               left   == SubSeq(events, fits + 1, Len(batch))
           IN /\ fits > 0 => pending = <<>>
              /\ fits + Len(fmq) <= FmqCapacity
              /\ fmq' = fmq \o SubSeq(events, 1, fits)
              /\ queued => /\ left # <<>>
                           /\ pending' = Append(pending, [events |-> left,
                                                          numWakeup |-> NumWakeup(events)])
                           /\ sizePending' = sizePending + Len(left)
                           /\ pwThread' = Notified(pwThread)
              /\ ~queued => UNCHANGED <<pending, sizePending, pwThread>>
<1> DEFINE events == Stamped(batch, checked[p])
           fits   == Fits(Len(events))
           left   == SubSeq(events, fits + 1, Len(events))
           queued == left # <<>> /\ HasRoom(Len(left))
<1>1. checked[p] \in Nat /\ posted \in Nat /\ Len(fmq) \in Nat /\ Len(fmq) <= FmqCapacity
  BY DEF TypeOK
<1>2. Len(events) = Len(batch) /\ Len(batch) \in Nat
  BY <1>1, StampedIs
<1>3. fits \in 0..Len(batch) /\ (fits > 0 => pending = <<>>) /\ fits + Len(fmq) <= FmqCapacity
  BY <1>1, <1>2, DeliveryAssumption DEF Fits, Least
<1>4. queued \in BOOLEAN
  OBVIOUS
<1>5. fmq' = fmq \o SubSeq(events, 1, fits)
  BY DEF Commit
<1>6. queued => /\ left # <<>>
                /\ pending' = Append(pending, [events |-> left, numWakeup |-> NumWakeup(events)])
                /\ sizePending' = sizePending + Len(left)
                /\ pwThread' = Notified(pwThread)
  BY DEF Commit
<1>7. ~queued => UNCHANGED <<pending, sizePending, pwThread>>
  BY DEF Commit
<1> HIDE DEF fits, queued
<1>8. left = SubSeq(events, fits + 1, Len(batch))
  BY <1>2
<1> QED
  BY <1>3, <1>4, <1>5, <1>6, <1>7, <1>8

LEMMA TypeCommit ==
  ASSUME TypeOK, NEW p \in Posters, NEW batch \in Batches, Commit(p, batch)
  PROVE  TypeOK'
<1> DEFINE events == Stamped(batch, checked[p])
<1>1. checked[p] \in Nat /\ posted \in Nat
  BY DEF TypeOK
<1>2. events \in Seq(Event) /\ Len(events) = Len(batch) /\ Len(batch) \in Nat
  BY <1>1, StampedIs
<1>3. NumWakeup(events) \in Nat
  BY <1>2, NumWakeupType
<1>4. PICK fits \in 0..Len(batch), queued \in BOOLEAN :
           LET left   == SubSeq(events, fits + 1, Len(batch))
           IN /\ fits > 0 => pending = <<>>
              /\ fits + Len(fmq) <= FmqCapacity
              /\ fmq' = fmq \o SubSeq(events, 1, fits)
              /\ queued => /\ left # <<>>
                           /\ pending' = Append(pending, [events |-> left,
                                                          numWakeup |-> NumWakeup(events)])
                           /\ sizePending' = sizePending + Len(left)
                           /\ pwThread' = Notified(pwThread)
              /\ ~queued => UNCHANGED <<pending, sizePending, pwThread>>
  BY CommitFacts
<1> HIDE DEF events
<1>5. SubSeq(events, 1, fits) \in Seq(Event) /\ Len(SubSeq(events, 1, fits)) = fits
  BY <1>2, <1>4, PartOfSeq
<1>6. fmq \in Seq(Event) /\ Len(fmq) <= FmqCapacity /\ FmqCapacity \in Nat
  BY DeliveryAssumption DEF TypeOK
<1>7. fmq' \in Seq(Event) /\ Len(fmq') <= FmqCapacity
  BY <1>4, <1>5, <1>6
<1>8. SubSeq(events, fits + 1, Len(batch)) \in Seq(Event)
  BY <1>2, <1>4, PartOfSeq
<1>9. /\ pending' \in Seq(PendingBatch)
      /\ sizePending' \in Int
      /\ pwThread' \in {"check", "dozing", "asleep", "writing", "retire", "exited"}
      /\ pwThread' \in {"writing", "retire"} => pending' # <<>>
  <2>1. CASE queued
    <3> DEFINE entry == [events |-> SubSeq(events, fits + 1, Len(batch)),
                         numWakeup |-> NumWakeup(events)]
    <3>1. entry \in PendingBatch
      BY <2>1, <1>3, <1>4, <1>8 DEF PendingBatch
    <3>2. pending' = Append(pending, entry) /\ pending \in Seq(PendingBatch)
      BY <2>1, <1>4 DEF TypeOK, PendingBatch
    <3> HIDE DEF entry
    <3>3. pending' \in Seq(PendingBatch) /\ pending' # <<>>
      BY <3>1, <3>2
    <3>4. sizePending' \in Int
      BY <2>1, <1>4, <1>8 DEF TypeOK
    <3>5. pwThread' \in {"check", "dozing", "asleep", "writing", "retire", "exited"}
      BY <2>1, <1>4 DEF TypeOK, Notified
    <3> QED
      BY <3>3, <3>4, <3>5
  <2>2. CASE ~queued
    BY <2>2, <1>4 DEF TypeOK, PendingBatch
  <2> QED
    BY <2>1, <2>2
<1>11. posted' \in Nat
  BY <1>1, <1>2 DEF Commit
<1>12. checked' \in [Posters -> Nat]
  BY DEF Commit, TypeOK
<1>13. UNCHANGED <<threadsRun, init, session, delivered>>
  BY DEF Commit
<1> QED
  BY <1>7, <1>9, <1>11, <1>12, <1>13 DEF TypeOK, PendingBatch

LEMMA TypeWrite ==
  ASSUME TypeOK, HandlePendingWrites
  PROVE  TypeOK'
<1> USE DeliveryAssumption
<1>1. CASE PwCheck
  BY <1>1 DEF TypeOK, PwCheck
<1>2. CASE PwSleep
  BY <1>2 DEF TypeOK, PwSleep
<1>3. ASSUME pwThread \in {"writing", "retire"}
      PROVE  /\ pending \in Seq(PendingBatch)
             /\ pending # <<>>
             /\ Head(pending).events \in Seq(Event)
             /\ Len(Head(pending).events) \in Nat \ {0}
             /\ Head(pending).numWakeup \in Nat
             /\ NumToWrite \in 1..Len(Head(pending).events)
             /\ NumToWrite <= FmqCapacity
  <2>1. pending \in Seq(PendingBatch) /\ pending # <<>>
    BY <1>3 DEF TypeOK, PendingBatch
  <2>2. Head(pending) \in PendingBatch
    BY <2>1
  <2>3. /\ Head(pending).events \in Seq(Event) \ {<<>>}
        /\ Head(pending).numWakeup \in Nat
    BY <2>2 DEF PendingBatch
  <2>4. Len(Head(pending).events) \in Nat \ {0}
    BY <2>3
  <2>5. NumToWrite \in 1..Len(Head(pending).events) /\ NumToWrite <= FmqCapacity
    BY <2>4 DEF NumToWrite, Least
  <2> QED
    BY <2>1, <2>3, <2>4, <2>5
<1>4. CASE WriteSucceeds
  <2>1. /\ pwThread = "writing"
        /\ Len(fmq) + NumToWrite <= FmqCapacity
        /\ fmq' = fmq \o SubSeq(Head(pending).events, 1, NumToWrite)
    BY <1>4 DEF WriteSucceeds
  <2>2. /\ SubSeq(Head(pending).events, 1, NumToWrite) \in Seq(Event)
        /\ Len(SubSeq(Head(pending).events, 1, NumToWrite)) = NumToWrite
    <3>1. pwThread \in {"writing", "retire"}
      BY <2>1
    <3>2. /\ Head(pending).events \in Seq(Event)
          /\ Len(Head(pending).events) \in Nat
          /\ NumToWrite \in 1..Len(Head(pending).events)
      BY <1>3, <3>1
    <3>3. NumToWrite \in Nat /\ 1 <= NumToWrite /\ NumToWrite <= Len(Head(pending).events)
      BY <3>2
    <3> QED
      BY <3>2, <3>3, PrefixOfSeq
  <2>3. fmq \in Seq(Event)
    BY DEF TypeOK
  <2>4. fmq' \in Seq(Event) /\ Len(fmq') <= FmqCapacity
    BY <2>1, <2>2, <2>3
  <2>5. UNCHANGED <<threadsRun, pending, sizePending, checked, init, session,
                    posted, delivered>> /\ pwThread' = "retire" /\ pending # <<>>
    BY <1>3, <1>4, <2>1 DEF WriteSucceeds
  <2> QED
    BY <2>4, <2>5 DEF TypeOK
<1>5. CASE WriteFails
  <2>1. pwThread = "writing"
    BY <1>5 DEF WriteFails
  <2>4. UNCHANGED <<threadsRun, fmq, pending, sizePending, checked, init, session, posted,
                    delivered>> /\ pwThread' = "retire" /\ pending # <<>>
    BY <1>3, <1>5, <2>1 DEF WriteFails
  <2> QED
    BY <2>4 DEF TypeOK
<1>6. CASE Retire
  <2>1. pwThread = "retire"
    BY <1>6 DEF Retire
  <2>2. AfterRetire \in Seq(PendingBatch)
    BY <1>3, <2>1, AfterRetireIs
  <2>3. sizePending' \in Int
    BY <1>3, <1>6, <2>1 DEF Retire, TypeOK
  <2>4. pending' = AfterRetire /\ pwThread' = "check"
    BY <1>6 DEF Retire
  <2>5. UNCHANGED <<threadsRun, fmq, checked, init, session, posted, delivered>>
    BY <1>6 DEF Retire
  <2> QED
    BY <2>2, <2>3, <2>4, <2>5 DEF TypeOK, PendingBatch
<1> QED
  BY <1>1, <1>2, <1>4, <1>5, <1>6 DEF HandlePendingWrites

LEMMA TypeRead ==
  ASSUME TypeOK, FrameworkRead
  PROVE  TypeOK'
<1>1. /\ fmq \in Seq(Event) /\ fmq # <<>>
      /\ Len(fmq) <= FmqCapacity
      /\ fmq' = Tail(fmq)
      /\ delivered \in Seq(Nat)
      /\ delivered' = Append(delivered, Head(fmq).id)
  BY DEF TypeOK, FrameworkRead
<1>2. Head(fmq).id \in Nat
  <2>1. Head(fmq) \in Event
    BY <1>1
  <2> QED
    BY <2>1 DEF Event
<1>3. /\ fmq' \in Seq(Event)
      /\ Len(fmq') <= FmqCapacity
  BY <1>1, DeliveryAssumption
<1>4. delivered' \in Seq(Nat)
  BY <1>1, <1>2
<1> QED
  BY <1>3, <1>4 DEF TypeOK, FrameworkRead

LEMMA TypeNext == TypeOK /\ [Next]_vars => TypeOK'
<1> SUFFICES ASSUME TypeOK, [Next]_vars PROVE TypeOK'
  OBVIOUS
<1>1. ASSUME NEW p \in Posters, EnterPost(p) PROVE TypeOK'
  BY <1>1 DEF TypeOK, EnterPost
<1>2. ASSUME NEW p \in Posters, NEW batch \in Batches, Commit(p, batch) PROVE TypeOK'
  BY <1>2, TypeCommit
<1>3. CASE HandlePendingWrites
  BY <1>3, TypeWrite
<1>4. CASE PwSpuriousWake
  BY <1>4 DEF TypeOK, PwSpuriousWake
<1>5. CASE FrameworkRead
  BY <1>5, TypeRead
<1>6. CASE StopFlag
  BY <1>6 DEF TypeOK, StopFlag
<1>7. CASE Drain
  BY <1>7, DeliveryAssumption DEF TypeOK, Drain, Notified
<1>8. CASE Join
  BY <1>8 DEF TypeOK, Join
<1>9. CASE Restart
  BY <1>9, DeliveryAssumption DEF TypeOK, Restart
<1>10. CASE UNCHANGED vars
  BY <1>10 DEF TypeOK, vars
<1> QED
  BY <1>1, <1>2, <1>3, <1>4, <1>5, <1>6, <1>7, <1>8, <1>9, <1>10 DEF Next, InitializeCommon

\* Every variable keeps its type, whatever the interleaving of posters, the
\* background thread, the framework and initialize.
THEOREM TypeCorrect == Spec => []TypeOK
<1>1. Spec => Safe
  BY DEF Spec
<1> QED
  BY <1>1, TypeInit, TypeNext, PTL DEF Safe

-----------------------------------------------------------------------------
(* Order.                                                                  *)

\* No event has a later number than the last one posted.
WithinPosted ==
  /\ \A id \in ReadIds \cup Ids(fmq) : id <= posted
  /\ \A b \in DOMAIN Unwritten : \A id \in Ids(Unwritten[b].events) : id <= posted

OrderInv == TypeOK /\ InOrder /\ WithinPosted

LEMMA IdsType ==
  ASSUME NEW s \in Seq(Event)
  PROVE  /\ Ids(s) \subseteq Nat
         /\ \A i \in DOMAIN s : s[i].id \in Nat
<1>1. \A i \in DOMAIN s : s[i] \in Event
  OBVIOUS
<1>2. \A i \in DOMAIN s : s[i].id \in Nat
  BY <1>1 DEF Event
<1> QED
  BY <1>2 DEF Ids

LEMMA ConcatOrder ==
  ASSUME NEW s \in Seq(Event), NEW t \in Seq(Event)
  PROVE  /\ Ids(s \o t) = Ids(s) \cup Ids(t)
         /\ Increasing(s) /\ Increasing(t) /\ Before(Ids(s), Ids(t)) => Increasing(s \o t)
<1>1. /\ DOMAIN s = 1..Len(s) /\ DOMAIN t = 1..Len(t)
      /\ Len(s) \in Nat /\ Len(t) \in Nat
      /\ DOMAIN (s \o t) = 1..(Len(s) + Len(t))
      /\ \A i \in 1..Len(s) : (s \o t)[i] = s[i]
      /\ \A i \in 1..Len(t) : (s \o t)[Len(s) + i] = t[i]
      /\ \A i \in Len(s)+1..Len(s)+Len(t) : i - Len(s) \in 1..Len(t) /\ (s \o t)[i] = t[i - Len(s)]
  OBVIOUS
<1> DEFINE st == s \o t
<1> HIDE DEF st
<1>2. Ids(st) = Ids(s) \cup Ids(t)
  <2>1. ASSUME NEW i \in DOMAIN st PROVE st[i].id \in Ids(s) \cup Ids(t)
    <3>1. CASE i \in 1..Len(s)
      BY <1>1, <3>1 DEF Ids, st
    <3>2. CASE i \in Len(s)+1..Len(s)+Len(t)
      BY <1>1, <3>2 DEF Ids, st
    <3> QED
      BY <1>1, <3>1, <3>2 DEF st
  <2>2. ASSUME NEW i \in DOMAIN s PROVE s[i].id \in Ids(st)
    <3>1. i \in DOMAIN st /\ st[i] = s[i]
      BY <1>1 DEF st
    <3> QED
      BY <3>1 DEF Ids
  <2>3. ASSUME NEW i \in DOMAIN t PROVE t[i].id \in Ids(st)
    <3>1. Len(s) + i \in DOMAIN st /\ st[Len(s) + i] = t[i]
      BY <1>1 DEF st
    <3> QED
      BY <3>1 DEF Ids
  <2> QED
    BY <2>1, <2>2, <2>3 DEF Ids
<1>3. ASSUME Increasing(s), Increasing(t), Before(Ids(s), Ids(t)),
             NEW i \in DOMAIN st, NEW j \in DOMAIN st, i < j
      PROVE  st[i].id < st[j].id
  <2>1. CASE j \in 1..Len(s)
    BY <1>1, <1>3, <2>1 DEF Increasing, st
  <2>2. CASE i \in 1..Len(s) /\ j \in Len(s)+1..Len(s)+Len(t)
    <3>1. s[i].id \in Ids(s) /\ t[j - Len(s)].id \in Ids(t)
      BY <1>1, <2>2 DEF Ids
    <3>2. st[i] = s[i] /\ st[j] = t[j - Len(s)]
      BY <1>1, <2>2 DEF st
    <3> QED
      BY <1>3, <3>1, <3>2 DEF Before
  <2>3. CASE i \in Len(s)+1..Len(s)+Len(t)
    <3>1. i - Len(s) \in DOMAIN t /\ j - Len(s) \in DOMAIN t /\ i - Len(s) < j - Len(s)
      BY <1>1, <1>3, <2>3 DEF st
    <3>2. st[i] = t[i - Len(s)] /\ st[j] = t[j - Len(s)]
      BY <1>1, <1>3, <2>3 DEF st
    <3> QED
      BY <1>3, <3>1, <3>2 DEF Increasing
  <2> QED
    BY <1>1, <1>3, <2>1, <2>2, <2>3 DEF st
<1> QED
  BY <1>2, <1>3 DEF st, Increasing

LEMMA PartOrder ==
  ASSUME NEW s \in Seq(Event), NEW m \in Nat, NEW n \in Nat, 1 <= m, n <= Len(s)
  PROVE  /\ Ids(SubSeq(s, m, n)) \subseteq Ids(s)
         /\ Increasing(s) => Increasing(SubSeq(s, m, n))
<1> DEFINE u == SubSeq(s, m, n)
<1>1. /\ u \in Seq(Event)
      /\ Len(u) = IF m <= n THEN n - m + 1 ELSE 0
      /\ \A i \in 1..Len(u) : u[i] = s[m + i - 1]
  BY PartOfSeq
<1> HIDE DEF u
<1>2. DOMAIN u = 1..Len(u) /\ DOMAIN s = 1..Len(s) /\ Len(s) \in Nat
  BY <1>1
<1>3. \A i \in DOMAIN u : m + i - 1 \in DOMAIN s /\ u[i] = s[m + i - 1]
  BY <1>1, <1>2
<1>4. Ids(u) \subseteq Ids(s)
  BY <1>3 DEF Ids
<1>5. ASSUME Increasing(s), NEW i \in DOMAIN u, NEW j \in DOMAIN u, i < j
      PROVE  u[i].id < u[j].id
  <2>1. m + i - 1 < m + j - 1
    BY <1>2, <1>5
  <2> QED
    BY <1>3, <1>5, <2>1 DEF Increasing
<1> QED
  BY <1>4, <1>5 DEF u, Increasing

LEMMA ShiftIndex ==
  ASSUME NEW k \in Nat, NEW n \in Nat, NEW j \in Nat,
         1 <= j, j <= (IF k + 1 <= n THEN n - (k + 1) + 1 ELSE 0)
  PROVE  (k + 1) + j - 1 = k + j /\ k + j \in 1..n
<1>1. CASE k + 1 <= n
  <2>1. j <= n - (k + 1) + 1
    BY <1>1
  <2> QED
    BY <2>1
<1>2. CASE ~(k + 1 <= n)
  <2>1. j <= 0
    BY <1>2
  <2> QED
    BY <2>1
<1> QED
  BY <1>1, <1>2

LEMMA SplitOrder ==
  ASSUME NEW s \in Seq(Event), NEW k \in Nat, k <= Len(s), Increasing(s)
  PROVE  Before(Ids(SubSeq(s, 1, k)), Ids(SubSeq(s, k + 1, Len(s))))
<1> DEFINE u == SubSeq(s, 1, k)
           v == SubSeq(s, k + 1, Len(s))
<1>1. Len(s) \in Nat /\ DOMAIN s = 1..Len(s)
  OBVIOUS
<1>2. /\ u \in Seq(Event)
      /\ Len(u) = k
      /\ \A i \in 1..Len(u) : u[i] = s[i]
  BY PartOfSeq, <1>1
<1>3. ASSUME NEW j \in DOMAIN v
      PROVE  k + j \in DOMAIN s /\ v[j] = s[k + j] /\ j \in Nat \ {0}
  <2>1. /\ v \in Seq(Event)
        /\ Len(v) = IF k + 1 <= Len(s) THEN Len(s) - (k + 1) + 1 ELSE 0
        /\ \A i \in 1..Len(v) : v[i] = s[(k + 1) + i - 1]
    BY PartOfSeq, <1>1
  <2> HIDE DEF v
  <2>2. j \in 1..Len(v)
    BY <2>1, <1>3
  <2>3. v[j] = s[(k + 1) + j - 1]
    BY <2>1, <2>2
  <2>4. (k + 1) + j - 1 = k + j /\ k + j \in 1..Len(s)
    <3>1. j \in Nat /\ 1 <= j /\ j <= Len(v)
      BY <2>1, <2>2
    <3>2. j <= (IF k + 1 <= Len(s) THEN Len(s) - (k + 1) + 1 ELSE 0)
      BY <3>1, <2>1
    <3> QED
      BY <3>1, <3>2, <1>1, ShiftIndex
  <2> QED
    BY <2>2, <2>3, <2>4, <1>1
<1> HIDE DEF u, v
<1>4. DOMAIN u = 1..k
  BY <1>2
<1>5. ASSUME NEW i \in DOMAIN u, NEW j \in DOMAIN v
      PROVE  u[i].id < v[j].id
  <2>1. i \in DOMAIN s /\ k + j \in DOMAIN s /\ i < k + j
    BY <1>1, <1>3, <1>4
  <2>2. u[i] = s[i] /\ v[j] = s[k + j]
    BY <1>2, <1>3, <1>4
  <2> QED
    BY <2>1, <2>2 DEF Increasing
<1> QED
  BY <1>5 DEF u, v, Before, Ids

LEMMA EntryType ==
  ASSUME NEW queue \in Seq(PendingBatch), NEW b \in DOMAIN queue
  PROVE  /\ queue[b].events \in Seq(Event)
         /\ Len(queue[b].events) \in Nat \ {0}
<1>1. queue[b] \in PendingBatch
  OBVIOUS
<1>2. queue[b].events \in Seq(Event) \ {<<>>}
  BY <1>1 DEF PendingBatch
<1> QED
  BY <1>2

\* Writing or dropping the front chunk keeps the rest of the queue in order,
\* and all of it after that chunk.
LEMMA AfterRetireOrder ==
  ASSUME pending \in Seq(PendingBatch), pending # <<>>,
         NEW A, OrderedAfter(A, pending)
  PROVE  /\ OrderedAfter(A \cup Ids(SubSeq(Head(pending).events, 1, NumToWrite)), AfterRetire)
         /\ \A b \in DOMAIN AfterRetire : \E c \in DOMAIN pending :
              Ids(AfterRetire[b].events) \subseteq Ids(pending[c].events)
<1> DEFINE front == Head(pending).events
           chunk == Ids(SubSeq(front, 1, NumToWrite))
<1>1. /\ Len(pending) \in Nat \ {0} /\ DOMAIN pending = 1..Len(pending)
      /\ 1 \in DOMAIN pending /\ Head(pending) = pending[1]
  OBVIOUS
<1>2. front \in Seq(Event) /\ Len(front) \in Nat \ {0} /\ front = pending[1].events
  BY <1>1, EntryType
<1>3. FmqCapacity \in Nat \ {0}
  BY DeliveryAssumption
<1>4. NumToWrite \in 1..Len(front)
  BY <1>2, <1>3 DEF NumToWrite, Least
<1>5. chunk \subseteq Ids(front) /\ Increasing(front)
  <2>1. Increasing(front)
    BY <1>1, <1>2 DEF OrderedAfter
  <2> QED
    BY <2>1, <1>2, <1>4, PartOrder
<1>6. ASSUME NEW c \in DOMAIN pending, 1 < c
      PROVE  Before(chunk, Ids(pending[c].events))
  <2>1. Before(Ids(front), Ids(pending[c].events))
    BY <1>1, <1>2, <1>6 DEF OrderedAfter
  <2> QED
    BY <2>1, <1>5 DEF Before
<1>7. CASE Len(front) > FmqCapacity
  <2> DEFINE rest == SubSeq(front, FmqCapacity + 1, Len(front))
  <2>1. /\ Len(AfterRetire) = Len(pending)
        /\ AfterRetire[1].events = rest
        /\ \A b \in 2..Len(pending) : AfterRetire[b] = pending[b]
        /\ AfterRetire \in Seq(PendingBatch)
    BY <1>7, AfterRetireIs
  <2>2. DOMAIN AfterRetire = 1..Len(pending)
    BY <2>1
  <2>3. NumToWrite = FmqCapacity
    BY <1>2, <1>3, <1>7 DEF NumToWrite, Least
  <2>4. Ids(rest) \subseteq Ids(front) /\ Increasing(rest)
    BY <1>2, <1>3, <1>5, PartOrder
  <2>5. Before(chunk, Ids(rest))
    BY <1>2, <1>3, <1>5, <1>7, <2>3, SplitOrder
  <2> HIDE DEF rest, chunk, front
  <2>6. ASSUME NEW b \in DOMAIN AfterRetire
        PROVE  /\ Ids(AfterRetire[b].events) \subseteq Ids(pending[b].events)
               /\ Increasing(AfterRetire[b].events)
               /\ Before(chunk, Ids(AfterRetire[b].events))
    <3>1. CASE b = 1
      BY <3>1, <1>2, <2>1, <2>4, <2>5
    <3>2. CASE b \in 2..Len(pending)
      <4>1. b \in DOMAIN pending /\ 1 < b /\ AfterRetire[b] = pending[b]
        BY <3>2, <1>1, <2>1
      <4>2. Increasing(pending[b].events)
        BY <4>1 DEF OrderedAfter
      <4> QED
        BY <4>1, <4>2, <1>6
    <3> QED
      BY <3>1, <3>2, <2>2, <1>1
  <2>7. DOMAIN AfterRetire = DOMAIN pending
    BY <1>1, <2>2
  <2>8. OrderedAfter(A \cup chunk, AfterRetire)
    <3> SUFFICES ASSUME NEW b \in DOMAIN AfterRetire
                 PROVE  /\ Increasing(AfterRetire[b].events)
                        /\ Before(A \cup chunk, Ids(AfterRetire[b].events))
                        /\ \A c \in DOMAIN AfterRetire : b < c =>
                             Before(Ids(AfterRetire[b].events), Ids(AfterRetire[c].events))
      BY DEF OrderedAfter
    <3>1. Before(A, Ids(AfterRetire[b].events))
      BY <2>6, <2>7 DEF OrderedAfter, Before
    <3>2. Before(A \cup chunk, Ids(AfterRetire[b].events))
      BY <3>1, <2>6 DEF Before
    <3>3. ASSUME NEW c \in DOMAIN AfterRetire, b < c
          PROVE  Before(Ids(AfterRetire[b].events), Ids(AfterRetire[c].events))
      <4>1. Before(Ids(pending[b].events), Ids(pending[c].events))
        BY <3>3, <2>7 DEF OrderedAfter
      <4> QED
        BY <4>1, <2>6, <3>3 DEF Before
    <3> QED
      BY <3>2, <3>3, <2>6
  <2> QED
    BY <2>6, <2>7, <2>8 DEF chunk, front
<1>8. CASE Len(front) <= FmqCapacity
  <2>1. AfterRetire = Tail(pending)
    BY <1>2, <1>3, <1>8, AfterRetireIs
  <2>2. ASSUME NEW b \in DOMAIN AfterRetire
        PROVE  /\ b + 1 \in DOMAIN pending /\ 1 < b + 1
               /\ AfterRetire[b] = pending[b + 1]
    BY <2>1, <1>1
  <2>3. ASSUME NEW b \in DOMAIN AfterRetire, NEW c \in DOMAIN AfterRetire, b < c
        PROVE  b + 1 < c + 1
    BY <2>1, <2>3, <1>1
  <2> HIDE DEF chunk, front
  <2>4. OrderedAfter(A \cup chunk, AfterRetire)
    <3> SUFFICES ASSUME NEW b \in DOMAIN AfterRetire
                 PROVE  /\ Increasing(AfterRetire[b].events)
                        /\ Before(A \cup chunk, Ids(AfterRetire[b].events))
                        /\ \A c \in DOMAIN AfterRetire : b < c =>
                             Before(Ids(AfterRetire[b].events), Ids(AfterRetire[c].events))
      BY DEF OrderedAfter
    <3>1. /\ Increasing(pending[b + 1].events)
          /\ Before(A, Ids(pending[b + 1].events))
          /\ Before(chunk, Ids(pending[b + 1].events))
      BY <2>2, <1>6 DEF OrderedAfter
    <3>2. Before(A \cup chunk, Ids(AfterRetire[b].events))
      BY <3>1, <2>2 DEF Before
    <3>3. ASSUME NEW c \in DOMAIN AfterRetire, b < c
          PROVE  Before(Ids(AfterRetire[b].events), Ids(AfterRetire[c].events))
      BY <3>3, <2>2, <2>3 DEF OrderedAfter
    <3> QED
      BY <3>1, <3>2, <3>3, <2>2
  <2> QED
    BY <2>2, <2>4 DEF chunk, front
<1>9. Len(front) > FmqCapacity \/ Len(front) <= FmqCapacity
  BY <1>2, <1>3
<1> QED
  BY <1>7, <1>8, <1>9

LEMMA AppendOrder ==
  ASSUME NEW queue \in Seq(PendingBatch), NEW entry \in PendingBatch,
         NEW A, OrderedAfter(A, queue),
         Increasing(entry.events), Before(A, Ids(entry.events)),
         \A b \in DOMAIN queue : Before(Ids(queue[b].events), Ids(entry.events))
  PROVE  OrderedAfter(A, Append(queue, entry))
<1> DEFINE longer == Append(queue, entry)
<1>1. /\ Len(queue) \in Nat /\ DOMAIN queue = 1..Len(queue)
      /\ DOMAIN longer = 1..(Len(queue) + 1)
      /\ longer[Len(queue) + 1] = entry
      /\ \A b \in 1..Len(queue) : longer[b] = queue[b]
  OBVIOUS
<1> HIDE DEF longer
<1>2. ASSUME NEW b \in DOMAIN longer
      PROVE  /\ Increasing(longer[b].events)
             /\ Before(A, Ids(longer[b].events))
  <2>1. CASE b \in DOMAIN queue
    BY <2>1, <1>1 DEF OrderedAfter
  <2>2. CASE b = Len(queue) + 1
    BY <2>2, <1>1
  <2> QED
    BY <2>1, <2>2, <1>1
<1>3. ASSUME NEW b \in DOMAIN longer, NEW c \in DOMAIN longer, b < c
      PROVE  Before(Ids(longer[b].events), Ids(longer[c].events))
  <2>1. b \in DOMAIN queue /\ longer[b] = queue[b]
    BY <1>1, <1>3
  <2>2. CASE c \in DOMAIN queue
    BY <2>1, <2>2, <1>1, <1>3 DEF OrderedAfter
  <2>3. CASE c = Len(queue) + 1
    BY <2>1, <2>3, <1>1
  <2> QED
    BY <2>2, <2>3, <1>1
<1> QED
  BY <1>2, <1>3 DEF longer, OrderedAfter

LEMMA NotLast ==
  ASSUME NEW n \in Nat, NEW i \in 1..n, i # n
  PROVE  i \in 1..(n - 1) /\ i + 1 \in 1..n
OBVIOUS

LEMMA TailOfAppend ==
  ASSUME NEW S, NEW s \in Seq(S), s # <<>>, NEW e \in S
  PROVE  Head(Append(s, e)) = Head(s) /\ Tail(Append(s, e)) = Append(Tail(s), e)
<1>1. /\ Append(s, e) \in Seq(S) /\ Append(s, e) # <<>>
      /\ Len(Append(s, e)) = Len(s) + 1 /\ Len(s) \in Nat \ {0}
      /\ Tail(s) \in Seq(S) /\ Len(Tail(s)) = Len(s) - 1
      /\ \A i \in 1..Len(s) - 1 : Tail(s)[i] = s[i + 1]
  OBVIOUS
<1>2. /\ Tail(Append(s, e)) \in Seq(S) /\ Len(Tail(Append(s, e))) = Len(s)
      /\ \A i \in 1..Len(s) : Tail(Append(s, e))[i] = Append(s, e)[i + 1]
  BY <1>1
<1>3. /\ Append(Tail(s), e) \in Seq(S) /\ Len(Append(Tail(s), e)) = Len(s)
      /\ \A i \in 1..Len(s) - 1 : Append(Tail(s), e)[i] = s[i + 1]
      /\ Append(Tail(s), e)[Len(s)] = e
  BY <1>1
<1>4. ASSUME NEW i \in 1..Len(s) PROVE Tail(Append(s, e))[i] = Append(Tail(s), e)[i]
  <2>1. CASE i = Len(s)
    <3>1. Append(s, e)[Len(s) + 1] = e
      OBVIOUS
    <3> QED
      BY <3>1, <2>1, <1>1, <1>2, <1>3
  <2>2. CASE i # Len(s)
    <3>1. i \in 1..Len(s) - 1 /\ i + 1 \in 1..Len(s)
      BY <2>2, <1>1, NotLast
    <3>2. Append(s, e)[i + 1] = s[i + 1]
      BY <3>1
    <3> QED
      BY <3>1, <3>2, <1>2, <1>3
  <2> QED
    BY <2>1, <2>2
<1>5. Tail(Append(s, e)) = Append(Tail(s), e)
  BY <1>2, <1>3, <1>4, SeqEqual
<1> QED
  BY <1>1, <1>5

\* A batch queued while the background thread is between writing and retiring
\* ends up behind what is left of the front batch.
LEMMA UnwrittenAppended ==
  ASSUME TypeOK, NEW entry \in PendingBatch,
         pending' = Append(pending, entry), pwThread' = Notified(pwThread)
  PROVE  Unwritten' = Append(Unwritten, entry)
<1>1. pending \in Seq(PendingBatch)
  BY DEF TypeOK, PendingBatch
<1>2. CASE pwThread = "retire"
  <2>1. pwThread' = "retire" /\ pending # <<>>
    BY <1>2 DEF Notified, TypeOK
  <2>2. Head(pending') = Head(pending) /\ Tail(pending') = Append(Tail(pending), entry)
    BY <1>1, <2>1, TailOfAppend
  <2>3. AfterRetire' = Append(AfterRetire, entry)
    <3>1. CASE Len(Head(pending).events) > FmqCapacity
      <4> DEFINE rest  == [events |-> SubSeq(Head(pending).events, FmqCapacity + 1,
                                             Len(Head(pending).events)),
                           numWakeup |-> Head(pending).numWakeup]
      <4>1. AfterRetire = <<rest>> \o Tail(pending)
        BY <3>1 DEF AfterRetire
      <4>2. AfterRetire' = <<rest>> \o Append(Tail(pending), entry)
        BY <3>1, <2>2 DEF AfterRetire
      <4> DEFINE All == PendingBatch \cup {rest}
      <4>3. <<rest>> \in Seq(All) /\ Tail(pending) \in Seq(All) /\ entry \in All
        <5>1. Tail(pending) \in Seq(PendingBatch)
          BY <1>1, <2>1
        <5>2. Tail(pending) \in Seq(All)
          BY <5>1, SeqMonotonic, PendingBatch \subseteq All
        <5> HIDE DEF rest
        <5> QED
          BY <5>2
      <4> HIDE DEF rest, All
      <4>4. Append(Tail(pending), entry) = Tail(pending) \o <<entry>>
        BY <4>3, AppendIsConcat
      <4>5. <<rest>> \o Tail(pending) \in Seq(All) /\ <<entry>> \in Seq(All)
        BY <4>3
      <4>6. Append(<<rest>> \o Tail(pending), entry) = (<<rest>> \o Tail(pending)) \o <<entry>>
        BY <4>3, <4>5, AppendIsConcat
      <4>7. (<<rest>> \o Tail(pending)) \o <<entry>> = <<rest>> \o (Tail(pending) \o <<entry>>)
        BY <4>3, <4>5, ConcatAssociative
      <4> QED
        BY <4>1, <4>2, <4>4, <4>6, <4>7
    <3>2. CASE ~(Len(Head(pending).events) > FmqCapacity)
      BY <3>2, <2>2 DEF AfterRetire
    <3> QED
      BY <3>1, <3>2
  <2> QED
    BY <1>2, <2>1, <2>3 DEF Unwritten
<1>3. CASE pwThread # "retire"
  BY <1>3 DEF Unwritten, Notified
<1> QED
  BY <1>2, <1>3

LEMMA UnwrittenType == TypeOK => Unwritten \in Seq(PendingBatch)
<1> SUFFICES ASSUME TypeOK PROVE Unwritten \in Seq(PendingBatch)
  OBVIOUS
<1>1. pending \in Seq(PendingBatch)
  BY DEF TypeOK, PendingBatch
<1>2. CASE pwThread = "retire"
  <2>1. pending # <<>>
    BY <1>2 DEF TypeOK
  <2> QED
    BY <1>1, <1>2, <2>1, AfterRetireIs DEF Unwritten
<1>3. CASE pwThread # "retire"
  BY <1>1, <1>3 DEF Unwritten
<1> QED
  BY <1>2, <1>3

LEMMA StampedOrder ==
  ASSUME NEW batch \in Batches, NEW s \in Nat, posted \in Nat
  PROVE  /\ Increasing(Stamped(batch, s))
         /\ \A id \in Ids(Stamped(batch, s)) : posted < id /\ id <= posted + Len(batch)
<1> DEFINE events == Stamped(batch, s)
<1>1. /\ Len(batch) \in Nat /\ DOMAIN events = 1..Len(batch)
      /\ \A i \in 1..Len(batch) : events[i].id = posted + i
  BY StampedIs
<1> HIDE DEF events
<1>2. Increasing(events)
  BY <1>1 DEF Increasing
<1>3. \A id \in Ids(events) : posted < id /\ id <= posted + Len(batch)
  BY <1>1 DEF Ids
<1> QED
  BY <1>2, <1>3 DEF events

-----------------------------------------------------------------------------
LEMMA OrderInit == Init => OrderInv
<1> SUFFICES ASSUME Init PROVE OrderInv
  OBVIOUS
<1>1. /\ fmq = <<>> /\ delivered = <<>> /\ Unwritten = <<>> /\ posted = 0
  BY DEF Init, Unwritten
<1>2. DOMAIN fmq = {} /\ DOMAIN delivered = {} /\ DOMAIN Unwritten = {}
  BY <1>1
<1>3. Ids(fmq) = {} /\ ReadIds = {}
  BY <1>2 DEF Ids, ReadIds
<1> QED
  BY <1>2, <1>3, TypeInit DEF OrderInv, InOrder, WithinPosted, Increasing, Before, OrderedAfter

LEMMA OrderedAfterLess ==
  ASSUME NEW A, NEW B, B \subseteq A, NEW queue, OrderedAfter(A, queue)
  PROVE  OrderedAfter(B, queue)
BY DEF OrderedAfter, Before

LEMMA BeforeBound ==
  ASSUME NEW A \in SUBSET Nat, NEW B \in SUBSET Nat, NEW n \in Nat,
         \A a \in A : a <= n, \A b \in B : n < b
  PROVE  Before(A, B)
BY DEF Before

\* Steps that leave the three places an event can be in alone, or empty them.
LEMMA OrderKept ==
  ASSUME OrderInv, TypeOK', delivered' = delivered, posted' = posted,
         fmq' = fmq \/ fmq' = <<>>,
         Unwritten' = Unwritten \/ Unwritten' = <<>>
  PROVE  OrderInv'
<1>1. ReadIds' = ReadIds
  BY DEF ReadIds
<1>2. Ids(fmq)' \subseteq Ids(fmq) /\ Increasing(fmq)'
  <2>1. CASE fmq' = fmq
    BY <2>1 DEF OrderInv, InOrder, Ids, Increasing
  <2>2. CASE fmq' = <<>>
    <3>1. DOMAIN fmq' = {}
      BY <2>2
    <3> QED
      BY <3>1 DEF Ids, Increasing
  <2> QED
    BY <2>1, <2>2
<1>3. OrderedAfter(ReadIds \cup Ids(fmq), Unwritten)'
  <2>1. CASE Unwritten' = Unwritten
    <3>1. OrderedAfter(ReadIds \cup Ids(fmq), Unwritten)
      BY DEF OrderInv, InOrder
    <3>2. (ReadIds \cup Ids(fmq))' \subseteq ReadIds \cup Ids(fmq)
      BY <1>1, <1>2
    <3>3. OrderedAfter((ReadIds \cup Ids(fmq))', Unwritten)
      BY <3>1, <3>2, OrderedAfterLess
    <3> QED
      BY <2>1, <3>3
  <2>2. CASE Unwritten' = <<>>
    <3>1. DOMAIN Unwritten' = {}
      BY <2>2
    <3> QED
      BY <3>1 DEF OrderedAfter
  <2> QED
    BY <2>1, <2>2
<1>4. Before(ReadIds, Ids(fmq))'
  BY <1>1, <1>2 DEF OrderInv, InOrder, Before
<1>5. WithinPosted'
  <2>1. \A id \in (ReadIds \cup Ids(fmq))' : id <= posted'
    BY <1>1, <1>2 DEF OrderInv, WithinPosted
  <2>2. \A b \in DOMAIN Unwritten' : \A id \in Ids(Unwritten'[b].events) : id <= posted'
    <3>1. CASE Unwritten' = Unwritten
      BY <3>1 DEF OrderInv, WithinPosted
    <3>2. CASE Unwritten' = <<>>
      <4>1. DOMAIN Unwritten' = {}
        BY <3>2
      <4> QED
        BY <4>1
    <3> QED
      BY <3>1, <3>2
  <2> QED
    BY <2>1, <2>2 DEF WithinPosted, Ids
<1>6. \A i, j \in DOMAIN delivered' : i < j => delivered'[i] < delivered'[j]
  BY DEF OrderInv, InOrder
<1> QED
  BY <1>2, <1>3, <1>4, <1>5, <1>6 DEF OrderInv, InOrder

LEMMA OrderRead ==
  ASSUME OrderInv, TypeOK', FrameworkRead
  PROVE  OrderInv'
<1>1. /\ fmq \in Seq(Event) /\ fmq # <<>> /\ fmq' = Tail(fmq)
      /\ delivered \in Seq(Nat) /\ delivered' = Append(delivered, Head(fmq).id)
      /\ Increasing(fmq) /\ Before(ReadIds, Ids(fmq))
  BY DEF OrderInv, InOrder, TypeOK, FrameworkRead
<1>2. /\ Len(fmq) \in Nat \ {0} /\ DOMAIN fmq = 1..Len(fmq) /\ 1 \in DOMAIN fmq
      /\ Head(fmq) = fmq[1]
      /\ \A i \in DOMAIN fmq' : /\ i + 1 \in DOMAIN fmq /\ fmq'[i] = fmq[i + 1]
                                 /\ 1 < i + 1 /\ i \in Nat
  BY <1>1
<1>3. Head(fmq).id \in Ids(fmq) /\ Head(fmq).id \in Nat
  BY <1>1, <1>2, IdsType DEF Ids
<1>4. Ids(fmq)' \subseteq Ids(fmq) /\ Before({Head(fmq).id}, Ids(fmq)')
  BY <1>1, <1>2 DEF Ids, Before, Increasing
<1>5. Increasing(fmq)'
  <2>1. ASSUME NEW i \in DOMAIN fmq', NEW j \in DOMAIN fmq', i < j
        PROVE  i + 1 < j + 1
    BY <2>1, <1>2
  <2> QED
    BY <2>1, <1>1, <1>2 DEF Increasing
<1>6. ReadIds' = ReadIds \cup {Head(fmq).id}
  <2> DEFINE id == Head(fmq).id
             longer == Append(delivered, id)
  <2>1. /\ DOMAIN longer = 1..(Len(delivered) + 1) /\ Len(delivered) \in Nat
        /\ DOMAIN delivered = 1..Len(delivered)
        /\ longer[Len(delivered) + 1] = id
        /\ \A i \in 1..Len(delivered) : longer[i] = delivered[i]
    BY <1>1
  <2>2. delivered' = longer
    BY <1>1
  <2> HIDE DEF longer, id
  <2>3. ReadIds' = {longer[i] : i \in DOMAIN longer}
    BY <2>2 DEF ReadIds
  <2>4. \A i \in DOMAIN longer : i = Len(delivered) + 1 \/ i \in DOMAIN delivered
    BY <2>1
  <2>5. DOMAIN delivered \subseteq DOMAIN longer /\ Len(delivered) + 1 \in DOMAIN longer
    BY <2>1
  <2>6. ReadIds' = ReadIds \cup {id}
    BY <2>1, <2>3, <2>4, <2>5 DEF ReadIds
  <2> QED
    BY <2>6 DEF id
<1>7. \A i, j \in DOMAIN delivered' : i < j => delivered'[i] < delivered'[j]
  <2> SUFFICES ASSUME NEW i \in DOMAIN delivered', NEW j \in DOMAIN delivered', i < j
               PROVE  delivered'[i] < delivered'[j]
    OBVIOUS
  <2>1. /\ DOMAIN delivered = 1..Len(delivered) /\ Len(delivered) \in Nat
        /\ DOMAIN delivered' = 1..(Len(delivered) + 1)
        /\ delivered'[Len(delivered) + 1] = Head(fmq).id
        /\ \A k \in 1..Len(delivered) : delivered'[k] = delivered[k]
    BY <1>1, <1>3
  <2>2. i \in DOMAIN delivered /\ delivered'[i] = delivered[i]
    BY <2>1
  <2>3. CASE j \in DOMAIN delivered
    BY <2>1, <2>2, <2>3 DEF OrderInv, InOrder
  <2>4. CASE j = Len(delivered) + 1
    <3>1. delivered[i] \in ReadIds
      BY <2>2 DEF ReadIds
    <3> QED
      BY <2>1, <2>2, <2>4, <3>1, <1>1, <1>3 DEF Before
  <2> QED
    BY <2>1, <2>3, <2>4
<1>8. Before(ReadIds, Ids(fmq))'
  BY <1>1, <1>4, <1>6 DEF Before
<1>9. Unwritten' = Unwritten /\ posted' = posted
  BY DEF FrameworkRead, Unwritten, AfterRetire
<1>10. OrderedAfter(ReadIds \cup Ids(fmq), Unwritten)'
  <2>1. OrderedAfter(ReadIds \cup Ids(fmq), Unwritten)
    BY DEF OrderInv, InOrder
  <2>2. (ReadIds \cup Ids(fmq))' \subseteq ReadIds \cup Ids(fmq)
    BY <1>3, <1>4, <1>6
  <2>3. OrderedAfter((ReadIds \cup Ids(fmq))', Unwritten)
    BY <2>1, <2>2, OrderedAfterLess
  <2> QED
    BY <1>9, <2>3 DEF OrderedAfter
<1>11. WithinPosted'
  <2>1. \A id \in (ReadIds \cup Ids(fmq))' : id <= posted'
    BY <1>3, <1>4, <1>6, <1>9 DEF OrderInv, WithinPosted
  <2>2. \A b \in DOMAIN Unwritten' : \A id \in Ids(Unwritten'[b].events) : id <= posted'
    BY <1>9 DEF OrderInv, WithinPosted
  <2> QED
    BY <2>1, <2>2 DEF WithinPosted, Ids
<1> QED
  BY <1>5, <1>7, <1>8, <1>10, <1>11 DEF OrderInv, InOrder

\* writeBlocking of the front chunk, whether it succeeds or fails.
LEMMA OrderWrite ==
  ASSUME OrderInv, TypeOK', pwThread = "writing", pwThread' = "retire",
         pending' = pending, delivered' = delivered, posted' = posted,
         \/ fmq' = fmq
         \/ fmq' = fmq \o SubSeq(Head(pending).events, 1, NumToWrite)
  PROVE  OrderInv'
<1> DEFINE front == Head(pending).events
           chunk == SubSeq(front, 1, NumToWrite)
           A == ReadIds \cup Ids(fmq)
<1>1. /\ pending \in Seq(PendingBatch) /\ pending # <<>>
      /\ Unwritten = pending
      /\ fmq \in Seq(Event) /\ Increasing(fmq) /\ Before(ReadIds, Ids(fmq))
      /\ OrderedAfter(A, pending)
  BY DEF OrderInv, InOrder, TypeOK, PendingBatch, Unwritten
<1>2. Unwritten' = AfterRetire
  BY DEF Unwritten, AfterRetire
<1>3. 1 \in DOMAIN pending /\ Head(pending) = pending[1]
  BY <1>1
<1>4. front \in Seq(Event) /\ Len(front) \in Nat \ {0}
  BY <1>1, <1>3, EntryType
<1>5. NumToWrite \in 1..Len(front)
  BY <1>4, DeliveryAssumption DEF NumToWrite, Least
<1>6. Increasing(front) /\ Before(A, Ids(front))
  BY <1>1, <1>3 DEF OrderedAfter
<1>7. chunk \in Seq(Event) /\ Ids(chunk) \subseteq Ids(front) /\ Increasing(chunk)
  BY <1>4, <1>5, <1>6, PartOrder, PartOfSeq
<1>8. /\ OrderedAfter(A \cup Ids(chunk), AfterRetire)
      /\ \A b \in DOMAIN AfterRetire : \E c \in DOMAIN pending :
           Ids(AfterRetire[b].events) \subseteq Ids(pending[c].events)
  BY <1>1, AfterRetireOrder
<1> HIDE DEF chunk, front
<1>9. Ids(fmq') \subseteq Ids(fmq) \cup Ids(chunk) /\ Increasing(fmq')
  <2>1. CASE fmq' = fmq
    BY <2>1, <1>1
  <2>2. CASE fmq' = fmq \o chunk
    <3>1. Before(Ids(fmq), Ids(chunk))
      BY <1>6, <1>7 DEF Before
    <3> QED
      BY <2>2, <3>1, <1>1, <1>7, ConcatOrder
  <2> QED
    BY <2>1, <2>2 DEF chunk, front
<1>10. ReadIds' = ReadIds
  BY DEF ReadIds
<1>11. Before(ReadIds, Ids(fmq')) /\ ReadIds \cup Ids(fmq') \subseteq A \cup Ids(chunk)
  BY <1>1, <1>6, <1>7, <1>9 DEF Before
<1>12. OrderedAfter(ReadIds \cup Ids(fmq'), AfterRetire)
  <2> HIDE DEF A
  <2> QED
    BY <1>8, <1>11, OrderedAfterLess
<1>13. /\ \A id \in ReadIds \cup Ids(fmq') : id <= posted
       /\ \A b \in DOMAIN AfterRetire : \A id \in Ids(AfterRetire[b].events) : id <= posted
  <2>1. /\ \A id \in A : id <= posted
        /\ \A c \in DOMAIN pending : \A id \in Ids(pending[c].events) : id <= posted
    BY <1>1 DEF OrderInv, WithinPosted
  <2>2. \A id \in Ids(chunk) : id <= posted
    BY <2>1, <1>3, <1>7 DEF front
  <2> QED
    BY <2>1, <2>2, <1>8, <1>11
<1>14. InOrder'
  <2>1. \A i, j \in DOMAIN delivered' : i < j => delivered'[i] < delivered'[j]
    BY DEF OrderInv, InOrder
  <2> QED
    BY <2>1, <1>2, <1>9, <1>10, <1>11, <1>12 DEF InOrder
<1>15. WithinPosted'
  BY <1>2, <1>10, <1>13 DEF WithinPosted
<1> QED
  BY <1>14, <1>15 DEF OrderInv

LEMMA OrderCommit ==
  ASSUME OrderInv, TypeOK', NEW p \in Posters, NEW batch \in Batches, Commit(p, batch)
  PROVE  OrderInv'
<1> DEFINE events == Stamped(batch, checked[p])
<1>1. /\ TypeOK /\ checked[p] \in Nat /\ posted \in Nat /\ fmq \in Seq(Event)
      /\ delivered' = delivered /\ posted' = posted + Len(batch)
  BY DEF OrderInv, TypeOK, Commit
<1>2. /\ events \in Seq(Event) /\ Len(events) = Len(batch) /\ Len(batch) \in Nat
      /\ Increasing(events)
      /\ \A id \in Ids(events) : posted < id /\ id <= posted + Len(batch)
  BY <1>1, StampedIs, StampedOrder
<1>3. NumWakeup(events) \in Nat
  BY <1>2, NumWakeupType
<1>4. PICK fits \in 0..Len(batch), queued \in BOOLEAN :
           LET left == SubSeq(events, fits + 1, Len(batch))
           IN /\ fits > 0 => pending = <<>>
              /\ fits + Len(fmq) <= FmqCapacity
              /\ fmq' = fmq \o SubSeq(events, 1, fits)
              /\ queued => /\ left # <<>>
                           /\ pending' = Append(pending, [events |-> left,
                                                          numWakeup |-> NumWakeup(events)])
                           /\ sizePending' = sizePending + Len(left)
                           /\ pwThread' = Notified(pwThread)
              /\ ~queued => UNCHANGED <<pending, sizePending, pwThread>>
  BY <1>1, CommitFacts
<1> HIDE DEF events
<1> DEFINE first == SubSeq(events, 1, fits)
           left  == SubSeq(events, fits + 1, Len(batch))
           entry == [events |-> left, numWakeup |-> NumWakeup(events)]
           A == ReadIds \cup Ids(fmq)
           B == A \cup Ids(first)
<1>5. /\ first \in Seq(Event) /\ Ids(first) \subseteq Ids(events) /\ Increasing(first)
      /\ fits = 0 => Len(first) = 0
  BY <1>2, <1>4, PartOfSeq, PartOrder
<1>6. left \in Seq(Event) /\ Ids(left) \subseteq Ids(events) /\ Increasing(left)
  BY <1>2, <1>4, PartOfSeq, PartOrder
<1>7. Before(Ids(first), Ids(left))
  <2>1. fits \in Nat /\ fits <= Len(events)
    BY <1>2, <1>4
  <2> QED
    BY <1>2, <2>1, SplitOrder
<1>8. \A id \in Ids(events) : posted < id /\ id \in Nat
  BY <1>2, IdsType
<1>9. /\ \A id \in A : id <= posted
      /\ \A b \in DOMAIN Unwritten : \A id \in Ids(Unwritten[b].events) : id <= posted
  BY DEF OrderInv, WithinPosted
<1>10. Unwritten \in Seq(PendingBatch)
  BY <1>1, UnwrittenType
<1>11. /\ A \subseteq Nat
       /\ \A b \in DOMAIN Unwritten : Ids(Unwritten[b].events) \subseteq Nat
  <2>1. ReadIds \subseteq Nat
    <3>1. delivered \in Seq(Nat)
      BY <1>1 DEF TypeOK
    <3>2. \A i \in DOMAIN delivered : delivered[i] \in Nat
      BY <3>1
    <3> QED
      BY <3>2 DEF ReadIds
  <2>2. Ids(fmq) \subseteq Nat
    BY <1>1, IdsType
  <2>3. ASSUME NEW b \in DOMAIN Unwritten PROVE Ids(Unwritten[b].events) \subseteq Nat
    <3>1. Unwritten[b].events \in Seq(Event)
      BY <1>10, EntryType
    <3> QED
      BY <3>1, IdsType
  <2> QED
    BY <2>1, <2>2, <2>3
<1>12. /\ Before(A, Ids(events))
       /\ \A b \in DOMAIN Unwritten : Before(Ids(Unwritten[b].events), Ids(events))
  <2>1. Ids(events) \subseteq Nat /\ \A id \in Ids(events) : posted < id
    BY <1>8
  <2> HIDE DEF A
  <2>2. Before(A, Ids(events))
    BY <2>1, <1>1, <1>9, <1>11, BeforeBound
  <2>3. ASSUME NEW b \in DOMAIN Unwritten
        PROVE  Before(Ids(Unwritten[b].events), Ids(events))
    BY <2>1, <1>1, <1>9, <1>11, BeforeBound
  <2> QED
    BY <2>2, <2>3
<1>13. Increasing(fmq) /\ Before(ReadIds, Ids(fmq)) /\ OrderedAfter(A, Unwritten)
  BY DEF OrderInv, InOrder
<1>14. fmq' = fmq \o first
  BY <1>4
<1>15. fits > 0 => Unwritten = <<>>
  BY <1>1, <1>4 DEF Unwritten, TypeOK
<1>16. queued => Unwritten' = Append(Unwritten, entry) /\ entry \in PendingBatch
  <2> SUFFICES ASSUME queued PROVE Unwritten' = Append(Unwritten, entry) /\ entry \in PendingBatch
    OBVIOUS
  <2>1. left # <<>> /\ pending' = Append(pending, entry) /\ pwThread' = Notified(pwThread)
    BY <1>4
  <2>2. entry \in PendingBatch
    BY <2>1, <1>3, <1>6 DEF PendingBatch
  <2> HIDE DEF entry
  <2> QED
    BY <2>1, <2>2, <1>1, UnwrittenAppended
<1>17. ~queued => Unwritten' = Unwritten
  BY <1>4 DEF Unwritten, AfterRetire
<1>18. entry.events = left
  OBVIOUS
<1> HIDE DEF first, left, entry
<1>19. Ids(fmq') = Ids(fmq) \cup Ids(first) /\ Increasing(fmq')
  <2>1. Before(Ids(fmq), Ids(first))
    BY <1>5, <1>12 DEF Before
  <2> QED
    BY <2>1, <1>1, <1>5, <1>13, <1>14, ConcatOrder
<1>20. ReadIds' = ReadIds
  BY <1>1 DEF ReadIds
<1>21. Before(ReadIds, Ids(fmq')) /\ ReadIds \cup Ids(fmq') = B
  BY <1>5, <1>12, <1>13, <1>19 DEF Before
<1>22. OrderedAfter(B, Unwritten)
  <2>1. CASE fits = 0
    <3>1. DOMAIN first = {}
      BY <1>5, <2>1
    <3>2. Ids(first) = {}
      BY <3>1 DEF Ids
    <3> QED
      BY <3>2, <1>13
  <2>2. CASE fits > 0
    <3>1. DOMAIN Unwritten = {}
      BY <2>2, <1>15
    <3> QED
      BY <3>1 DEF OrderedAfter
  <2>3. fits = 0 \/ fits > 0
    BY <1>2
  <2> QED
    BY <2>1, <2>2, <2>3
<1>23. OrderedAfter(B, Unwritten')
  <2>1. CASE queued
    <3>1. Before(B, Ids(entry.events)) /\ Increasing(entry.events)
      BY <1>6, <1>7, <1>12, <1>18 DEF Before
    <3>2. \A b \in DOMAIN Unwritten : Before(Ids(Unwritten[b].events), Ids(entry.events))
      BY <1>6, <1>12, <1>18 DEF Before
    <3> HIDE DEF B
    <3>3. OrderedAfter(B, Append(Unwritten, entry))
      BY <2>1, <3>1, <3>2, <1>10, <1>16, <1>22, AppendOrder
    <3> QED
      BY <2>1, <3>3, <1>16
  <2>2. CASE ~queued
    BY <2>2, <1>17, <1>22
  <2> QED
    BY <2>1, <2>2
<1>24. InOrder'
  <2>1. \A i, j \in DOMAIN delivered' : i < j => delivered'[i] < delivered'[j]
    BY <1>1 DEF OrderInv, InOrder
  <2>2. OrderedAfter(ReadIds \cup Ids(fmq'), Unwritten')
    BY <1>21, <1>23
  <2> QED
    BY <2>1, <2>2, <1>19, <1>20, <1>21 DEF InOrder
<1>25. WithinPosted'
  <2>1. posted <= posted' /\ posted' \in Nat /\ \A id \in Ids(events) : id <= posted'
    BY <1>1, <1>2
  <2>2. \A id \in A : id <= posted'
    BY <2>1, <1>1, <1>9, <1>11
  <2>3. \A id \in ReadIds \cup Ids(fmq') : id <= posted'
    BY <2>1, <2>2, <1>5, <1>19
  <2>4. \A b \in DOMAIN Unwritten : \A id \in Ids(Unwritten[b].events) : id <= posted'
    <3> SUFFICES ASSUME NEW b \in DOMAIN Unwritten, NEW id \in Ids(Unwritten[b].events)
                 PROVE  id <= posted'
      OBVIOUS
    <3>1. id \in Nat /\ id <= posted
      BY <1>9, <1>11
    <3> QED
      BY <3>1, <2>1, <1>1
  <2>5. \A b \in DOMAIN Unwritten' : \A id \in Ids(Unwritten'[b].events) : id <= posted'
    <3>1. CASE queued
      <4>1. /\ DOMAIN Unwritten' = 1..(Len(Unwritten) + 1)
            /\ DOMAIN Unwritten = 1..Len(Unwritten) /\ Len(Unwritten) \in Nat
            /\ Unwritten'[Len(Unwritten) + 1] = entry
            /\ \A b \in 1..Len(Unwritten) : Unwritten'[b] = Unwritten[b]
        BY <3>1, <1>10, <1>16
      <4>2. \A b \in DOMAIN Unwritten' : b = Len(Unwritten) + 1 \/ b \in DOMAIN Unwritten
        BY <4>1
      <4> QED
        BY <4>1, <4>2, <2>1, <2>4, <1>6, <1>18
    <3>2. CASE ~queued
      BY <3>2, <2>4, <1>17
    <3> QED
      BY <3>1, <3>2
  <2> QED
    BY <2>3, <2>5, <1>20 DEF WithinPosted
<1> QED
  BY <1>24, <1>25 DEF OrderInv

LEMMA OrderNext == OrderInv /\ [Next]_vars => OrderInv'
<1> SUFFICES ASSUME OrderInv, [Next]_vars PROVE OrderInv'
  OBVIOUS
<1>1. TypeOK'
  BY TypeNext DEF OrderInv
<1>2. ASSUME NEW p \in Posters, EnterPost(p) PROVE OrderInv'
  BY <1>1, <1>2, OrderKept DEF EnterPost, Unwritten, AfterRetire
<1>3. ASSUME NEW p \in Posters, NEW batch \in Batches, Commit(p, batch) PROVE OrderInv'
  BY <1>1, <1>3, OrderCommit
<1>4. CASE PwCheck
  BY <1>1, <1>4, OrderKept DEF PwCheck, Unwritten
<1>5. CASE PwSleep
  BY <1>1, <1>5, OrderKept DEF PwSleep, Unwritten
<1>6. CASE PwSpuriousWake
  BY <1>1, <1>6, OrderKept DEF PwSpuriousWake, Unwritten
<1>7. CASE WriteSucceeds
  BY <1>1, <1>7, OrderWrite DEF WriteSucceeds
<1>8. CASE WriteFails
  BY <1>1, <1>8, OrderWrite DEF WriteFails
<1>9. CASE Retire
  BY <1>1, <1>9, OrderKept DEF Retire, Unwritten
<1>10. CASE FrameworkRead
  BY <1>1, <1>10, OrderRead
<1>11. CASE StopFlag
  BY <1>1, <1>11, OrderKept DEF StopFlag, Unwritten, AfterRetire
<1>12. CASE Drain
  <2>1. Unwritten' = Unwritten
    BY <1>12 DEF Drain, Notified, Unwritten, AfterRetire
  <2> QED
    BY <1>1, <1>12, <2>1, OrderKept DEF Drain
<1>13. CASE Join
  BY <1>1, <1>13, OrderKept DEF Join, Unwritten, AfterRetire
<1>14. CASE Restart
  <2>1. Unwritten' = <<>>
    BY <1>14 DEF Restart, Unwritten
  <2> QED
    BY <1>1, <1>14, <2>1, OrderKept DEF Restart
<1>15. CASE UNCHANGED vars
  BY <1>1, <1>15, OrderKept DEF vars, Unwritten, AfterRetire
<1> QED
  BY <1>2, <1>3, <1>4, <1>5, <1>6, <1>7, <1>8, <1>9, <1>10, <1>11, <1>12, <1>13, <1>14,
     <1>15 DEF Next, HandlePendingWrites, InitializeCommon

\* The framework reads events in the order of posting and none twice, for any
\* number of posting threads and any batch sizes and queue capacities.
THEOREM DeliveredInOrder == Spec => []InOrder
<1>1. OrderInv => InOrder
  BY DEF OrderInv
<1>2. Spec => Safe
  BY DEF Spec
<1> QED
  BY <1>1, <1>2, OrderInit, OrderNext, PTL DEF Safe

-----------------------------------------------------------------------------
(* Sessions.                                                               *)

\* A call of postEvents under way belongs to this session as well.
SessionInv ==
  /\ TypeOK
  /\ \A p \in Posters : checked[p] \in {0, session}
  /\ NoStaleEvents

InSession(events, s) == \A i \in DOMAIN events : events[i].session = s

LEMMA PartInSession ==
  ASSUME NEW s, NEW events \in Seq(Event), NEW m \in Nat, NEW n \in Nat,
         1 <= m, n <= Len(events), InSession(events, s)
  PROVE  InSession(SubSeq(events, m, n), s)
<1> DEFINE u == SubSeq(events, m, n)
<1>1. /\ u \in Seq(Event)
      /\ Len(u) = IF m <= n THEN n - m + 1 ELSE 0
      /\ \A i \in 1..Len(u) : u[i] = events[m + i - 1]
  BY PartOfSeq
<1> HIDE DEF u
<1>2. DOMAIN u = 1..Len(u) /\ DOMAIN events = 1..Len(events) /\ Len(events) \in Nat
  BY <1>1
<1>3. \A i \in DOMAIN u : m + i - 1 \in DOMAIN events /\ u[i] = events[m + i - 1]
  BY <1>1, <1>2
<1> QED
  BY <1>3 DEF u, InSession

LEMMA ConcatInSession ==
  ASSUME NEW s, NEW e \in Seq(Event), NEW f \in Seq(Event), InSession(e, s), InSession(f, s)
  PROVE  InSession(e \o f, s)
<1>1. /\ Len(e) \in Nat /\ Len(f) \in Nat
      /\ DOMAIN e = 1..Len(e) /\ DOMAIN f = 1..Len(f)
      /\ DOMAIN (e \o f) = 1..(Len(e) + Len(f))
      /\ \A i \in 1..Len(e) : (e \o f)[i] = e[i]
      /\ \A i \in Len(e)+1..Len(e)+Len(f) : i - Len(e) \in 1..Len(f) /\ (e \o f)[i] = f[i - Len(e)]
      /\ \A i \in 1..Len(e) + Len(f) : i \in 1..Len(e) \/ i \in Len(e)+1..Len(e)+Len(f)
  OBVIOUS
<1> QED
  BY <1>1 DEF InSession

LEMMA SessionCommit ==
  ASSUME SessionInv, TypeOK', NEW p \in Posters, NEW batch \in Batches, Commit(p, batch)
  PROVE  SessionInv'
<1> DEFINE events == Stamped(batch, checked[p])
<1>1. /\ TypeOK /\ checked[p] = session /\ checked[p] \in Nat /\ posted \in Nat
      /\ fmq \in Seq(Event) /\ pending \in Seq(PendingBatch) /\ session' = session
      /\ checked \in [Posters -> Nat] /\ checked' = [checked EXCEPT ![p] = 0]
  BY DEF SessionInv, TypeOK, Commit, PendingBatch
<1>2. /\ events \in Seq(Event) /\ Len(events) = Len(batch) /\ Len(batch) \in Nat
      /\ InSession(events, session)
  <2>1. /\ events \in Seq(Event) /\ Len(events) = Len(batch) /\ Len(batch) \in Nat
        /\ \A i \in 1..Len(batch) : events[i].session = checked[p]
    BY <1>1, StampedIs
  <2>2. DOMAIN events = 1..Len(batch)
    BY <2>1
  <2> HIDE DEF events
  <2> QED
    BY <2>1, <2>2, <1>1 DEF InSession
<1>3. NumWakeup(events) \in Nat
  BY <1>2, NumWakeupType
<1>4. PICK fits \in 0..Len(batch), queued \in BOOLEAN :
           LET left == SubSeq(events, fits + 1, Len(batch))
           IN /\ fits > 0 => pending = <<>>
              /\ fits + Len(fmq) <= FmqCapacity
              /\ fmq' = fmq \o SubSeq(events, 1, fits)
              /\ queued => /\ left # <<>>
                           /\ pending' = Append(pending, [events |-> left,
                                                          numWakeup |-> NumWakeup(events)])
                           /\ sizePending' = sizePending + Len(left)
                           /\ pwThread' = Notified(pwThread)
              /\ ~queued => UNCHANGED <<pending, sizePending, pwThread>>
  BY <1>1, CommitFacts
<1> HIDE DEF events
<1> DEFINE first == SubSeq(events, 1, fits)
           left  == SubSeq(events, fits + 1, Len(batch))
           entry == [events |-> left, numWakeup |-> NumWakeup(events)]
<1>5. /\ first \in Seq(Event) /\ InSession(first, session)
      /\ left \in Seq(Event) /\ InSession(left, session)
  BY <1>2, <1>4, PartOfSeq, PartInSession
<1>6. InSession(fmq', session)
  <2>1. InSession(fmq, session)
    BY DEF SessionInv, NoStaleEvents, InSession
  <2> HIDE DEF first
  <2>2. fmq' = fmq \o first
    BY <1>4 DEF first
  <2> QED
    BY <2>1, <2>2, <1>1, <1>5, ConcatInSession
<1>7. \A b \in DOMAIN pending : InSession(pending[b].events, session)
  BY DEF SessionInv, NoStaleEvents, InSession
<1>8. \A b \in DOMAIN pending' : InSession(pending'[b].events, session)
  <2>1. CASE queued
    <3>1. pending' = Append(pending, entry) /\ entry.events = left
      BY <2>1, <1>4
    <3> HIDE DEF entry, left
    <3>2. \A b \in DOMAIN pending' :
            \/ b \in DOMAIN pending /\ pending'[b] = pending[b]
            \/ pending'[b] = entry
      BY <3>1, <1>1
    <3> QED
      BY <3>1, <3>2, <1>5, <1>7
  <2>2. CASE ~queued
    BY <2>2, <1>4, <1>7
  <2> QED
    BY <2>1, <2>2
<1>9. NoStaleEvents'
  BY <1>1, <1>6, <1>8 DEF NoStaleEvents, InSession
<1>10. \A q \in Posters : checked'[q] \in {0, session'}
  BY <1>1 DEF SessionInv
<1> QED
  BY <1>9, <1>10 DEF SessionInv

LEMMA SessionWrite ==
  ASSUME SessionInv, TypeOK', HandlePendingWrites
  PROVE  SessionInv'
<1>1. /\ TypeOK /\ pending \in Seq(PendingBatch) /\ fmq \in Seq(Event)
      /\ InSession(fmq, session)
      /\ \A b \in DOMAIN pending : InSession(pending[b].events, session)
      /\ \A p \in Posters : checked[p] \in {0, session}
  BY DEF SessionInv, NoStaleEvents, InSession, TypeOK, PendingBatch
<1>2. session' = session /\ checked' = checked
  BY DEF HandlePendingWrites, PwCheck, PwSleep, WriteSucceeds, WriteFails, Retire
<1>3. ASSUME pending # <<>>
      PROVE  /\ Head(pending).events \in Seq(Event)
             /\ Len(Head(pending).events) \in Nat \ {0}
             /\ InSession(Head(pending).events, session)
  <2>1. 1 \in DOMAIN pending /\ Head(pending) = pending[1]
    BY <1>1, <1>3
  <2> QED
    BY <2>1, <1>1, EntryType
<1>4. InSession(fmq', session)
  <2>1. CASE WriteSucceeds
    <3>1. pending # <<>> /\ fmq' = fmq \o SubSeq(Head(pending).events, 1, NumToWrite)
      BY <2>1, <1>1 DEF WriteSucceeds, TypeOK
    <3>2. NumToWrite \in Nat /\ NumToWrite <= Len(Head(pending).events)
      BY <3>1, <1>3, DeliveryAssumption DEF NumToWrite, Least
    <3>3. /\ SubSeq(Head(pending).events, 1, NumToWrite) \in Seq(Event)
          /\ InSession(SubSeq(Head(pending).events, 1, NumToWrite), session)
      BY <3>1, <3>2, <1>3, PartOfSeq, PartInSession
    <3> QED
      BY <3>1, <3>3, <1>1, ConcatInSession
  <2>2. CASE ~WriteSucceeds
    <3>1. fmq' = fmq
      BY <2>2 DEF HandlePendingWrites, PwCheck, PwSleep, WriteFails, Retire
    <3> QED
      BY <3>1, <1>1
  <2> QED
    BY <2>1, <2>2
<1>5. \A b \in DOMAIN pending' : InSession(pending'[b].events, session)
  <2>1. CASE Retire
    <3> DEFINE front == Head(pending).events
    <3>1. pending # <<>> /\ pending' = AfterRetire
      BY <2>1, <1>1 DEF Retire, TypeOK
    <3>2. FmqCapacity \in Nat \ {0} /\ Len(pending) \in Nat \ {0}
      BY <3>1, <1>1, DeliveryAssumption
    <3>3. CASE Len(front) > FmqCapacity
      <4> DEFINE rest == SubSeq(front, FmqCapacity + 1, Len(front))
      <4>1. /\ Len(AfterRetire) = Len(pending)
            /\ AfterRetire[1].events = rest
            /\ \A b \in 2..Len(pending) : AfterRetire[b] = pending[b]
            /\ AfterRetire \in Seq(PendingBatch)
        BY <3>1, <3>3, <1>1, AfterRetireIs
      <4>2. InSession(rest, session)
        BY <3>1, <3>2, <1>3, PartInSession
      <4> HIDE DEF rest, front
      <4>3. \A b \in DOMAIN AfterRetire : b = 1 \/ b \in 2..Len(pending)
        BY <4>1
      <4>4. \A b \in 2..Len(pending) : b \in DOMAIN pending
        BY <1>1
      <4> QED
        BY <4>1, <4>2, <4>3, <4>4, <3>1, <1>1
    <3>4. CASE Len(front) <= FmqCapacity
      <4>1. pending' = Tail(pending)
        BY <3>1, <3>2, <3>4, <1>1, AfterRetireIs
      <4>2. \A b \in DOMAIN pending' : b + 1 \in DOMAIN pending /\ pending'[b] = pending[b + 1]
        BY <4>1, <3>1, <3>2, <1>1
      <4> QED
        BY <4>2, <1>1
    <3>5. Len(front) > FmqCapacity \/ Len(front) <= FmqCapacity
      BY <3>1, <3>2, <1>3
    <3> QED
      BY <3>3, <3>4, <3>5
  <2>2. CASE ~Retire
    <3>1. pending' = pending
      BY <2>2 DEF HandlePendingWrites, PwCheck, PwSleep, WriteSucceeds, WriteFails
    <3> QED
      BY <3>1, <1>1
  <2> QED
    BY <2>1, <2>2
<1>6. NoStaleEvents'
  BY <1>2, <1>4, <1>5 DEF NoStaleEvents, InSession
<1> QED
  BY <1>1, <1>2, <1>6 DEF SessionInv

LEMMA SessionNext == SessionInv /\ [Next]_vars => SessionInv'
<1> SUFFICES ASSUME SessionInv, [Next]_vars PROVE SessionInv'
  OBVIOUS
<1>1. TypeOK /\ TypeOK'
  BY TypeNext DEF SessionInv
<1>2. ASSUME NEW p \in Posters, EnterPost(p) PROVE SessionInv'
  <2>1. \A q \in Posters : checked'[q] \in {0, session'}
    BY <1>1, <1>2 DEF EnterPost, SessionInv, TypeOK
  <2> QED
    BY <1>1, <1>2, <2>1 DEF EnterPost, SessionInv, NoStaleEvents
<1>3. ASSUME NEW p \in Posters, NEW batch \in Batches, Commit(p, batch) PROVE SessionInv'
  BY <1>1, <1>3, SessionCommit
<1>4. CASE HandlePendingWrites
  BY <1>1, <1>4, SessionWrite
<1>5. CASE PwSpuriousWake \/ StopFlag \/ Join
  BY <1>1, <1>5 DEF PwSpuriousWake, StopFlag, Join, SessionInv, NoStaleEvents
<1>6. CASE FrameworkRead
  <2>1. fmq \in Seq(Event) /\ fmq # <<>> /\ fmq' = Tail(fmq)
    BY <1>1, <1>6 DEF FrameworkRead, TypeOK
  <2>2. \A i \in DOMAIN fmq' : i + 1 \in DOMAIN fmq /\ fmq'[i] = fmq[i + 1]
    BY <2>1
  <2> QED
    BY <1>1, <1>6, <2>2 DEF FrameworkRead, SessionInv, NoStaleEvents
<1>7. CASE Drain
  <2>1. DOMAIN fmq' = {}
    BY <1>7 DEF Drain
  <2> QED
    BY <1>1, <1>7, <2>1 DEF Drain, SessionInv, NoStaleEvents
<1>8. CASE Restart
  <2>1. DOMAIN fmq' = {} /\ DOMAIN pending' = {}
    BY <1>8 DEF Restart
  <2> QED
    BY <1>1, <1>8, <2>1 DEF Restart, SessionInv, NoStaleEvents
<1>9. CASE UNCHANGED vars
  BY <1>1, <1>9 DEF vars, SessionInv, NoStaleEvents
<1> QED
  BY <1>2, <1>3, <1>4, <1>5, <1>6, <1>7, <1>8, <1>9 DEF Next, InitializeCommon

\* After initialize no event of an earlier session is left anywhere or can still
\* arrive, whatever was in flight when it was called.
THEOREM NothingStale == Spec => []NoStaleEvents
<1>1. Init => SessionInv
  <2> SUFFICES ASSUME Init PROVE SessionInv
    OBVIOUS
  <2>1. DOMAIN fmq = {} /\ DOMAIN pending = {} /\ \A p \in Posters : checked[p] = 0
    BY DEF Init
  <2> QED
    BY <2>1, TypeInit DEF SessionInv, NoStaleEvents
<1>2. SessionInv => NoStaleEvents
  BY DEF SessionInv
<1>3. Spec => Safe
  BY DEF Spec
<1> QED
  BY <1>1, <1>2, <1>3, SessionNext, PTL DEF Safe

-----------------------------------------------------------------------------
LEMMA WriterAlone ==
  ASSUME TypeOK, Next, pwThread = "writing", pwThread' = "writing"
  PROVE  Len(fmq') <= Len(fmq)
<1>1. fmq \in Seq(Event) /\ Len(fmq) \in Nat /\ pending # <<>>
  BY DEF TypeOK
<1>2. ASSUME NEW p \in Posters, NEW batch \in Batches, Commit(p, batch)
      PROVE  Len(fmq') <= Len(fmq)
  <2> DEFINE events == Stamped(batch, checked[p])
  <2>1. events \in Seq(Event)
    BY StampedIs DEF TypeOK
  <2>2. PICK fits \in 0..Len(batch) : /\ fits > 0 => pending = <<>>
                                     /\ fmq' = fmq \o SubSeq(events, 1, fits)
    BY <1>2, CommitFacts
  <2>3. fits = 0
    BY <1>1, <1>2, <2>2, StampedIs DEF TypeOK
  <2> HIDE DEF events
  <2>4. SubSeq(events, 1, fits) \in Seq(Event) /\ Len(SubSeq(events, 1, fits)) = 0
    BY <2>1, <2>3, PartOfSeq
  <2> QED
    BY <1>1, <2>2, <2>4
<1>3. CASE FrameworkRead
  BY <1>1, <1>3 DEF FrameworkRead
<1>4. CASE Drain \/ Restart
  <2>1. fmq' = <<>>
    BY <1>4 DEF Drain, Restart
  <2> QED
    BY <1>1, <2>1
<1>5. ASSUME \/ \E p \in Posters : EnterPost(p)
             \/ PwCheck \/ PwSleep \/ PwSpuriousWake \/ WriteFails \/ Retire
             \/ StopFlag \/ Join
      PROVE  Len(fmq') <= Len(fmq)
  <2>1. fmq' = fmq
    BY <1>5 DEF EnterPost, PwCheck, PwSleep, PwSpuriousWake, WriteFails, Retire, StopFlag, Join
  <2> QED
    BY <1>1, <2>1
<1>6. ~WriteSucceeds
  BY DEF WriteSucceeds
<1> QED
  BY <1>2, <1>3, <1>4, <1>5, <1>6 DEF Next, HandlePendingWrites, InitializeCommon

\* Posting threads and the background thread never write the FMQ at the same
\* time, although the latter writes without the mutex.
THEOREM SingleWriter == Spec => OneWriter
<1>1. TypeOK /\ [Next]_vars
        => [pwThread = "writing" /\ pwThread' = "writing" => Len(fmq') <= Len(fmq)]_vars
  BY WriterAlone DEF vars
<1>2. Spec => Safe
  BY DEF Spec
<1> QED
  BY <1>1, <1>2, TypeInit, TypeNext, PTL DEF Safe, OneWriter

-----------------------------------------------------------------------------
(* The count of the pending queue.                                         *)

Row(queue, b) == {b} \X DOMAIN queue[b].events
Slots(queue) == UNION {Row(queue, b) : b \in DOMAIN queue}

\* That the places are finitely many is carried along, one batch at a time.
CountInv == TypeOK /\ IsFiniteSet(PendingSlots) /\ PendingCounted

LEMMA SlotIs ==
  ASSUME NEW queue, NEW x
  PROVE  x \in Slots(queue) <=> \E b \in DOMAIN queue : \E i \in DOMAIN queue[b].events : x = <<b, i>>
<1>1. \A b : x \in Row(queue, b) <=> \E i \in DOMAIN queue[b].events : x = <<b, i>>
  BY DEF Row
<1>2. x \in Slots(queue) <=> \E b \in DOMAIN queue : x \in Row(queue, b)
  BY DEF Slots
<1> QED
  BY <1>1, <1>2

LEMMA RowSize ==
  ASSUME NEW b, NEW m \in Nat, NEW n \in Nat, m <= n + 1
  PROVE  IsFiniteSet({b} \X (m..n)) /\ Cardinality({b} \X (m..n)) = n + 1 - m
<1>1. IsFiniteSet(m..n) /\ Cardinality(m..n) = n + 1 - m
  BY FS_Interval
<1>2. IsFiniteSet({b}) /\ Cardinality({b}) = 1
  BY FS_Singleton
<1>3. Cardinality({b} \X (m..n)) = 1 * (n + 1 - m)
  BY <1>1, <1>2, FS_Product
<1>4. IsFiniteSet({b} \X (m..n))
  BY <1>1, <1>2, FS_Product
<1>5. 1 * (n + 1 - m) = n + 1 - m
  OBVIOUS
<1> QED
  BY <1>3, <1>4, <1>5

\* A new batch at the end adds as many places as it has events.
LEMMA SlotsAppend ==
  ASSUME NEW queue \in Seq(PendingBatch), NEW entry \in PendingBatch, IsFiniteSet(Slots(queue))
  PROVE  /\ IsFiniteSet(Slots(Append(queue, entry)))
         /\ Cardinality(Slots(Append(queue, entry))) = Cardinality(Slots(queue)) + Len(entry.events)
<1> DEFINE longer == Append(queue, entry)
           n      == Len(queue) + 1
           row    == {n} \X (1..Len(entry.events))
<1>1. /\ Len(queue) \in Nat /\ DOMAIN queue = 1..Len(queue)
      /\ DOMAIN longer = 1..n
      /\ longer[n] = entry
      /\ \A b \in DOMAIN queue : longer[b] = queue[b]
  OBVIOUS
<1>2. entry.events \in Seq(Event)
  BY DEF PendingBatch
<1>3. DOMAIN entry.events = 1..Len(entry.events) /\ Len(entry.events) \in Nat
  BY <1>2
<1> HIDE DEF longer
<1>4. \A b \in DOMAIN longer : b = n \/ b \in DOMAIN queue
  BY <1>1
<1>5. n \in DOMAIN longer /\ DOMAIN queue \subseteq DOMAIN longer /\ n \notin DOMAIN queue
  BY <1>1
<1>6. \A x : x \in Slots(longer) <=> x \in Slots(queue) \/ x \in row
  <2> TAKE x
  <2>1. x \in Slots(longer) <=> \E b \in DOMAIN longer : \E i \in DOMAIN longer[b].events : x = <<b, i>>
    BY SlotIs
  <2>2. x \in Slots(queue) <=> \E b \in DOMAIN queue : \E i \in DOMAIN queue[b].events : x = <<b, i>>
    BY SlotIs
  <2>3. x \in row <=> \E i \in DOMAIN entry.events : x = <<n, i>>
    BY <1>3
  <2> HIDE DEF row, n
  <2> QED
    BY <2>1, <2>2, <2>3, <1>1, <1>4, <1>5
<1>7. Slots(longer) = Slots(queue) \cup row
  BY <1>6
<1>8. Slots(queue) \cap row = {}
  <2> SUFFICES ASSUME NEW x \in Slots(queue), x \in row PROVE FALSE
    OBVIOUS
  <2>1. PICK b \in DOMAIN queue : \E i \in DOMAIN queue[b].events : x = <<b, i>>
    BY SlotIs
  <2>2. x[1] = b /\ x[1] = n
    BY <2>1
  <2> QED
    BY <2>2, <1>5
<1>9. IsFiniteSet(row) /\ Cardinality(row) = Len(entry.events)
  <2>1. \A m, k \in Nat : m <= k + 1 =>
          IsFiniteSet({n} \X (m..k)) /\ Cardinality({n} \X (m..k)) = k + 1 - m
    BY RowSize
  <2>2. Len(entry.events) + 1 - 1 = Len(entry.events)
    BY <1>3
  <2>3. 1 <= Len(entry.events) + 1
    BY <1>3
  <2> HIDE DEF n
  <2> QED
    BY <2>1, <2>2, <2>3, <1>3
<1>10. IsFiniteSet(Slots(longer)) /\ Cardinality(Slots(longer)) = Cardinality(Slots(queue)) + Cardinality(row) - 0
  <2> HIDE DEF row
  <2>1. /\ IsFiniteSet(Slots(queue) \cup row)
        /\ Cardinality(Slots(queue) \cup row)
             = Cardinality(Slots(queue)) + Cardinality(row) - Cardinality(Slots(queue) \cap row)
    BY <1>9, FS_Union
  <2>2. Cardinality({}) = 0
    BY FS_EmptySet
  <2> QED
    BY <2>1, <2>2, <1>7, <1>8
<1> HIDE DEF row
<1>11. Cardinality(Slots(queue)) \in Nat
  BY FS_CardinalityType
<1> QED
  BY <1>3, <1>9, <1>10, <1>11 DEF longer

\* The first k events of the front batch, or all of it, have k places.
LEMMA FrontSlots ==
  ASSUME NEW queue \in Seq(PendingBatch), queue # <<>>, IsFiniteSet(Slots(queue)),
         NEW m \in Nat, 1 <= m, m <= Len(queue[1].events) + 1
  PROVE  LET kept == Slots(queue) \ ({1} \X (m..Len(queue[1].events)))
         IN  /\ IsFiniteSet(kept)
             /\ Cardinality(kept) = Cardinality(Slots(queue)) - (Len(queue[1].events) + 1 - m)
<1> DEFINE n == Len(queue[1].events)
           row == {1} \X (m..n)
<1>1. 1 \in DOMAIN queue
  OBVIOUS
<1>2. queue[1].events \in Seq(Event) /\ n \in Nat
  BY <1>1, EntryType
<1>3. DOMAIN queue[1].events = 1..n
  BY <1>2
<1>4. row \subseteq Slots(queue)
  <2> SUFFICES ASSUME NEW x \in row PROVE x \in Slots(queue)
    OBVIOUS
  <2>1. PICK i \in m..n : x = <<1, i>>
    OBVIOUS
  <2>2. i \in 1..n
    BY <1>2
  <2> QED
    BY <2>1, <2>2, <1>1, <1>3, SlotIs
<1>5. IsFiniteSet(row) /\ Cardinality(row) = n + 1 - m
  BY <1>2, RowSize
<1>6. Slots(queue) \cap row = row
  BY <1>4
<1>7. /\ IsFiniteSet(Slots(queue) \ row)
      /\ Cardinality(Slots(queue) \ row) = Cardinality(Slots(queue)) - Cardinality(Slots(queue) \cap row)
  BY FS_Difference
<1> QED
  BY <1>5, <1>6, <1>7

\* What the end of a blocking write takes off the queue is what it takes off the count.
LEMMA SlotsChunk ==
  ASSUME NEW queue \in Seq(PendingBatch), queue # <<>>, IsFiniteSet(Slots(queue)),
         NEW rest \in Seq(PendingBatch), Len(rest) = Len(queue),
         NEW k \in Nat, k <= Len(queue[1].events), Len(rest[1].events) = Len(queue[1].events) - k,
         \A b \in 2..Len(queue) : rest[b] = queue[b]
  PROVE  IsFiniteSet(Slots(rest)) /\ Cardinality(Slots(rest)) = Cardinality(Slots(queue)) - k
<1> DEFINE n == Len(queue[1].events)
           row == {1} \X ((n - k + 1)..n)
<1>1. /\ 1 \in DOMAIN queue /\ DOMAIN rest = DOMAIN queue
      /\ \A b \in DOMAIN queue : b = 1 \/ b \in 2..Len(queue)
  OBVIOUS
<1>2. queue[1].events \in Seq(Event) /\ rest[1].events \in Seq(Event) /\ n \in Nat
  BY <1>1, EntryType
<1>3. DOMAIN queue[1].events = 1..n /\ DOMAIN rest[1].events = 1..(n - k)
  BY <1>2
<1>4. \A i : i \in 1..(n - k) <=> i \in 1..n /\ i \notin (n - k + 1)..n
  BY <1>2
<1>5. \A x : x \in Slots(rest) <=> x \in Slots(queue) /\ x \notin row
  <2> TAKE x
  <2>1. x \in Slots(rest) <=> \E b \in DOMAIN rest : \E i \in DOMAIN rest[b].events : x = <<b, i>>
    BY SlotIs
  <2>2. x \in Slots(queue) <=> \E b \in DOMAIN queue : \E i \in DOMAIN queue[b].events : x = <<b, i>>
    BY SlotIs
  <2>3. x \in row <=> \E i \in (n - k + 1)..n : x = <<1, i>>
    OBVIOUS
  <2>4. \A b, c, i, j : <<b, i>> = <<c, j>> => b = c /\ i = j
    OBVIOUS
  <2>5. \A b \in 2..Len(queue) : b # 1
    OBVIOUS
  <2> HIDE DEF row, n
  <2>6. ASSUME x \in Slots(rest) PROVE x \in Slots(queue) /\ x \notin row
    <3>1. PICK b \in DOMAIN rest : \E i \in DOMAIN rest[b].events : x = <<b, i>>
      BY <2>1, <2>6
    <3>2. PICK i \in DOMAIN rest[b].events : x = <<b, i>>
      BY <3>1
    <3>3. CASE b = 1
      BY <3>2, <3>3, <2>2, <2>3, <2>4, <1>1, <1>3, <1>4
    <3>4. CASE b \in 2..Len(queue)
      BY <3>2, <3>4, <2>2, <2>3, <2>4, <2>5, <1>1
    <3> QED
      BY <3>3, <3>4, <1>1
  <2>7. ASSUME x \in Slots(queue), x \notin row PROVE x \in Slots(rest)
    <3>1. PICK b \in DOMAIN queue : \E i \in DOMAIN queue[b].events : x = <<b, i>>
      BY <2>2, <2>7
    <3>2. PICK i \in DOMAIN queue[b].events : x = <<b, i>>
      BY <3>1
    <3>3. CASE b = 1
      BY <3>2, <3>3, <2>1, <2>3, <2>7, <1>1, <1>3, <1>4
    <3>4. CASE b \in 2..Len(queue)
      BY <3>2, <3>4, <2>1, <1>1
    <3> QED
      BY <3>3, <3>4, <1>1
  <2> QED
    BY <2>6, <2>7
<1>6. Slots(rest) = Slots(queue) \ row
  BY <1>5
<1>7. n - k + 1 \in Nat /\ 1 <= n - k + 1 /\ n - k + 1 <= n + 1
  BY <1>2
<1>8. IsFiniteSet(Slots(queue) \ row) /\ Cardinality(Slots(queue) \ row) = Cardinality(Slots(queue)) - (n + 1 - (n - k + 1))
  BY <1>7, FrontSlots
<1>9. n + 1 - (n - k + 1) = k
  BY <1>2
<1> QED
  BY <1>6, <1>8, <1>9

LEMMA SlotsTail ==
  ASSUME NEW queue \in Seq(PendingBatch), queue # <<>>, IsFiniteSet(Slots(queue))
  PROVE  /\ IsFiniteSet(Slots(Tail(queue)))
         /\ Cardinality(Slots(Tail(queue))) = Cardinality(Slots(queue)) - Len(queue[1].events)
<1> DEFINE n    == Len(queue[1].events)
           kept == Slots(queue) \ ({1} \X (1..n))
           rest == Tail(queue)
           down == [x \in kept |-> <<x[1] - 1, x[2]>>]
<1>1. /\ 1 \in DOMAIN queue /\ DOMAIN queue = 1..Len(queue) /\ Len(queue) \in Nat
      /\ DOMAIN rest = 1..(Len(queue) - 1)
      /\ \A b \in DOMAIN rest : rest[b] = queue[b + 1]
  OBVIOUS
<1>2. queue[1].events \in Seq(Event) /\ n \in Nat
  BY <1>1, EntryType
<1>3. DOMAIN queue[1].events = 1..n
  BY <1>2
<1>4. IsFiniteSet(kept) /\ Cardinality(kept) = Cardinality(Slots(queue)) - (n + 1 - 1)
  BY <1>2, FrontSlots
<1> HIDE DEF rest, n
<1>5. \A b \in DOMAIN queue : b # 1 => b - 1 \in DOMAIN rest /\ rest[b - 1] = queue[b]
  BY <1>1
<1>6. \A b \in DOMAIN rest : b + 1 \in DOMAIN queue /\ b + 1 # 1 /\ rest[b] = queue[b + 1] /\ b + 1 - 1 = b
  BY <1>1
<1>7. \A x : x \in kept <=> \E b \in DOMAIN queue : \E i \in DOMAIN queue[b].events : b # 1 /\ x = <<b, i>>
  <2> TAKE x
  <2>1. x \in Slots(queue) <=> \E b \in DOMAIN queue : \E i \in DOMAIN queue[b].events : x = <<b, i>>
    BY SlotIs
  <2>2. x \in {1} \X (1..n) <=> \E i \in 1..n : x = <<1, i>>
    OBVIOUS
  <2>3. \A b, c, i, j : <<b, i>> = <<c, j>> => b = c /\ i = j
    OBVIOUS
  <2>4. ASSUME x \in kept
        PROVE  \E b \in DOMAIN queue : \E i \in DOMAIN queue[b].events : b # 1 /\ x = <<b, i>>
    <3>1. PICK b \in DOMAIN queue : \E i \in DOMAIN queue[b].events : x = <<b, i>>
      BY <2>1, <2>4
    <3>2. PICK i \in DOMAIN queue[b].events : x = <<b, i>>
      BY <3>1
    <3>3. b # 1
      BY <3>2, <2>2, <2>4, <1>3
    <3> QED
      BY <3>2, <3>3
  <2>5. ASSUME NEW b \in DOMAIN queue, NEW i \in DOMAIN queue[b].events, b # 1, x = <<b, i>>
        PROVE  x \in kept
    <3>1. x \in Slots(queue)
      BY <2>1, <2>5
    <3>2. x \notin {1} \X (1..n)
      BY <2>2, <2>3, <2>5
    <3> QED
      BY <3>1, <3>2
  <2> QED
    BY <2>4, <2>5
<1>8. \A y : y \in Slots(rest) <=> \E b \in DOMAIN rest : \E i \in DOMAIN rest[b].events : y = <<b, i>>
  BY SlotIs
<1>9. \A x \in kept : down[x] = <<x[1] - 1, x[2]>> /\ down[x] \in Slots(rest)
  <2> SUFFICES ASSUME NEW x \in kept PROVE <<x[1] - 1, x[2]>> \in Slots(rest)
    OBVIOUS
  <2>1. PICK b \in DOMAIN queue : \E i \in DOMAIN queue[b].events : b # 1 /\ x = <<b, i>>
    BY <1>7
  <2>2. PICK i \in DOMAIN queue[b].events : b # 1 /\ x = <<b, i>>
    BY <2>1
  <2>3. x[1] - 1 = b - 1 /\ x[2] = i
    BY <2>2
  <2>4. b - 1 \in DOMAIN rest /\ i \in DOMAIN rest[b - 1].events
    BY <2>2, <1>5
  <2> HIDE DEF kept
  <2> QED
    BY <2>3, <2>4, <1>8
<1>10. down \in [kept -> Slots(rest)]
  BY <1>9
<1>11. \A x, y \in kept : down[x] = down[y] => x = y
  <2> SUFFICES ASSUME NEW x \in kept, NEW y \in kept, down[x] = down[y] PROVE x = y
    OBVIOUS
  <2>1. PICK b \in DOMAIN queue : \E i \in DOMAIN queue[b].events : x = <<b, i>>
    BY <1>7
  <2>2. PICK i : x = <<b, i>>
    BY <2>1
  <2>3. PICK c \in DOMAIN queue : \E j \in DOMAIN queue[c].events : y = <<c, j>>
    BY <1>7
  <2>4. PICK j : y = <<c, j>>
    BY <2>3
  <2>5. down[x] = <<b - 1, i>> /\ down[y] = <<c - 1, j>>
    BY <2>2, <2>4, <1>9
  <2>6. b - 1 = c - 1 /\ i = j
    BY <2>5
  <2>7. b \in Int /\ c \in Int
    BY <1>1
  <2> QED
    BY <2>2, <2>4, <2>6, <2>7
<1>12. \A y \in Slots(rest) : \E x \in kept : down[x] = y
  <2> TAKE y \in Slots(rest)
  <2>1. PICK b \in DOMAIN rest : \E i \in DOMAIN rest[b].events : y = <<b, i>>
    BY <1>8
  <2>2. PICK i \in DOMAIN rest[b].events : y = <<b, i>>
    BY <2>1
  <2>3. <<b + 1, i>> \in kept
    BY <2>2, <1>6, <1>7
  <2>4. down[<<b + 1, i>>] = <<b + 1 - 1, i>>
    <3> HIDE DEF kept, down
    <3>1. PICK x : x = <<b + 1, i>>
      OBVIOUS
    <3>2. x[1] = b + 1 /\ x[2] = i
      BY <3>1
    <3>3. down[x] = <<x[1] - 1, x[2]>>
      BY <3>1, <2>3, <1>9
    <3>4. down[x] = <<b + 1 - 1, i>>
      BY <3>2, <3>3
    <3> QED
      BY <3>1, <3>4
  <2> QED
    BY <2>2, <2>3, <2>4, <1>6
<1>13. down \in Bijection(kept, Slots(rest))
  <2> HIDE DEF kept, down
  <2> QED
    BY <1>10, <1>11, <1>12 DEF Bijection, Injection, Surjection, IsInjective
<1>14. IsFiniteSet(Slots(rest)) /\ Cardinality(Slots(rest)) = Cardinality(kept)
  <2> HIDE DEF kept, down
  <2>1. ExistsBijection(kept, Slots(rest))
    BY <1>13 DEF ExistsBijection
  <2> QED
    BY <2>1, <1>4, FS_Bijection
<1>15. n + 1 - 1 = n
  BY <1>2
<1> HIDE DEF kept
<1> QED
  BY <1>4, <1>14, <1>15 DEF rest, n

LEMMA SlotsEmpty ==
  ASSUME NEW queue, queue = <<>>
  PROVE  IsFiniteSet(Slots(queue)) /\ Cardinality(Slots(queue)) = 0
<1>1. DOMAIN queue = {}
  OBVIOUS
<1>2. Slots(queue) = {}
  BY <1>1 DEF Slots
<1> QED
  BY <1>2, FS_EmptySet

LEMMA CountCommit ==
  ASSUME CountInv, TypeOK', NEW p \in Posters, NEW batch \in Batches, Commit(p, batch)
  PROVE  CountInv'
<1> DEFINE events == Stamped(batch, checked[p])
<1>1. /\ TypeOK /\ checked[p] \in Nat /\ posted \in Nat
      /\ pending \in Seq(PendingBatch)
      /\ sizePending \in Int /\ MaxPending \in Nat
      /\ IsFiniteSet(Slots(pending)) /\ sizePending = Cardinality(Slots(pending))
      /\ sizePending <= MaxPending
  BY DeliveryAssumption DEF CountInv, TypeOK, PendingBatch, PendingCounted, PendingSlots, Slots, Row
<1>2. /\ events \in Seq(Event) /\ Len(events) = Len(batch) /\ Len(batch) \in Nat
      /\ NumWakeup(events) \in Nat
  BY <1>1, StampedIs, NumWakeupType
<1>3. PICK fits \in 0..Len(batch), queued \in BOOLEAN :
           LET left == SubSeq(events, fits + 1, Len(batch))
           IN /\ fits > 0 => pending = <<>>
              /\ fits + Len(fmq) <= FmqCapacity
              /\ fmq' = fmq \o SubSeq(events, 1, fits)
              /\ queued => /\ left # <<>>
                           /\ pending' = Append(pending, [events |-> left,
                                                          numWakeup |-> NumWakeup(events)])
                           /\ sizePending' = sizePending + Len(left)
                           /\ pwThread' = Notified(pwThread)
              /\ ~queued => UNCHANGED <<pending, sizePending, pwThread>>
  BY <1>1, CommitFacts
<1>4. sizePending' = sizePending \/ sizePending' <= MaxPending
  BY DEF Commit, HasRoom
<1> HIDE DEF events
<1> DEFINE left  == SubSeq(events, fits + 1, Len(batch))
           entry == [events |-> left, numWakeup |-> NumWakeup(events)]
<1>5. CASE queued
  <2>1. pending' = Append(pending, entry) /\ entry.events = left /\ sizePending' = sizePending + Len(left)
    BY <1>3, <1>5
  <2>2. left \in Seq(Event) \ {<<>>}
    BY <1>2, <1>3, <1>5, PartOfSeq
  <2> HIDE DEF left
  <2>3. entry \in PendingBatch
    BY <2>2, <1>2 DEF PendingBatch
  <2> HIDE DEF entry
  <2>4. /\ IsFiniteSet(Slots(Append(pending, entry)))
        /\ Cardinality(Slots(Append(pending, entry))) = Cardinality(Slots(pending)) + Len(entry.events)
    BY <2>3, <1>1, SlotsAppend
  <2>5. IsFiniteSet(Slots(pending')) /\ sizePending' = Cardinality(Slots(pending'))
    BY <2>1, <2>4, <1>1
  <2> QED
    BY <2>5, <1>1, <1>4 DEF CountInv, PendingCounted, PendingSlots, Slots, Row
<1>6. CASE ~queued
  BY <1>1, <1>3, <1>6 DEF CountInv, PendingCounted, PendingSlots, Slots, Row
<1> QED
  BY <1>5, <1>6

LEMMA CountRetire ==
  ASSUME CountInv, TypeOK', Retire
  PROVE  CountInv'
<1>1. /\ pending \in Seq(PendingBatch) /\ pending # <<>>
      /\ sizePending \in Int /\ MaxPending \in Nat /\ FmqCapacity \in Nat \ {0}
      /\ IsFiniteSet(Slots(pending)) /\ sizePending = Cardinality(Slots(pending))
      /\ sizePending <= MaxPending
      /\ pending' = AfterRetire /\ sizePending' = sizePending - NumToWrite
  BY DeliveryAssumption
     DEF CountInv, TypeOK, PendingBatch, PendingCounted, PendingSlots, Slots, Row, Retire
<1>2. 1 \in DOMAIN pending /\ Head(pending) = pending[1]
  BY <1>1
<1>3. Len(pending[1].events) \in Nat \ {0}
  BY <1>1, <1>2, EntryType
<1>4. CASE Len(pending[1].events) > FmqCapacity
  <2>1. /\ AfterRetire \in Seq(PendingBatch) /\ Len(AfterRetire) = Len(pending)
        /\ AfterRetire[1].events
             = SubSeq(pending[1].events, FmqCapacity + 1, Len(pending[1].events))
        /\ \A b \in 2..Len(pending) : AfterRetire[b] = pending[b]
    BY <1>1, <1>2, <1>4, AfterRetireIs
  <2>2. Len(AfterRetire[1].events) = Len(pending[1].events) - FmqCapacity
    BY <2>1, <1>1, <1>2, <1>3, <1>4, EntryType, PartOfSeq
  <2>3. NumToWrite = FmqCapacity
    BY <1>1, <1>2, <1>3, <1>4 DEF NumToWrite, Least
  <2>4. FmqCapacity \in Nat /\ FmqCapacity <= Len(pending[1].events)
    BY <1>1, <1>3, <1>4
  <2>5. /\ IsFiniteSet(Slots(AfterRetire))
        /\ Cardinality(Slots(AfterRetire)) = Cardinality(Slots(pending)) - FmqCapacity
    BY <2>1, <2>2, <2>4, <1>1, SlotsChunk
  <2>6. sizePending' <= MaxPending
    BY <2>3, <1>1
  <2> QED
    BY <2>3, <2>5, <2>6, <1>1 DEF CountInv, PendingCounted, PendingSlots, Slots, Row
<1>5. CASE Len(pending[1].events) <= FmqCapacity
  <2>1. AfterRetire = Tail(pending)
    BY <1>1, <1>2, <1>5, AfterRetireIs
  <2>2. NumToWrite = Len(pending[1].events)
    BY <1>1, <1>2, <1>3, <1>5 DEF NumToWrite, Least
  <2>3. /\ IsFiniteSet(Slots(Tail(pending)))
        /\ Cardinality(Slots(Tail(pending))) = Cardinality(Slots(pending)) - Len(pending[1].events)
    BY <1>1, SlotsTail
  <2>4. sizePending' <= MaxPending
    BY <2>2, <1>1, <1>3
  <2> QED
    BY <2>1, <2>2, <2>3, <2>4, <1>1 DEF CountInv, PendingCounted, PendingSlots, Slots, Row
<1> QED
  BY <1>1, <1>3, <1>4, <1>5

LEMMA CountNext == CountInv /\ [Next]_vars => CountInv'
<1> SUFFICES ASSUME CountInv, [Next]_vars PROVE CountInv'
  OBVIOUS
<1>1. TypeOK'
  BY TypeNext DEF CountInv
<1>2. ASSUME NEW p \in Posters, NEW batch \in Batches, Commit(p, batch) PROVE CountInv'
  BY <1>1, <1>2, CountCommit
<1>3. CASE Retire
  BY <1>1, <1>3, CountRetire
<1>4. CASE Restart
  <2>1. pending' = <<>> /\ sizePending' = 0
    BY <1>4 DEF Restart
  <2>2. IsFiniteSet(Slots(pending')) /\ Cardinality(Slots(pending')) = 0
    BY <2>1, SlotsEmpty
  <2> QED
    BY <1>1, <2>1, <2>2, DeliveryAssumption DEF CountInv, PendingCounted, PendingSlots, Slots, Row
<1>5. ASSUME \/ \E p \in Posters : EnterPost(p)
             \/ PwCheck \/ PwSleep \/ PwSpuriousWake \/ WriteSucceeds \/ WriteFails
             \/ FrameworkRead \/ StopFlag \/ Drain \/ Join
             \/ UNCHANGED vars
      PROVE  CountInv'
  <2>1. pending' = pending /\ sizePending' = sizePending
    BY <1>5 DEF EnterPost, PwCheck, PwSleep, PwSpuriousWake, WriteSucceeds, WriteFails,
                FrameworkRead, StopFlag, Drain, Join, vars
  <2> QED
    BY <1>1, <2>1 DEF CountInv, PendingCounted, PendingSlots
<1> QED
  BY <1>2, <1>3, <1>4, <1>5 DEF Next, HandlePendingWrites, InitializeCommon

\* mSizePendingWriteEventsQueue never drifts from the queue it describes and the
\* bound of the queue holds, for any batch sizes and capacities and however posts
\* fall between the blocking writes and their retirement.
THEOREM PendingIsCounted == Spec => []PendingCounted
<1>1. Init => CountInv
  <2> SUFFICES ASSUME Init PROVE CountInv
    OBVIOUS
  <2>1. pending = <<>> /\ sizePending = 0
    BY DEF Init
  <2>2. IsFiniteSet(Slots(pending)) /\ Cardinality(Slots(pending)) = 0
    BY <2>1, SlotsEmpty
  <2> QED
    BY <2>1, <2>2, TypeInit, DeliveryAssumption DEF CountInv, PendingCounted, PendingSlots, Slots, Row
<1>2. CountInv => PendingCounted
  BY DEF CountInv
<1>3. Spec => Safe
  BY DEF Spec
<1> QED
  BY <1>1, <1>2, <1>3, CountNext, PTL DEF Safe

-----------------------------------------------------------------------------
(* One lossy queue.                                                        *)

TransitOf(queue) == UNION {Ids(queue[b].events) : b \in DOMAIN queue}

LEMMA TransitIs ==
  ASSUME NEW queue, NEW id
  PROVE  id \in TransitOf(queue) <=> \E b \in DOMAIN queue : id \in Ids(queue[b].events)
BY DEF TransitOf

LEMMA IdsIs ==
  ASSUME NEW s, NEW id
  PROVE  id \in Ids(s) <=> \E i \in DOMAIN s : id = s[i].id
BY DEF Ids

LEMMA IdsEmpty == Ids(<<>>) = {} /\ TransitOf(<<>>) = {}
BY DEF Ids, TransitOf

\* The first and the last event of a batch in order bound its numbers.
LEMMA EndsOf ==
  ASSUME NEW s \in Seq(Event), s # <<>>, Increasing(s)
  PROVE  /\ s[1].id \in Ids(s) /\ s[Len(s)].id \in Ids(s)
         /\ \A id \in Ids(s) : s[1].id <= id /\ id <= s[Len(s)].id
<1>1. /\ Len(s) \in Nat \ {0} /\ DOMAIN s = 1..Len(s)
      /\ 1 \in DOMAIN s /\ Len(s) \in DOMAIN s
  OBVIOUS
<1>2. \A i \in DOMAIN s : s[i].id \in Nat
  BY IdsType
<1>3. s[1].id \in Ids(s) /\ s[Len(s)].id \in Ids(s)
  BY <1>1, IdsIs
<1>4. ASSUME NEW id \in Ids(s) PROVE s[1].id <= id /\ id <= s[Len(s)].id
  <2>1. PICK i \in DOMAIN s : id = s[i].id
    BY IdsIs
  <2>2. i = 1 \/ 1 < i
    BY <1>1
  <2>3. i = Len(s) \/ i < Len(s)
    BY <1>1
  <2>4. 1 < i => s[1].id < s[i].id
    BY <1>1 DEF Increasing
  <2>5. i < Len(s) => s[i].id < s[Len(s)].id
    BY <1>1 DEF Increasing
  <2> QED
    BY <2>1, <2>2, <2>3, <2>4, <2>5, <1>1, <1>2
<1> QED
  BY <1>3, <1>4

LEMMA IdsSplit ==
  ASSUME NEW s \in Seq(Event), NEW k \in Nat, k <= Len(s)
  PROVE  Ids(s) = Ids(SubSeq(s, 1, k)) \cup Ids(SubSeq(s, k + 1, Len(s)))
<1> DEFINE f == SubSeq(s, 1, k)
           l == SubSeq(s, k + 1, Len(s))
<1>1. /\ f \in Seq(Event) /\ l \in Seq(Event)
      /\ Len(s) \in Nat /\ Len(f) = k /\ Len(l) = Len(s) - k
      /\ \A i \in 1..k : f[i] = s[i]
      /\ \A i \in 1..(Len(s) - k) : l[i] = s[k + i]
  OBVIOUS
<1>2. DOMAIN f = 1..k /\ DOMAIN l = 1..(Len(s) - k) /\ DOMAIN s = 1..Len(s)
  BY <1>1
<1> HIDE DEF f, l
<1>3. Ids(s) \subseteq Ids(f) \cup Ids(l)
  <2> SUFFICES ASSUME NEW i \in DOMAIN s PROVE s[i].id \in Ids(f) \cup Ids(l)
    BY IdsIs
  <2>1. CASE i <= k
    <3>1. i \in DOMAIN f /\ f[i] = s[i]
      BY <2>1, <1>1, <1>2
    <3> QED
      BY <3>1, IdsIs
  <2>2. CASE i > k
    <3>1. i - k \in DOMAIN l /\ l[i - k] = s[k + (i - k)] /\ k + (i - k) = i
      BY <2>2, <1>1, <1>2
    <3> QED
      BY <3>1, IdsIs
  <2> QED
    BY <2>1, <2>2, <1>1, <1>2
<1>4. Ids(f) \cup Ids(l) \subseteq Ids(s)
  <2>1. \A i \in DOMAIN f : i \in DOMAIN s /\ f[i] = s[i]
    BY <1>1, <1>2
  <2>2. \A i \in DOMAIN l : k + i \in DOMAIN s /\ l[i] = s[k + i]
    BY <1>1, <1>2
  <2> QED
    BY <2>1, <2>2, IdsIs
<1> QED
  BY <1>3, <1>4 DEF f, l

LEMMA TransitAppend ==
  ASSUME NEW queue \in Seq(PendingBatch), NEW entry \in PendingBatch
  PROVE  TransitOf(Append(queue, entry)) = TransitOf(queue) \cup Ids(entry.events)
<1> DEFINE longer == Append(queue, entry)
           n      == Len(queue) + 1
<1>1. /\ DOMAIN longer = 1..n /\ DOMAIN queue = 1..Len(queue) /\ Len(queue) \in Nat
      /\ longer[n] = entry
      /\ \A b \in DOMAIN queue : longer[b] = queue[b]
  OBVIOUS
<1> HIDE DEF longer
<1>2. \A b \in DOMAIN longer : b = n \/ b \in DOMAIN queue
  BY <1>1
<1>3. n \in DOMAIN longer /\ DOMAIN queue \subseteq DOMAIN longer
  BY <1>1
<1> HIDE DEF n
<1>4. \A id : id \in TransitOf(longer) <=> id \in TransitOf(queue) \/ id \in Ids(entry.events)
  BY <1>1, <1>2, <1>3, TransitIs
<1> QED
  BY <1>4 DEF longer

\* What a blocking write is about, and what is left of the pending queue after it.
LEMMA TransitRetire ==
  ASSUME pending \in Seq(PendingBatch), pending # <<>>
  PROVE  /\ SubSeq(Head(pending).events, 1, NumToWrite) \in Seq(Event) \ {<<>>}
         /\ NumToWrite \in Nat /\ 1 <= NumToWrite /\ NumToWrite <= Len(Head(pending).events)
         /\ TransitOf(pending)
              = Ids(SubSeq(Head(pending).events, 1, NumToWrite)) \cup TransitOf(AfterRetire)
<1> DEFINE front == Head(pending).events
           first == SubSeq(front, 1, NumToWrite)
<1>1. /\ 1 \in DOMAIN pending /\ Head(pending) = pending[1]
      /\ DOMAIN pending = 1..Len(pending) /\ Len(pending) \in Nat \ {0}
  OBVIOUS
<1>2. front \in Seq(Event) /\ Len(front) \in Nat \ {0} /\ FmqCapacity \in Nat \ {0}
  BY <1>1, EntryType, DeliveryAssumption
<1> HIDE DEF front
<1>3. NumToWrite = IF Len(front) <= FmqCapacity THEN Len(front) ELSE FmqCapacity
  BY DEF NumToWrite, Least, front
<1>4. NumToWrite \in Nat /\ 1 <= NumToWrite /\ NumToWrite <= Len(front)
  BY <1>2, <1>3
<1>5. first \in Seq(Event) \ {<<>>}
  <2>1. first \in Seq(Event) /\ Len(first) = NumToWrite
    BY <1>2, <1>4, PrefixOfSeq
  <2> QED
    BY <2>1, <1>4
<1>6. CASE Len(front) > FmqCapacity
  <2> DEFINE rest == SubSeq(front, FmqCapacity + 1, Len(front))
  <2>1. /\ Len(AfterRetire) = Len(pending) /\ AfterRetire \in Seq(PendingBatch)
        /\ AfterRetire[1].events = rest
        /\ \A b \in 2..Len(pending) : AfterRetire[b] = pending[b]
    BY <1>6, AfterRetireIs DEF front
  <2>2. DOMAIN AfterRetire = DOMAIN pending
    BY <2>1
  <2>3. NumToWrite = FmqCapacity
    BY <1>2, <1>3, <1>6
  <2>4. Ids(front) = Ids(first) \cup Ids(rest)
    BY <2>3, <1>2, <1>4, IdsSplit
  <2>5. \A b \in DOMAIN pending : b = 1 \/ b \in 2..Len(pending)
    BY <1>1
  <2> HIDE DEF first, rest
  <2>6. \A id : id \in TransitOf(pending) <=> id \in Ids(first) \/ id \in TransitOf(AfterRetire)
    <3> TAKE id
    <3>1. id \in TransitOf(pending) <=> \E b \in DOMAIN pending : id \in Ids(pending[b].events)
      BY TransitIs
    <3>2. id \in TransitOf(AfterRetire) <=> \E b \in DOMAIN pending : id \in Ids(AfterRetire[b].events)
      BY TransitIs, <2>2
    <3>3. id \in Ids(pending[1].events) <=> id \in Ids(first) \/ id \in Ids(AfterRetire[1].events)
      BY <2>1, <2>4, <1>1 DEF front
    <3>4. \A b \in DOMAIN pending : b # 1 => AfterRetire[b] = pending[b]
      BY <2>1, <2>5
    <3> QED
      BY <3>1, <3>2, <3>3, <3>4, <1>1
  <2>7. TransitOf(pending) = Ids(first) \cup TransitOf(AfterRetire)
    BY <2>6
  <2> QED
    BY <2>7, <1>4, <1>5 DEF first, front
<1>7. CASE Len(front) <= FmqCapacity
  <2>1. AfterRetire = Tail(pending)
    BY <1>7, AfterRetireIs DEF front
  <2>2. first = front
    <3>1. NumToWrite = Len(front)
      BY <1>2, <1>3, <1>7
    <3> QED
      BY <3>1, <1>2
  <2>3. /\ \A b \in DOMAIN Tail(pending) : b + 1 \in DOMAIN pending /\ Tail(pending)[b] = pending[b + 1]
        /\ \A b \in DOMAIN pending : b # 1 =>
             b - 1 \in DOMAIN Tail(pending) /\ Tail(pending)[b - 1] = pending[b]
    BY TailIs
  <2> HIDE DEF first
  <2>4. \A id : id \in TransitOf(pending) <=> id \in Ids(front) \/ id \in TransitOf(Tail(pending))
    <3> TAKE id
    <3>1. id \in TransitOf(pending) <=> \E b \in DOMAIN pending : id \in Ids(pending[b].events)
      BY TransitIs
    <3>2. id \in TransitOf(Tail(pending))
            <=> \E b \in DOMAIN Tail(pending) : id \in Ids(Tail(pending)[b].events)
      BY TransitIs
    <3>3. front = pending[1].events
      BY <1>1 DEF front
    <3> QED
      BY <3>1, <3>2, <3>3, <2>3, <1>1
  <2>5. TransitOf(pending) = Ids(first) \cup TransitOf(AfterRetire)
    BY <2>1, <2>2, <2>4
  <2> QED
    BY <2>5, <1>4, <1>5 DEF first, front
<1> QED
  BY <1>2, <1>6, <1>7

\* The numbers of the events that wait behind the FMQ come after all before them.
LEMMA TransitBehind ==
  ASSUME NEW A, NEW queue, OrderedAfter(A, queue)
  PROVE  Before(A, TransitOf(queue))
BY TransitIs DEF OrderedAfter, Before

LEMMA TransitFacts ==
  ASSUME OrderInv
  PROVE  /\ InTransit = Ids(fmq) \cup TransitOf(Unwritten)
         /\ InTransit \subseteq 0..posted
         /\ Before(Ids(fmq), TransitOf(Unwritten))
<1>1. TypeOK /\ fmq \in Seq(Event) /\ posted \in Nat /\ Unwritten \in Seq(PendingBatch)
  BY UnwrittenType DEF OrderInv, TypeOK
<1>2. InTransit = Ids(fmq) \cup TransitOf(Unwritten)
  BY DEF InTransit, TransitOf
<1>3. ASSUME NEW id \in InTransit PROVE id \in 0..posted
  <2>1. CASE id \in Ids(fmq)
    <3>1. id \in Nat
      BY <2>1, <1>1, IdsType
    <3>2. id <= posted
      BY <2>1 DEF OrderInv, WithinPosted
    <3> QED
      BY <3>1, <3>2, <1>1
  <2>2. CASE id \in TransitOf(Unwritten)
    <3>1. PICK b \in DOMAIN Unwritten : id \in Ids(Unwritten[b].events)
      BY <2>2, TransitIs
    <3>2. id \in Nat
      BY <3>1, <1>1, EntryType, IdsType
    <3>3. id <= posted
      BY <3>1 DEF OrderInv, WithinPosted
    <3> QED
      BY <3>2, <3>3, <1>1
  <2> QED
    BY <2>1, <2>2, <1>2, <1>3
<1>4. Before(ReadIds \cup Ids(fmq), TransitOf(Unwritten))
  BY TransitBehind DEF OrderInv, InOrder
<1> QED
  BY <1>2, <1>3, <1>4 DEF Before

\* What goes away in one piece from the middle is a loss of LossyFifo.
LEMMA LosesRun ==
  ASSUME OrderInv, posted' = posted, delivered' = delivered,
         NEW s \in Seq(Event), s # <<>>, Increasing(s), NEW B, NEW C,
         InTransit = B \cup Ids(s) \cup C, InTransit' = B \cup C,
         Before(B, Ids(s)), Before(Ids(s), C)
  PROVE  Lossy!Lose
<1> DEFINE i == s[1].id
           j == s[Len(s)].id
<1>1. i \in Ids(s) /\ j \in Ids(s) /\ \A id \in Ids(s) : i <= id /\ id <= j
  BY EndsOf
<1> HIDE DEF i, j
<1>2. InTransit \subseteq 0..posted /\ posted \in Nat
  BY TransitFacts DEF OrderInv, TypeOK
<1>3. i \in 0..posted /\ j \in 0..posted
  BY <1>1, <1>2
<1>4. \A n \in InTransit : n \in Int
  BY <1>2
<1>5. \A n \in B : n < i
  BY <1>1 DEF Before
<1>6. \A n \in C : j < n
  BY <1>1 DEF Before
<1>7. \A n \in Ids(s) : ~(n < i) /\ ~(j < n)
  <2> SUFFICES ASSUME NEW n \in Ids(s) PROVE ~(n < i) /\ ~(j < n)
    OBVIOUS
  <2>1. n \in Int /\ i \in Int /\ j \in Int
    BY <1>1, <1>4
  <2> QED
    BY <2>1, <1>1
<1>8. InTransit' = {n \in InTransit : n < i \/ j < n}
  BY <1>5, <1>6, <1>7
<1> QED
  BY <1>3, <1>8 DEF Lossy!Lose

LEMMA LossyRead ==
  ASSUME OrderInv, FrameworkRead
  PROVE  Lossy!Deliver
<1>1. /\ TypeOK /\ fmq \in Seq(Event) /\ fmq # <<>> /\ fmq' = Tail(fmq) /\ Increasing(fmq)
      /\ Unwritten' = Unwritten
      /\ delivered' = Append(delivered, Head(fmq).id) /\ posted' = posted
  BY DEF OrderInv, InOrder, TypeOK, FrameworkRead, Unwritten, AfterRetire
<1> DEFINE id == fmq[1].id
<1>2. /\ InTransit = Ids(fmq) \cup TransitOf(Unwritten)
      /\ InTransit' = Ids(fmq') \cup TransitOf(Unwritten)
      /\ Before(Ids(fmq), TransitOf(Unwritten))
      /\ InTransit \subseteq 0..posted /\ posted \in Nat
  BY <1>1, TransitFacts DEF InTransit, TransitOf, TypeOK
<1>3. id \in Ids(fmq) /\ \A n \in Ids(fmq) : id <= n
  BY <1>1, EndsOf
<1>4. \A n \in TransitOf(Unwritten) : id < n
  BY <1>2, <1>3 DEF Before
<1>5. \A n \in InTransit : id <= n
  <2> HIDE DEF id
  <2> SUFFICES ASSUME NEW n \in TransitOf(Unwritten) PROVE id <= n
    BY <1>2, <1>3
  <2>1. id \in Int /\ n \in Int
    BY <1>2, <1>3
  <2> QED
    BY <2>1, <1>4
<1>6. Ids(Tail(fmq)) = Ids(fmq) \ {id}
  <2>1. /\ \A i \in DOMAIN Tail(fmq) : i + 1 \in DOMAIN fmq /\ Tail(fmq)[i] = fmq[i + 1]
        /\ \A i \in DOMAIN fmq : i # 1 => i - 1 \in DOMAIN Tail(fmq) /\ Tail(fmq)[i - 1] = fmq[i]
    BY <1>1, TailIs
  <2>2. \A i \in DOMAIN fmq : i # 1 => 1 < i
    BY <1>1
  <2>3. 1 \in DOMAIN fmq
    BY <1>1
  <2>4. \A i \in DOMAIN fmq : i # 1 => fmq[i].id # id
    <3> TAKE i \in DOMAIN fmq
    <3> HAVE i # 1
    <3>1. id < fmq[i].id
      BY <2>2, <2>3, <1>1 DEF Increasing
    <3>2. fmq[i].id \in Int
      BY <1>1, IdsType
    <3> QED
      BY <3>1, <3>2
  <2>5. \A i \in DOMAIN Tail(fmq) : i + 1 # 1
    BY <1>1
  <2> HIDE DEF id
  <2>6. ASSUME NEW n \in Ids(Tail(fmq)) PROVE n \in Ids(fmq) \ {id}
    <3>1. PICK i \in DOMAIN Tail(fmq) : n = Tail(fmq)[i].id
      BY IdsIs
    <3>2. PICK k : k = i + 1
      OBVIOUS
    <3>3. k \in DOMAIN fmq /\ k # 1 /\ n = fmq[k].id
      BY <3>1, <3>2, <2>1, <2>5
    <3> QED
      BY <3>3, <2>4, IdsIs
  <2>7. ASSUME NEW n \in Ids(fmq), n # id PROVE n \in Ids(Tail(fmq))
    <3>1. PICK i \in DOMAIN fmq : n = fmq[i].id
      BY IdsIs
    <3>2. i # 1
      BY <3>1, <2>7 DEF id
    <3>3. i - 1 \in DOMAIN Tail(fmq) /\ n = Tail(fmq)[i - 1].id
      BY <3>1, <3>2, <2>1
    <3> QED
      BY <3>3, IdsIs
  <2> QED
    BY <2>6, <2>7
<1>7. id \notin TransitOf(Unwritten)
  <2> HIDE DEF id
  <2>1. id \in Int
    BY <1>2, <1>3
  <2> QED
    BY <2>1, <1>4
<1>8. InTransit' = InTransit \ {id}
  <2> HIDE DEF id
  <2> QED
    BY <1>1, <1>2, <1>6, <1>7
<1>9. Head(fmq).id = id
  BY <1>1
<1> HIDE DEF id
<1> QED
  BY <1>1, <1>2, <1>3, <1>5, <1>8, <1>9 DEF Lossy!Deliver

\* A successful write moves the events on, a failed one loses them.
LEMMA LossyWrite ==
  ASSUME OrderInv, WriteSucceeds \/ WriteFails
  PROVE  Lossy!Lose \/ UNCHANGED Lossy!vars
<1> DEFINE first == SubSeq(Head(pending).events, 1, NumToWrite)
           A     == ReadIds \cup Ids(fmq)
<1>1. /\ TypeOK /\ pending \in Seq(PendingBatch) /\ pending # <<>> /\ fmq \in Seq(Event)
      /\ Unwritten = pending /\ Unwritten' = AfterRetire
      /\ posted' = posted /\ delivered' = delivered
      /\ OrderedAfter(A, pending)
  BY DEF OrderInv, InOrder, TypeOK, PendingBatch, WriteSucceeds, WriteFails, Unwritten, AfterRetire
<1>2. 1 \in DOMAIN pending /\ Head(pending) = pending[1]
  BY <1>1
<1>3. Head(pending).events \in Seq(Event) /\ Increasing(Head(pending).events)
      /\ Before(A, Ids(Head(pending).events))
  BY <1>1, <1>2, EntryType DEF OrderedAfter
<1>4. /\ first \in Seq(Event) /\ first # <<>>
      /\ NumToWrite \in Nat /\ 1 <= NumToWrite /\ NumToWrite <= Len(Head(pending).events)
      /\ TransitOf(pending) = Ids(first) \cup TransitOf(AfterRetire)
  BY <1>1, TransitRetire
<1>5. Increasing(first) /\ Ids(first) \subseteq Ids(Head(pending).events)
  BY <1>3, <1>4, PartOrder
<1>6. OrderedAfter(A \cup Ids(first), AfterRetire)
  BY <1>1, AfterRetireOrder
<1> HIDE DEF first
<1>7. Before(Ids(fmq), Ids(first)) /\ Before(Ids(first), TransitOf(AfterRetire))
  <2>1. Before(A \cup Ids(first), TransitOf(AfterRetire))
    BY <1>6, TransitBehind
  <2> QED
    BY <2>1, <1>3, <1>5 DEF Before
<1>8. InTransit = Ids(fmq) \cup TransitOf(pending)
  BY <1>1, TransitFacts
<1>9. InTransit' = Ids(fmq') \cup TransitOf(AfterRetire)
  BY <1>1 DEF InTransit, TransitOf
<1>10. CASE WriteSucceeds
  <2>1. fmq' = fmq \o first
    BY <1>10 DEF WriteSucceeds, first
  <2>2. Ids(fmq') = Ids(fmq) \cup Ids(first)
    BY <2>1, <1>1, <1>4, ConcatOrder
  <2>3. InTransit' = InTransit
    BY <2>2, <1>4, <1>8, <1>9
  <2> QED
    BY <2>3, <1>1 DEF Lossy!vars
<1>11. CASE WriteFails
  <2>1. fmq' = fmq
    BY <1>11 DEF WriteFails
  <2>2. InTransit = Ids(fmq) \cup Ids(first) \cup TransitOf(AfterRetire)
    BY <1>4, <1>8
  <2>3. InTransit' = Ids(fmq) \cup TransitOf(AfterRetire)
    BY <2>1, <1>9
  <2>4. Lossy!Lose
    BY <2>2, <2>3, <1>1, <1>4, <1>5, <1>7, LosesRun
  <2> QED
    BY <2>4
<1> QED
  BY <1>10, <1>11

LEMMA LossyDrain ==
  ASSUME OrderInv, Drain
  PROVE  Lossy!Lose \/ UNCHANGED Lossy!vars
<1>1. /\ fmq \in Seq(Event) /\ Increasing(fmq) /\ fmq' = <<>>
      /\ Unwritten' = Unwritten /\ posted' = posted /\ delivered' = delivered
  BY DEF OrderInv, InOrder, TypeOK, Drain, Notified, Unwritten, AfterRetire
<1>2. /\ InTransit = Ids(fmq) \cup TransitOf(Unwritten)
      /\ Before(Ids(fmq), TransitOf(Unwritten))
      /\ InTransit' = Ids(<<>>) \cup TransitOf(Unwritten)
  BY <1>1, TransitFacts DEF InTransit, TransitOf
<1>3. CASE fmq = <<>>
  BY <1>1, <1>2, <1>3 DEF Lossy!vars
<1>4. CASE fmq # <<>>
  <2>1. InTransit = {} \cup Ids(fmq) \cup TransitOf(Unwritten)
    BY <1>2
  <2>2. InTransit' = {} \cup TransitOf(Unwritten)
    BY <1>2, IdsEmpty
  <2>3. Before({}, Ids(fmq))
    BY DEF Before
  <2>4. Lossy!Lose
    BY <2>1, <2>2, <2>3, <1>1, <1>2, <1>4, LosesRun
  <2> QED
    BY <2>4
<1> QED
  BY <1>3, <1>4

LEMMA LossyRestart ==
  ASSUME OrderInv, Restart
  PROVE  Lossy!Lose
<1>1. /\ posted \in Nat /\ posted' = posted /\ delivered' = delivered
      /\ fmq' = <<>> /\ Unwritten' = <<>>
  BY DEF OrderInv, TypeOK, Restart, Unwritten
<1>2. InTransit' = {}
  <2>1. InTransit' = Ids(<<>>) \cup TransitOf(<<>>)
    BY <1>1 DEF InTransit, TransitOf
  <2> QED
    BY <2>1, IdsEmpty
<1>3. InTransit \subseteq 0..posted
  BY TransitFacts
<1>4. InTransit' = {n \in InTransit : n < 0 \/ posted < n}
  <2>1. \A n \in 0..posted : ~(n < 0 \/ posted < n)
    BY <1>1
  <2> QED
    BY <2>1, <1>2, <1>3
<1>5. 0 \in 0..posted /\ posted \in 0..posted
  BY <1>1
<1> QED
  BY <1>1, <1>4, <1>5 DEF Lossy!Lose

LEMMA StampedRun ==
  ASSUME NEW s \in Seq(Event), NEW k \in Nat, Len(s) = k, NEW n \in Nat,
         \A i \in 1..k : s[i].id = n + i
  PROVE  Ids(s) = (n + 1)..(n + k)
<1>1. DOMAIN s = 1..k
  OBVIOUS
<1>2. ASSUME NEW id \in Ids(s) PROVE id \in (n + 1)..(n + k)
  <2>1. PICK i \in 1..k : id = s[i].id
    BY <1>1, IdsIs
  <2> QED
    BY <2>1
<1>3. ASSUME NEW id \in (n + 1)..(n + k) PROVE id \in Ids(s)
  <2>1. id - n \in 1..k /\ n + (id - n) = id
    OBVIOUS
  <2>2. s[id - n].id = id
    BY <2>1
  <2> QED
    BY <2>1, <2>2, <1>1, IdsIs
<1> QED
  BY <1>2, <1>3

LEMMA LossyCommit ==
  ASSUME OrderInv, NEW p \in Posters, NEW batch \in Batches, Commit(p, batch)
  PROVE  Lossy!Post
<1> DEFINE events == Stamped(batch, checked[p])
<1>1. /\ TypeOK /\ checked[p] \in Nat /\ posted \in Nat /\ fmq \in Seq(Event)
      /\ posted' = posted + Len(batch) /\ delivered' = delivered /\ pwThread # "dozing"
      /\ Unwritten \in Seq(PendingBatch)
  BY UnwrittenType DEF OrderInv, TypeOK, Commit
<1>2. /\ events \in Seq(Event) /\ Len(events) = Len(batch) /\ Len(batch) \in Nat \ {0}
      /\ NumWakeup(events) \in Nat
      /\ \A i \in 1..Len(batch) : events[i].id = posted + i
  BY <1>1, StampedIs, NumWakeupType
<1>3. PICK fits \in 0..Len(batch), queued \in BOOLEAN :
           LET left == SubSeq(events, fits + 1, Len(batch))
           IN /\ fits > 0 => pending = <<>>
              /\ fits + Len(fmq) <= FmqCapacity
              /\ fmq' = fmq \o SubSeq(events, 1, fits)
              /\ queued => /\ left # <<>>
                           /\ pending' = Append(pending, [events |-> left,
                                                          numWakeup |-> NumWakeup(events)])
                           /\ sizePending' = sizePending + Len(left)
                           /\ pwThread' = Notified(pwThread)
              /\ ~queued => UNCHANGED <<pending, sizePending, pwThread>>
  BY <1>1, CommitFacts
<1> HIDE DEF events
<1> DEFINE first == SubSeq(events, 1, fits)
           left  == SubSeq(events, fits + 1, Len(batch))
           entry == [events |-> left, numWakeup |-> NumWakeup(events)]
<1>4. first \in Seq(Event) /\ left \in Seq(Event)
  BY <1>2, <1>3, PartOfSeq
<1>5. Ids(events) = (posted + 1)..(posted + Len(batch))
  BY <1>1, <1>2, StampedRun
<1>6. Ids(first) = (posted + 1)..(posted + fits)
  <2>1. /\ Len(first) = fits /\ fits \in Nat
        /\ \A i \in 1..fits : first[i].id = posted + i
    BY <1>2, <1>3
  <2> HIDE DEF first
  <2> QED
    BY <2>1, <1>1, <1>4, StampedRun
<1>7. Ids(events) = Ids(first) \cup Ids(left)
  BY <1>2, <1>3, IdsSplit
<1>8. Ids(fmq') = Ids(fmq) \cup Ids(first)
  <2> HIDE DEF first
  <2>1. fmq' = fmq \o first
    BY <1>3 DEF first
  <2> QED
    BY <2>1, <1>1, <1>4, ConcatOrder
<1>9. InTransit = Ids(fmq) \cup TransitOf(Unwritten) /\ InTransit' = Ids(fmq') \cup TransitOf(Unwritten')
  BY DEF InTransit, TransitOf
<1>10. CASE queued
  <2>1. pending' = Append(pending, entry) /\ pwThread' = Notified(pwThread) /\ entry.events = left
    BY <1>3, <1>10
  <2>2. entry \in PendingBatch
    BY <1>2, <1>3, <1>4, <1>10 DEF PendingBatch
  <2> HIDE DEF entry, left, first
  <2>3. Unwritten' = Append(Unwritten, entry)
    BY <2>1, <2>2, <1>1, UnwrittenAppended
  <2>4. TransitOf(Unwritten') = TransitOf(Unwritten) \cup Ids(left)
    BY <2>1, <2>2, <2>3, <1>1, TransitAppend
  <2>5. InTransit' = InTransit \cup (posted + 1)..(posted + Len(batch))
    BY <2>4, <1>5, <1>7, <1>8, <1>9
  <2>6. Len(batch) \in 0..(posted' - posted) /\ posted' > posted
    BY <1>1, <1>2
  <2> QED
    BY <2>5, <2>6, <1>1 DEF Lossy!Post
<1>11. CASE ~queued
  <2>1. Unwritten' = Unwritten
    BY <1>3, <1>11 DEF Unwritten, AfterRetire
  <2>2. InTransit' = InTransit \cup (posted + 1)..(posted + fits)
    BY <2>1, <1>6, <1>8, <1>9
  <2>3. fits \in 0..(posted' - posted) /\ posted' > posted
    BY <1>1, <1>2, <1>3
  <2> QED
    BY <2>2, <2>3, <1>1 DEF Lossy!Post
<1> QED
  BY <1>10, <1>11

LEMMA LossyNext == OrderInv /\ [Next]_vars => [Lossy!Next]_(Lossy!vars)
<1> SUFFICES ASSUME OrderInv, [Next]_vars PROVE Lossy!Next \/ UNCHANGED Lossy!vars
  OBVIOUS
<1>1. ASSUME NEW p \in Posters, NEW batch \in Batches, Commit(p, batch) PROVE Lossy!Next
  BY <1>1, LossyCommit DEF Lossy!Next
<1>2. CASE WriteSucceeds \/ WriteFails
  BY <1>2, LossyWrite DEF Lossy!Next
<1>3. CASE FrameworkRead
  BY <1>3, LossyRead DEF Lossy!Next
<1>4. CASE Drain
  BY <1>4, LossyDrain DEF Lossy!Next
<1>5. CASE Restart
  BY <1>5, LossyRestart DEF Lossy!Next
<1>6. ASSUME \/ \E p \in Posters : EnterPost(p)
             \/ PwCheck \/ PwSleep \/ PwSpuriousWake \/ Retire \/ StopFlag \/ Join
             \/ UNCHANGED vars
      PROVE  UNCHANGED Lossy!vars
  <2>1. /\ fmq' = fmq /\ posted' = posted /\ delivered' = delivered
        /\ Unwritten' = Unwritten
    BY <1>6 DEF EnterPost, PwCheck, PwSleep, PwSpuriousWake, Retire, StopFlag, Join, vars,
                Unwritten, AfterRetire
  <2> QED
    BY <2>1 DEF Lossy!vars, InTransit
<1> QED
  BY <1>1, <1>2, <1>3, <1>4, <1>5, <1>6 DEF Next, HandlePendingWrites, InitializeCommon

\* The two threads that write the FMQ, with chunked and failing writes, refused
\* batches, draining and clearing, are together one lossy queue that keeps the
\* order, for any threads, batches and capacities.
THEOREM IsLossyFifo == Spec => ImplementsLossyFifo
<1>1. Init => Lossy!Init
  <2> SUFFICES ASSUME Init PROVE Lossy!Init
    OBVIOUS
  <2>1. fmq = <<>> /\ Unwritten = <<>> /\ posted = 0 /\ delivered = <<>>
    BY DEF Init, Unwritten
  <2>2. InTransit = Ids(<<>>) \cup TransitOf(<<>>)
    BY <2>1 DEF InTransit, TransitOf
  <2> QED
    BY <2>1, <2>2, IdsEmpty DEF Lossy!Init
<1>2. Spec => Safe
  BY DEF Spec
<1> QED
  BY <1>1, <1>2, OrderInit, OrderNext, LossyNext, PTL
     DEF Safe, ImplementsLossyFifo, Lossy!Spec

=============================================================================
