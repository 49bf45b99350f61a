------------------------- MODULE LegacyControl_proof -------------------------
(***************************************************************************)
(* Proofs about LegacyControl, for any periods, latencies and handles.     *)
(***************************************************************************)
EXTENDS LegacyControl, TLAPS, SequenceTheorems

-----------------------------------------------------------------------------
(* What the tables say of the two sensors that are offered.                *)

\* A longer sequence begins as it did.
LEMMA StaysFirst ==
  ASSUME NEW S, NEW s \in Seq(S), NEW t \in Seq(S), NEW i \in 1..Len(s)
  PROVE  /\ s \o t \in Seq(S)
         /\ i \in 1..Len(s \o t)
         /\ (s \o t)[i] = s[i]
BY ConcatProperties, LenProperties

Described ==
  {Fast, Slow, OnChange, EachSecond, OneShot, Special, Unused,
   Entry("continuous", 160000, 160000), Entry("continuous", 10000, 200000)}

\* The pieces of the table.
LEMMA PieceTypes ==
  /\ Entries0To8 \in Seq(Described) /\ Entries9To16 \in Seq(Described)
  /\ Entries17To28 \in Seq(Described) /\ Entries29To36 \in Seq(Described)
  /\ Entries37To44 \in Seq(Described) /\ Entries45To52 \in Seq(Described)
  /\ Entries53To63 \in Seq(Described)
<1> DEFINE D == Described
<1>1. /\ Fast \in D /\ Slow \in D /\ OnChange \in D /\ EachSecond \in D /\ OneShot \in D
      /\ Special \in D /\ Unused \in D
      /\ Entry("continuous", 160000, 160000) \in D /\ Entry("continuous", 10000, 200000) \in D
  BY DEF Described
<1> HIDE DEF D
<1>2. Entries0To8 \in Seq(D)
  BY <1>1 DEF Entries0To8
<1>3. Entries9To16 \in Seq(D)
  BY <1>1 DEF Entries9To16
<1>4. Entries17To28 \in Seq(D)
  BY <1>1 DEF Entries17To28
<1>5. Entries29To36 \in Seq(D)
  BY <1>1 DEF Entries29To36
<1>6. Entries37To44 \in Seq(D)
  BY <1>1 DEF Entries37To44
<1>7. Entries45To52 \in Seq(D)
  BY <1>1 DEF Entries45To52
<1>8. Entries53To63 \in Seq(D)
  BY <1>1 DEF Entries53To63
<1> QED
  BY <1>2, <1>3, <1>4, <1>5, <1>6, <1>7, <1>8 DEF D

LEMMA OfferedAreFast ==
  /\ BoschAllSensors(ACCELEROMETER) = Fast
  /\ BoschAllSensors(GYROSCOPE_UNCALIBRATED) = Fast
<1> DEFINE s1 == Entries0To8 \o Entries9To16
           s2 == s1 \o Entries17To28
           s3 == s2 \o Entries29To36
           s4 == s3 \o Entries37To44
           s5 == s4 \o Entries45To52
<1>1. /\ Entries0To8 \in Seq(Described) /\ Entries9To16 \in Seq(Described)
      /\ Entries17To28 \in Seq(Described) /\ Entries29To36 \in Seq(Described)
      /\ Entries37To44 \in Seq(Described) /\ Entries45To52 \in Seq(Described)
      /\ Entries53To63 \in Seq(Described)
  BY PieceTypes
<1>2. Len(Entries0To8) = 9 /\ Entries0To8[2] = Fast
  BY DEF Entries0To8
<1>3. Len(Entries9To16) = 8 /\ Entries9To16[8] = Fast
  BY DEF Entries9To16
<1>4. s1 \in Seq(Described) /\ Len(s1) = 17 /\ s1[2] = Fast /\ s1[17] = Fast
  <2>1. /\ s1 \in Seq(Described)
        /\ Len(s1) = Len(Entries0To8) + Len(Entries9To16)
        /\ \A i \in 1..(Len(Entries0To8) + Len(Entries9To16)) :
             s1[i] = IF i <= Len(Entries0To8) THEN Entries0To8[i]
                                              ELSE Entries9To16[i - Len(Entries0To8)]
    BY <1>1, ConcatProperties, Zenon
  <2> HIDE DEF s1
  <2> QED
    BY <1>2, <1>3, <2>1
<1>5. \A s, t \in Seq(Described) : \A i \in 1..Len(s) :
        s \o t \in Seq(Described) /\ i \in 1..Len(s \o t) /\ (s \o t)[i] = s[i]
  BY StaysFirst, Zenon
<1> HIDE DEF s1
<1>6. ASSUME NEW i \in 1..17, s1[i] = Fast
      PROVE  AllEntries[i] = Fast
  <2>1. s2 \in Seq(Described) /\ i \in 1..Len(s2) /\ s2[i] = Fast
    <3>1. s1 \in Seq(Described) /\ i \in 1..Len(s1)
      BY <1>4
    <3> QED
      BY <1>1, <1>6, <1>5, <3>1, Zenon
  <2> HIDE DEF s2
  <2>2. s3 \in Seq(Described) /\ i \in 1..Len(s3) /\ s3[i] = Fast
    BY <1>1, <1>5, <2>1, Zenon
  <2> HIDE DEF s3
  <2>3. s4 \in Seq(Described) /\ i \in 1..Len(s4) /\ s4[i] = Fast
    BY <1>1, <1>5, <2>2, Zenon
  <2> HIDE DEF s4
  <2>4. s5 \in Seq(Described) /\ i \in 1..Len(s5) /\ s5[i] = Fast
    BY <1>1, <1>5, <2>3, Zenon
  <2> HIDE DEF s5
  <2>5. (s5 \o Entries53To63)[i] = Fast
    BY <1>1, <1>5, <2>4, Zenon
  <2> QED
    BY <2>5 DEF AllEntries, s1, s2, s3, s4, s5
<1> QED
  BY <1>4, <1>6 DEF BoschAllSensors, ACCELEROMETER, GYROSCOPE_UNCALIBRATED

\* What is kept of a configuration.
Defaults ==
  {Off(n) : n \in 0..9} \cup {At50Hz(n, m) : n \in 0..9, m \in {0, 5}}
  \cup {At1Hz(n, m) : n \in {0, 200}, m \in {0, 5}}
  \cup {Config(7, 200, "ms", 3, 0), Config(0, 0, "ns", 2, 5)}

LEMMA DefaultTypes == DefaultsNonWakeUp \in Seq(Defaults) /\ DefaultsWakeUp \in Seq(Defaults)
<1> DEFINE D == Defaults
<1>1. \A n \in 0..9 : Off(n) \in D /\ At50Hz(n, 0) \in D /\ At50Hz(n, 5) \in D
  BY DEF Defaults
<1>2. /\ At1Hz(0, 0) \in D /\ At1Hz(0, 5) \in D /\ At1Hz(200, 5) \in D
      /\ Config(7, 200, "ms", 3, 0) \in D /\ Config(0, 0, "ns", 2, 5) \in D
  BY DEF Defaults
<1> HIDE DEF D
<1>3. DefaultsNonWakeUp \in Seq(D)
  BY <1>1, <1>2 DEF DefaultsNonWakeUp
<1>4. DefaultsWakeUp \in Seq(D)
  BY <1>1, <1>2 DEF DefaultsWakeUp
<1> QED
  BY <1>3, <1>4 DEF D

\* Both sensors start at 50 Hz.
LEMMA OfferedDefaults ==
  /\ DefaultConfig(ACCELEROMETER) = At50Hz(7, 0)
  /\ DefaultConfig(GYROSCOPE_UNCALIBRATED) = At50Hz(6, 0)
<1>1. /\ Len(DefaultsNonWakeUp) = 32 /\ DefaultsNonWakeUp[2] = At50Hz(7, 0)
      /\ DefaultsNonWakeUp[17] = At50Hz(6, 0)
  BY DEF DefaultsNonWakeUp
<1>2. \A i \in 1..32 : (DefaultsNonWakeUp \o DefaultsWakeUp)[i] = DefaultsNonWakeUp[i]
  <2>1. \A i \in 1..Len(DefaultsNonWakeUp) :
          (DefaultsNonWakeUp \o DefaultsWakeUp)[i] = DefaultsNonWakeUp[i]
    BY DefaultTypes, StaysFirst, Zenon
  <2> QED
    BY <1>1, <2>1
<1>3. /\ DefaultConfig(ACCELEROMETER) = (DefaultsNonWakeUp \o DefaultsWakeUp)[2]
      /\ DefaultConfig(GYROSCOPE_UNCALIBRATED) = (DefaultsNonWakeUp \o DefaultsWakeUp)[17]
  BY DEF DefaultConfig, ACCELEROMETER, GYROSCOPE_UNCALIBRATED
<1>4. 2 \in 1..32 /\ 17 \in 1..32
  OBVIOUS
<1> QED
  BY <1>1, <1>2, <1>3, <1>4, Zenon

-----------------------------------------------------------------------------
(* The three conversions of a rate.                                        *)

\* The sampling interval that a rate code leads to.
Served(code) == 1000000 \div ConvertODR(Rate(code))

\* Whether an interval serves the sensor at least as often as a period asks for.
Serves(served, period) == served <= period \/ served <= 2500

Codes == {0, 1, 2, 3, 4, 5, 6, 7, 8, 9, 15, 16, 17, 18}

\* The intervals of the five rates of the chip.
LEMMA ServedValues ==
  /\ \A code \in {18, 17, 16, 15, 1} : Served(code) = 2500
  /\ Served(2) = 5000
  /\ Served(3) = 10000
  /\ \A code \in {4, 5, 6, 7} : Served(code) = 20000
  /\ \A code \in {0, 8, 9} : Served(code) = 200000
<1>1. /\ \A code \in {18, 17, 16, 15, 1} : ConvertODR(Rate(code)) = 400
      /\ ConvertODR(Rate(2)) = 200
      /\ ConvertODR(Rate(3)) = 100
      /\ \A code \in {4, 5, 6, 7} : ConvertODR(Rate(code)) = 50
      /\ \A code \in {0, 8, 9} : ConvertODR(Rate(code)) = 5
  BY DEF ConvertODR, Rate
<1>2. 1000000 \div 400 = 2500 /\ 1000000 \div 200 = 5000 /\ 1000000 \div 100 = 10000
      /\ 1000000 \div 50 = 20000 /\ 1000000 \div 5 = 200000
  OBVIOUS
<1> QED
  BY <1>1, <1>2 DEF Served

\* Every period between the delays of the table has a step.
LEMMA StepExists ==
  ASSUME NEW period \in Nat, period >= 500, period <= 200000
  PROVE  \E s \in Steps : FasterThan(period, s[2]) /\ ~FasterThan(period, s[3])
<1>1. 999999 \div 2000 = 499 /\ 999999 \div 1600 = 624 /\ 999999 \div 1000 = 999
      /\ 999999 \div 800 = 1249 /\ 999999 \div 400 = 2499 /\ 999999 \div 200 = 4999
      /\ 999999 \div 100 = 9999 /\ 999999 \div 50 = 19999 /\ 999999 \div 25 = 39999
      /\ 999999 \div 12 = 83333 /\ 999999 \div 6 = 166666 /\ 999999 \div 5 = 199999
      /\ 999999 \div 1 = 999999
  OBVIOUS
<1> QED
  BY <1>1 DEF Steps, FasterThan

\* The step of a period gives an interval that serves it.
LEMMA StepServes ==
  ASSUME NEW period \in Nat, NEW s \in Steps, ~FasterThan(period, s[3])
  PROVE  s[1] \in Codes /\ (period <= 200000 => Serves(Served(s[1]), period))
<1>1. 999999 \div 2000 = 499 /\ 999999 \div 1600 = 624 /\ 999999 \div 1000 = 999
      /\ 999999 \div 800 = 1249 /\ 999999 \div 400 = 2499 /\ 999999 \div 200 = 4999
      /\ 999999 \div 100 = 9999 /\ 999999 \div 50 = 19999 /\ 999999 \div 25 = 39999
      /\ 999999 \div 12 = 83333 /\ 999999 \div 6 = 166666 /\ 999999 \div 5 = 199999
      /\ 999999 \div 1 = 999999
  OBVIOUS
<1> QED
  BY <1>1, ServedValues DEF Steps, FasterThan, Serves, Codes

\* A period within the delays of the table is served, whatever the framework asked
\* for beyond them.
LEMMA RateServes ==
  ASSUME NEW period \in Nat, period >= 500, period <= 200000
  PROVE  /\ EncodeDatarate(period) \in Codes
         /\ Serves(Served(EncodeDatarate(period)), period)
<1> DEFINE Fits(s) == FasterThan(period, s[2]) /\ ~FasterThan(period, s[3])
           step == CHOOSE s \in Steps : Fits(s)
<1>1. FasterThan(period, 1) /\ ~FasterThan(period, 2000)
  BY 999999 \div 1 = 999999, 999999 \div 2000 = 499 DEF FasterThan
<1>2. EncodeDatarate(period) = step[1]
  BY <1>1 DEF EncodeDatarate
<1>3. step \in Steps /\ Fits(step)
  BY StepExists
<1> HIDE DEF step
<1> QED
  BY <1>2, <1>3, StepServes

-----------------------------------------------------------------------------
(* The references to the active sensors.                                   *)

Ascending(refs) == \A i, j \in DOMAIN refs : i < j => refs[i] < refs[j]

\* Both search loops stop at the place of the sensor.
LEMMA PositionFound ==
  ASSUME NEW refs \in Seq(Available), Ascending(refs), NEW inx \in Available
  PROVE  LET i == Position(refs, inx)
         IN /\ i \in 1..(Len(refs) + 1)
            /\ \A k \in 1..(i - 1) : refs[k] < inx
            /\ i <= Len(refs) => refs[i] >= inx
<1> DEFINE At(i) == /\ \A k \in 1..(i - 1) : refs[k] < inx
                    /\ i <= Len(refs) => refs[i] >= inx
<1>1. Len(refs) \in Nat /\ DOMAIN refs = 1..Len(refs)
      /\ \A i \in 1..Len(refs) : refs[i] \in {1, 16}
  BY LenProperties, ElementOfSeq DEF Available, ACCELEROMETER, GYROSCOPE_UNCALIBRATED
<1>2. inx \in {1, 16}
  BY DEF Available, ACCELEROMETER, GYROSCOPE_UNCALIBRATED
<1>3. \E i \in 1..(Len(refs) + 1) : At(i)
  <2>1. CASE Len(refs) = 0 \/ refs[1] >= inx
    <3>1. At(1) /\ 1 \in 1..(Len(refs) + 1)
      BY <1>1, <2>1
    <3> QED
      BY <3>1
  <2>2. CASE Len(refs) # 0 /\ ~(refs[1] >= inx)
    <3>1. refs[1] = 1 /\ inx = 16 /\ 2 \in 1..(Len(refs) + 1)
      BY <1>1, <1>2, <2>2
    <3>2. 2 <= Len(refs) => refs[2] >= inx
      BY <1>1, <3>1 DEF Ascending
    <3>3. \A k \in 1..(2 - 1) : refs[k] < inx
      BY <3>1
    <3> QED
      BY <3>1, <3>2, <3>3
  <2> QED
    BY <2>1, <2>2
<1>4. Position(refs, inx) = CHOOSE i \in 1..(Len(refs) + 1) : At(i)
  BY DEF Position
<1> QED
  BY <1>3, <1>4

\* The sequence has become out: x is new at place i.
HasGained(S, refs, i, x, out) ==
  /\ out \in Seq(S)
  /\ Len(out) = Len(refs) + 1
  /\ out[i] = x
  /\ \A j \in 1..Len(out) : /\ j < i => out[j] = refs[j]
                            /\ j > i => out[j] = refs[j - 1]

LEMMA Inserted ==
  ASSUME NEW S, NEW refs \in Seq(S), NEW x \in S, NEW i \in 1..(Len(refs) + 1),
         NEW out, out = SubSeq(refs, 1, i - 1) \o <<x>> \o SubSeq(refs, i, Len(refs))
  PROVE  HasGained(S, refs, i, x, out)
<1> DEFINE left == SubSeq(refs, 1, i - 1)
           middle == left \o <<x>>
           right == SubSeq(refs, i, Len(refs))
<1>1. Len(refs) \in Nat /\ i \in Nat /\ 1 <= i /\ i <= Len(refs) + 1
  BY LenProperties
<1>2. left \in Seq(S) /\ Len(left) = i - 1 /\ \A j \in 1..(i - 1) : left[j] = refs[j]
  BY <1>1, SubSeqProperties
<1>3. /\ right \in Seq(S) /\ Len(right) = Len(refs) - i + 1
      /\ \A j \in 1..(Len(refs) - i + 1) : right[j] = refs[i + j - 1]
  BY <1>1, SubSeqProperties
<1>4. <<x>> \in Seq(S) /\ Len(<<x>>) = 1 /\ <<x>>[1] = x
  OBVIOUS
<1> HIDE DEF left, right
<1>5. /\ middle \in Seq(S) /\ Len(middle) = Len(left) + 1
      /\ \A j \in 1..(Len(left) + 1) : middle[j] = IF j <= Len(left) THEN left[j] ELSE <<x>>[j - Len(left)]
  BY <1>2, <1>4, ConcatProperties
<1> HIDE DEF middle
<1>6. /\ middle \o right \in Seq(S) /\ Len(middle \o right) = Len(middle) + Len(right)
      /\ \A j \in 1..(Len(middle) + Len(right)) :
           (middle \o right)[j] = IF j <= Len(middle) THEN middle[j] ELSE right[j - Len(middle)]
  BY <1>3, <1>5, ConcatProperties
<1>7. Len(middle \o right) = Len(refs) + 1
  BY <1>1, <1>2, <1>3, <1>5, <1>6
<1>8. ASSUME NEW j \in 1..(Len(refs) + 1)
      PROVE  /\ j < i => (middle \o right)[j] = refs[j]
             /\ j > i => (middle \o right)[j] = refs[j - 1]
  <2>1. ASSUME j < i
        PROVE  (middle \o right)[j] = refs[j]
    BY <1>1, <1>2, <1>3, <1>5, <1>6, <2>1
  <2>2. ASSUME j > i
        PROVE  (middle \o right)[j] = refs[j - 1]
    <3> DEFINE k == j - Len(middle)
    <3>1. Len(middle) = i /\ k = j - i /\ k \in 1..(Len(refs) - i + 1) /\ i + k - 1 = j - 1
      BY <1>1, <1>2, <1>5, <2>2
    <3>2. (middle \o right)[j] = right[k]
      BY <1>1, <1>3, <1>6, <2>2, <3>1
    <3> HIDE DEF k
    <3>3. right[k] = refs[j - 1]
      BY <1>3, <3>1
    <3> QED
      BY <3>2, <3>3
  <2> QED
    BY <2>1, <2>2
<1>9. (middle \o right)[i] = x
  BY <1>1, <1>2, <1>3, <1>4, <1>5, <1>6
<1> QED
  BY <1>6, <1>7, <1>8, <1>9 DEF left, middle, right, HasGained

\* The elements of a sequence that loses the one at place i.
LEMMA TakenOut ==
  ASSUME NEW S, NEW refs \in Seq(S), NEW i \in 1..Len(refs), NEW out,
         out = SubSeq(refs, 1, i - 1) \o SubSeq(refs, i + 1, Len(refs))
  PROVE  /\ out \in Seq(S)
         /\ Len(out) = Len(refs) - 1
         /\ \A j \in 1..Len(out) : out[j] = IF j < i THEN refs[j] ELSE refs[j + 1]
<1> DEFINE left == SubSeq(refs, 1, i - 1)
           right == SubSeq(refs, i + 1, Len(refs))
<1>1. Len(refs) \in Nat /\ i \in Nat /\ 1 <= i /\ i <= Len(refs)
  BY LenProperties
<1>2. left \in Seq(S) /\ Len(left) = i - 1 /\ \A j \in 1..(i - 1) : left[j] = refs[j]
  BY <1>1, SubSeqProperties
<1>3. /\ right \in Seq(S) /\ Len(right) = Len(refs) - i
      /\ \A j \in 1..(Len(refs) - i) : right[j] = refs[i + j]
  BY <1>1, SubSeqProperties
<1> HIDE DEF left, right
<1>4. /\ left \o right \in Seq(S) /\ Len(left \o right) = Len(left) + Len(right)
      /\ \A j \in 1..(Len(left) + Len(right)) :
           (left \o right)[j] = IF j <= Len(left) THEN left[j] ELSE right[j - Len(left)]
  BY <1>2, <1>3, ConcatProperties
<1>5. Len(left \o right) = Len(refs) - 1
  BY <1>1, <1>2, <1>3, <1>4
<1>6. ASSUME NEW j \in 1..(Len(refs) - 1)
      PROVE  (left \o right)[j] = IF j < i THEN refs[j] ELSE refs[j + 1]
  <2>1. CASE j < i
    BY <1>1, <1>2, <1>3, <1>4, <2>1
  <2>2. CASE ~(j < i)
    <3> DEFINE k == j - Len(left)
    <3>1. Len(left) = i - 1 /\ k = j - i + 1 /\ k \in 1..(Len(refs) - i) /\ i + k = j + 1
      BY <1>1, <1>2, <2>2
    <3>2. (left \o right)[j] = right[k]
      BY <1>1, <1>3, <1>4, <2>2, <3>1
    <3> HIDE DEF k
    <3>3. right[k] = refs[j + 1]
      BY <1>3, <3>1
    <3> QED
      BY <1>1, <2>2, <3>2, <3>3
  <2> QED
    BY <2>1, <2>2
<1> QED
  BY <1>4, <1>5, <1>6 DEF left, right

Among(refs, x) == \E k \in DOMAIN refs : refs[k] = x

\* activate_configref_resort keeps the order, and adds or takes out the one sensor.
LEMMA ResortKeeps ==
  ASSUME NEW refs \in Seq(Available), Ascending(refs), NEW inx \in Available,
         NEW enable \in BOOLEAN
  PROVE  LET out == Resort(refs, inx, enable)
         IN /\ out \in Seq(Available)
            /\ Ascending(out)
            /\ enable => Among(out, inx)
            /\ \A x \in Available : x # inx /\ Among(refs, x) => Among(out, x)
<1> DEFINE i == Position(refs, inx)
           n == Len(refs)
           present == i <= n /\ refs[i] = inx
           out == Resort(refs, inx, enable)
<1>1. /\ i \in 1..(n + 1)
      /\ \A k \in 1..(i - 1) : refs[k] < inx
      /\ i <= n => refs[i] >= inx
  BY PositionFound
<1>2. n \in Nat /\ DOMAIN refs = 1..n /\ \A k \in 1..n : refs[k] \in Int /\ refs[k] \in Available
  BY LenProperties, ElementOfSeq DEF Available, ACCELEROMETER, GYROSCOPE_UNCALIBRATED
<1>3. inx \in Int
  BY DEF Available, ACCELEROMETER, GYROSCOPE_UNCALIBRATED
<1>4. \A j, k \in 1..n : j < k => refs[j] < refs[k]
  BY <1>2 DEF Ascending
<1>5. CASE enable /\ ~present
  <2>1. out = SubSeq(refs, 1, i - 1) \o <<inx>> \o SubSeq(refs, i, n)
    BY <1>5 DEF Resort
  <2>2. HasGained(Available, refs, i, inx, out)
    <3>1. i \in 1..(Len(refs) + 1)
      BY <1>1
    <3> HIDE DEF i, out
    <3>2. out = SubSeq(refs, 1, i - 1) \o <<inx>> \o SubSeq(refs, i, Len(refs))
      BY <2>1
    <3> QED
      BY <3>1, <3>2, Inserted, Zenon
  <2> HIDE DEF i, out
  <2>a. /\ out \in Seq(Available) /\ Len(out) = n + 1
        /\ out[i] = inx
        /\ \A j \in 1..Len(out) : j < i => out[j] = refs[j]
        /\ \A j \in 1..Len(out) : j > i => out[j] = refs[j - 1]
    BY <2>2 DEF HasGained
  <2> HIDE DEF n
  <2>3. DOMAIN out = 1..(n + 1)
    BY <2>a, LenProperties
  <2>4. i <= n => refs[i] > inx
    BY <1>1, <1>2, <1>3, <1>5
  <2>5. \A k \in 1..n : k >= i => refs[k] > inx
    BY <1>1, <1>2, <1>3, <1>4, <2>4
  <2>6. ASSUME NEW j \in 1..(n + 1), NEW k \in 1..(n + 1), j < k
        PROVE  out[j] < out[k]
    <3>1. CASE k < i
      BY <1>1, <1>2, <1>4, <2>a, <2>6, <3>1
    <3>2. CASE k = i
      BY <1>1, <1>2, <2>a, <2>6, <3>2
    <3>3. CASE k > i /\ j < i
      <4>1. out[j] = refs[j] /\ out[k] = refs[k - 1] /\ refs[j] < inx /\ k - 1 \in 1..n /\ k - 1 >= i
        BY <1>1, <1>2, <2>a, <2>6, <3>3
      <4> QED
        BY <1>1, <1>2, <1>3, <2>5, <2>6, <3>3, <4>1
    <3>4. CASE k > i /\ j = i
      <4>1. out[j] = inx /\ out[k] = refs[k - 1] /\ k - 1 \in 1..n /\ k - 1 >= i
        BY <1>1, <1>2, <2>a, <2>6, <3>4
      <4> QED
        BY <1>2, <1>3, <2>5, <4>1
    <3>5. CASE k > i /\ j > i
      <4>1. /\ out[j] = refs[j - 1] /\ out[k] = refs[k - 1]
            /\ j - 1 \in 1..n /\ k - 1 \in 1..n /\ j - 1 < k - 1
        BY <1>1, <1>2, <2>a, <2>6, <3>5
      <4> QED
        BY <1>4, <4>1
    <3> QED
      BY <1>1, <1>2, <3>1, <3>2, <3>3, <3>4, <3>5
  <2>7. out[i] = inx /\ i \in 1..(n + 1)
    BY <1>1, <1>2, <2>a
  <2>8. ASSUME NEW x \in Available, NEW k \in 1..n, refs[k] = x
        PROVE  \E j \in 1..(n + 1) : out[j] = x
    <3>1. CASE k < i
      BY <1>1, <1>2, <2>a, <2>8, <3>1
    <3>2. CASE ~(k < i)
      <4>1. k + 1 \in 1..(n + 1) /\ k + 1 > i /\ (k + 1) - 1 = k
        BY <1>1, <1>2, <3>2
      <4>2. out[k + 1] = x
        BY <1>2, <2>a, <2>8, <4>1
      <4> QED
        BY <4>1, <4>2
    <3> QED
      BY <3>1, <3>2
  <2>9. Ascending(out)
    BY <2>3, <2>6 DEF Ascending
  <2>10. Among(out, inx) /\ \A x \in Available : Among(refs, x) => Among(out, x)
    BY <1>2, <2>3, <2>7, <2>8 DEF Among
  <2> QED
    BY <2>a, <2>9, <2>10 DEF out
<1>6. CASE ~enable /\ present
  <2>1. out = SubSeq(refs, 1, i - 1) \o SubSeq(refs, i + 1, n)
    BY <1>6 DEF Resort
  <2>2. i \in 1..n /\ refs[i] = inx
    BY <1>1, <1>2, <1>6
  <2>3. /\ out \in Seq(Available) /\ Len(out) = n - 1
        /\ \A j \in 1..Len(out) : out[j] = IF j < i THEN refs[j] ELSE refs[j + 1]
    BY <2>1, <2>2, TakenOut, Zenon
  <2> HIDE DEF i, n, out
  <2>4. DOMAIN out = 1..(n - 1)
    BY <2>3, LenProperties
  <2>5. ASSUME NEW j \in 1..(n - 1), NEW k \in 1..(n - 1), j < k
        PROVE  out[j] < out[k]
    BY <1>2, <1>4, <2>2, <2>3, <2>5
  <2>6. ASSUME NEW x \in Available, x # inx, NEW k \in 1..n, refs[k] = x
        PROVE  \E j \in 1..(n - 1) : out[j] = x
    <3>1. CASE k < i
      BY <1>2, <2>2, <2>3, <2>6, <3>1
    <3>2. CASE k > i
      <4>1. k - 1 \in 1..(n - 1) /\ ~(k - 1 < i) /\ (k - 1) + 1 = k
        BY <1>2, <2>2, <3>2
      <4>2. out[k - 1] = x
        BY <2>3, <2>6, <4>1
      <4> QED
        BY <4>1, <4>2
    <3> QED
      BY <1>2, <2>2, <2>6, <3>1, <3>2
  <2>7. Ascending(out)
    BY <2>4, <2>5 DEF Ascending
  <2>8. \A x \in Available : x # inx /\ Among(refs, x) => Among(out, x)
    BY <1>2, <2>4, <2>6 DEF Among
  <2> QED
    BY <1>6, <2>3, <2>7, <2>8 DEF out
<1>7. CASE ~(enable /\ ~present) /\ ~(~enable /\ present)
  <2>1. out = refs
    BY <1>7 DEF Resort
  <2>2. enable => Among(refs, inx)
    BY <1>1, <1>2, <1>7 DEF Among
  <2> HIDE DEF out
  <2> QED
    BY <2>1, <2>2 DEF out
<1> QED
  BY <1>5, <1>6, <1>7

-----------------------------------------------------------------------------
(* The inductive invariant.                                                *)

Intervals == {2500, 5000, 10000, 20000, 200000, 1000000}

Types ==
  /\ instance \in {"none", "no_pipe", "no_gyroscope", "running", "dead"}
  /\ list \in {"none", "abandoned", "live", "freed"}
  /\ config \in [Available -> Configs]
  /\ \A inx \in Available : config[inx].dataRate \in Codes
  /\ active \in [Kinds -> Seq(Available)]
  /\ \A k \in Kinds : Ascending(active[k])
  /\ interval \in Intervals
  /\ on \in BOOLEAN
  /\ asked \in Nat

\* Until a device has a list no call finds a sensor, so the statics are as the process
\* found them; a list is live only as long as the device that made it.
Fresh ==
  /\ list \in {"none", "abandoned"} => config = FirstConfig /\ active = [k \in Kinds |-> <<>>]
  /\ list = "live" => instance \in {"no_pipe", "no_gyroscope", "running"}

\* The configured rate serves what was asked for, and an active accelerometer has set
\* the interval by it.
Honoured ==
  list = "live" =>
    /\ Serves(Served(config[ACCELEROMETER].dataRate), asked)
    /\ on => Activated(ACCELEROMETER) /\ interval = Served(config[ACCELEROMETER].dataRate)

IInv == Types /\ Fresh /\ Honoured

LEMMA IInvMeans == IInv => TypeOK /\ RateHonoured
<1> SUFFICES ASSUME IInv
             PROVE  TypeOK /\ RateHonoured
  OBVIOUS
<1>1. interval \in Nat /\ interval > SamplingIntervalOffset
  BY DEF IInv, Types, Intervals, SamplingIntervalOffset
<1>2. TypeOK
  BY <1>1 DEF IInv, Types, TypeOK, Ascending
<1>3. RateHonoured
  BY DEF IInv, Honoured, RateHonoured, Serves
<1> QED
  BY <1>2, <1>3

\* 50 Hz, which serves the period that counts as asked for when a device is opened.
LEMMA FirstTypes ==
  /\ FirstConfig \in [Available -> Configs]
  /\ \A inx \in Available : FirstConfig[inx].dataRate = 4
  /\ Serves(Served(4), 20000)
<1>1. \A n \in 0..9 : At50Hz(n, 0) \in Configs /\ At50Hz(n, 0).dataRate = 4
  <2>1. /\ 4 \in Rates /\ 200 \in Words /\ 0 \in Nat /\ "ms" \in Units
        /\ \A n \in 0..9 : n \in Words
    BY SMT DEF Rates, Words, Units
  <2> QED
    BY <2>1, SMT DEF At50Hz, Config, Configs
<1>2. \A inx \in Available : DefaultConfig(inx) \in {At50Hz(7, 0), At50Hz(6, 0)}
  BY OfferedDefaults DEF Available
<1>3. \A inx \in Available : DefaultConfig(inx) \in Configs /\ DefaultConfig(inx).dataRate = 4
  BY <1>1, <1>2
<1>4. Serves(Served(4), 20000)
  BY ServedValues DEF Serves
<1> QED
  BY <1>3, <1>4 DEF FirstConfig

LEMMA NoneActive ==
  /\ [k \in Kinds |-> <<>>] \in [Kinds -> Seq(Available)]
  /\ \A k \in Kinds : Ascending([j \in Kinds |-> <<>>][k])
BY DEF Ascending

LEMMA InitIInv == Init => IInv
<1> SUFFICES ASSUME Init
             PROVE  IInv
  OBVIOUS
<1>1. Types
  <2>1. /\ instance = "none" /\ list = "none" /\ interval = 1000000 /\ asked = 20000
    BY SMT DEF Init
  <2>2. /\ config \in [Available -> Configs]
        /\ \A inx \in Available : config[inx].dataRate \in Codes
    BY FirstTypes, SMT DEF Init, Codes
  <2>3. active \in [Kinds -> Seq(Available)] /\ \A k \in Kinds : Ascending(active[k])
    BY NoneActive, SMT DEF Init
  <2>4. interval \in Intervals /\ asked \in Nat
    BY <2>1, SMT DEF Intervals
  <2>5. on = FALSE
    BY SMT DEF Init
  <2>6. on \in BOOLEAN
    BY <2>5, Zenon
  <2> QED
    BY <2>1, <2>2, <2>3, <2>4, <2>6, SMT DEF Types
<1>2. Fresh /\ Honoured
  BY SMT DEF Init, Fresh, Honoured
<1> QED
  BY <1>1, <1>2 DEF IInv

\* A new list comes with the first configuration, and none of its sensors is on.
LEMMA OpenKeeps ==
  ASSUME IInv, NEW hasPipe \in BOOLEAN, NEW hasGyroscope \in BOOLEAN,
         NEW memory \in {"none", "abandoned", "live"}, Open(hasPipe, hasGyroscope, memory)
  PROVE  IInv'
<1>1. UNCHANGED <<config, active, interval>> /\ on' = FALSE /\ asked' = 20000 /\ instance = "none"
  BY DEF Open, statics
<1>2. /\ instance' \in {"no_pipe", "no_gyroscope", "running"}
      /\ list' \in {"none", "abandoned", "live", "freed"}
  <2>1. instance' \in {"no_pipe", "no_gyroscope", "running"}
    BY SMT DEF Open
  <2>2. list' = memory \/ list' = list
    BY SMT DEF Open
  <2> QED
    BY <2>1, <2>2, SMT DEF IInv, Types
<1>3. Types'
  <2>1. on' = FALSE
    BY SMT DEF Open
  <2>2. on' \in BOOLEAN
    BY <2>1, Zenon
  <2>3. asked' \in Nat
    BY <1>1, SMT
  <2>4. UNCHANGED <<config, active, interval>>
    BY <1>1, SMT
  <2> QED
    BY <1>2, <2>2, <2>3, <2>4, SMT DEF IInv, Types
<1>4. list # "live"
  BY <1>1 DEF IInv, Fresh
<1>5. list' \in {"none", "abandoned", "live"} => list \in {"none", "abandoned"}
  <2>1. list' = list \/ list \in {"none", "abandoned"}
    BY SMT DEF Open
  <2> QED
    BY <1>4, <2>1
<1>6. Fresh'
  BY <1>1, <1>2, <1>5 DEF IInv, Fresh
<1>7. ASSUME list' = "live"
      PROVE  Serves(Served(config[ACCELEROMETER].dataRate), 20000)
  <2>1. config = FirstConfig
    BY <1>5, <1>7 DEF IInv, Fresh
  <2> QED
    BY <2>1, FirstTypes DEF Available
<1>8. Honoured'
  BY <1>1, <1>7 DEF Honoured
<1> QED
  BY <1>3, <1>6, <1>8 DEF IInv

LEMMA DeviceKeeps ==
  ASSUME IInv, Device
  PROVE  IInv'
<1>1. ASSUME NEW survives \in BOOLEAN, Close(survives)
      PROVE  IInv'
  <2>1. UNCHANGED <<config, active, interval, on, asked>>
    BY <1>1 DEF Close, statics
  <2>2. instance' \in {"none", "dead"} /\ list' = IF list = "live" THEN "freed" ELSE list
    BY <1>1 DEF Close
  <2>3. Types'
    BY <2>1, <2>2 DEF IInv, Types
  <2>4. Fresh' /\ Honoured'
    BY <2>1, <2>2 DEF IInv, Fresh, Honoured
  <2> QED
    BY <2>3, <2>4 DEF IInv
<1>2. CASE ReadFreedList
  BY <1>2 DEF ReadFreedList, statics, IInv, Types, Fresh, Honoured
<1>3. CASE Restart
  <2>1. instance' = "none" /\ list' = "none" /\ interval' = 1000000 /\ asked' = 20000
    BY <1>3, SMT DEF Restart
  <2>2. /\ config' \in [Available -> Configs]
        /\ \A inx \in Available : config'[inx].dataRate \in Codes
    BY <1>3, FirstTypes, SMT DEF Restart, Codes
  <2>3. active' \in [Kinds -> Seq(Available)] /\ \A k \in Kinds : Ascending(active'[k])
    BY <1>3, NoneActive, SMT DEF Restart
  <2>4. interval' \in Intervals /\ asked' \in Nat
    BY <2>1, SMT DEF Intervals
  <2>5. on' = FALSE
    BY <1>3, SMT DEF Restart
  <2>6. on' \in BOOLEAN
    BY <2>5, Zenon
  <2>7. Types'
    BY <2>1, <2>2, <2>3, <2>4, <2>6, SMT DEF Types
  <2>8. Fresh' /\ Honoured'
    BY <1>3, SMT DEF Restart, Fresh, Honoured
  <2> QED
    BY <2>7, <2>8 DEF IInv
<1> QED
  BY <1>1, <1>2, <1>3, OpenKeeps DEF Device

-----------------------------------------------------------------------------
(* The calls of the framework.                                             *)

LEMMA KindOfOffered == \A inx \in Available : Kind(inx) = "nonwk"
BY DEF Available, ACCELEROMETER, GYROSCOPE_UNCALIBRATED, Kind

\* A found sensor is one of the two that are offered, and the list has it, or had.
LEMMA FoundIsOffered ==
  ASSUME NEW handle, NEW found \in Finds(handle), found,
         list \in {"none", "abandoned", "live", "freed"}
  PROVE  handle \in Available /\ list \in {"live", "freed"}
<1>1. CASE list = "live"
  BY <1>1 DEF Finds
<1>2. CASE list = "freed"
  BY <1>2 DEF Finds
<1>3. CASE list \in {"none", "abandoned"}
  BY <1>3 DEF Finds
<1> QED
  BY <1>1, <1>2, <1>3

LEMMA ServedIsInterval ==
  ASSUME NEW code \in Codes
  PROVE  Served(code) \in Intervals
<1>1. CASE code \in {18, 17, 16, 15, 1}
  BY <1>1, ServedValues, SMT DEF Intervals
<1>2. CASE code \in {2, 3}
  BY <1>2, ServedValues, SMT DEF Intervals
<1>3. CASE code \in {4, 5, 6, 7}
  BY <1>3, ServedValues, SMT DEF Intervals
<1>4. CASE code \in {0, 8, 9}
  BY <1>4, ServedValues, SMT DEF Intervals
<1> QED
  BY <1>1, <1>2, <1>3, <1>4, SMT DEF Codes

\* Only the accelerometer sets the sampling interval.
LEMMA IntervalSet ==
  ASSUME NEW conf
  PROVE  /\ IntervalFor(ACCELEROMETER, conf) = Served(conf.dataRate)
         /\ IntervalFor(GYROSCOPE_UNCALIBRATED, conf) = interval
<1>1. BoschAllSensors(ACCELEROMETER).mode # "on_change"
  BY OfferedAreFast, SMT DEF Fast, Entry
<1>2. IntervalFor(ACCELEROMETER, conf) = Served(conf.dataRate)
  BY <1>1, SMT DEF IntervalFor, Served, HasSupplier, ACCELEROMETER
<1>3. IntervalFor(GYROSCOPE_UNCALIBRATED, conf) = interval
  BY SMT DEF IntervalFor, ACCELEROMETER, GYROSCOPE_UNCALIBRATED
<1> QED
  BY <1>2, <1>3

LEMMA ActivateKeeps ==
  ASSUME IInv, NEW handle, NEW enable \in BOOLEAN, Activate(handle, enable)
  PROVE  IInv'
<1>1. UNCHANGED <<instance, list, config, asked>>
  BY DEF Activate
<1>2. PICK found \in Finds(handle) :
        IF handle # INVALID /\ found
        THEN /\ active' = [active EXCEPT ![Kind(handle)] = Resort(@, handle, enable)]
             /\ interval' = IF enable THEN IntervalFor(handle, config[handle]) ELSE interval
             /\ on' = IF handle = ACCELEROMETER THEN enable ELSE on
        ELSE UNCHANGED <<active, interval, on>>
  BY DEF Activate
<1>3. CASE ~(handle # INVALID /\ found)
  <2>1. UNCHANGED vars
    BY <1>1, <1>2, <1>3 DEF vars
  <2> QED
    BY <2>1, SMT DEF vars, IInv, Types, Fresh, Honoured, Activated
<1>4. CASE handle # INVALID /\ found
  <2> DEFINE refs == active["nonwk"]
             out == Resort(refs, handle, enable)
  <2>1. handle \in Available /\ list \in {"live", "freed"}
    BY <1>4, FoundIsOffered, Zenon DEF IInv, Types
  <2>2. refs \in Seq(Available) /\ Ascending(refs)
    BY SMT DEF IInv, Types, Kinds
  <2>3. /\ out \in Seq(Available)
        /\ Ascending(out)
        /\ enable => Among(out, handle)
        /\ \A x \in Available : x # handle /\ Among(refs, x) => Among(out, x)
    BY <2>1, <2>2, ResortKeeps
  <2>4. active' = [active EXCEPT !["nonwk"] = out]
    BY <1>2, <1>4, <2>1, KindOfOffered
  <2>5. interval' = IF enable THEN IntervalFor(handle, config[handle]) ELSE interval
    BY <1>2, <1>4
  <2>6. on' = IF handle = ACCELEROMETER THEN enable ELSE on
    BY <1>2, <1>4
  <2> HIDE DEF out
  <2>7. active' \in [Kinds -> Seq(Available)] /\ \A k \in Kinds : Ascending(active'[k])
    BY <2>3, <2>4 DEF IInv, Types
  <2>8. active'["nonwk"] = out
    BY <2>4, SMT DEF IInv, Types, Kinds
  <2>9. on' \in BOOLEAN
    BY <2>6 DEF IInv, Types
  <2>10. CASE handle = ACCELEROMETER
    <3>1. interval' = IF enable THEN Served(config[ACCELEROMETER].dataRate) ELSE interval
      BY <2>5, <2>10, IntervalSet
    <3>2. interval' \in Intervals
      BY <2>1, <2>10, <3>1, ServedIsInterval DEF IInv, Types
    <3>3. on' = enable
      BY <2>6, <2>10
    <3>4. on' => Among(active'["nonwk"], ACCELEROMETER)
      BY <2>3, <2>8, <2>10, <3>3
    <3>5. Types'
      BY <1>1, <2>7, <2>9, <3>2, SMT DEF IInv, Types
    <3>6. Fresh'
      BY <1>1, <2>1, SMT DEF IInv, Fresh
    <3>7. on' => Activated(ACCELEROMETER)'
      BY <2>1, <2>10, <3>4, KindOfOffered DEF Activated, Among
    <3>8. Honoured'
      BY <1>1, <3>1, <3>3, <3>7, SMT DEF IInv, Honoured
    <3> QED
      BY <3>5, <3>6, <3>8 DEF IInv
  <2>11. CASE handle = GYROSCOPE_UNCALIBRATED
    <3>1. interval' = interval
      BY <2>5, <2>11, IntervalSet
    <3>2. on' = on
      BY <2>6, <2>11, SMT DEF ACCELEROMETER, GYROSCOPE_UNCALIBRATED
    <3>3. Activated(ACCELEROMETER) => Activated(ACCELEROMETER)'
      <4>1. ACCELEROMETER # handle /\ ACCELEROMETER \in Available
        BY <2>11, SMT DEF ACCELEROMETER, GYROSCOPE_UNCALIBRATED, Available
      <4>2. Among(refs, ACCELEROMETER) => Among(active'["nonwk"], ACCELEROMETER)
        BY <2>3, <2>8, <4>1
      <4> QED
        BY <4>1, <4>2, KindOfOffered DEF Activated, Among
    <3>4. Types'
      BY <1>1, <2>7, <2>9, <3>1, SMT DEF IInv, Types
    <3>5. Fresh'
      BY <1>1, <2>1, SMT DEF IInv, Fresh
    <3>6. Honoured'
      BY <1>1, <3>1, <3>2, <3>3, SMT DEF IInv, Honoured
    <3> QED
      BY <3>4, <3>5, <3>6 DEF IInv
  <2> QED
    BY <2>1, <2>10, <2>11, SMT DEF Available
<1> QED
  BY <1>3, <1>4

\* The value of a latency fits its 16 bits.
LEMMA LatencyTypes ==
  ASSUME NEW latency \in Nat
  PROVE  \E value \in Words, unit \in Units : EncodeMaxLatency(latency) = <<value, unit>>
<1>1. CASE latency >= 1000000
  <2>1. latency \div 1000000 \in Nat
    BY SMT
  <2>2. EncodeMaxLatency(latency) =
          IF latency \div 1000000 < 16383 THEN <<latency \div 1000000, "s">> ELSE <<16383, "s">>
    BY <1>1, SMT DEF EncodeMaxLatency
  <2>3. CASE latency \div 1000000 < 16383
    <3>1. latency \div 1000000 \in Words /\ "s" \in Units
      BY <2>1, <2>3, SMT DEF Words, Units
    <3> QED
      BY <2>2, <2>3, <3>1, SMT
  <2>4. CASE ~(latency \div 1000000 < 16383)
    <3>1. 16383 \in Words /\ "s" \in Units
      BY SMT DEF Words, Units
    <3> QED
      BY <2>2, <2>4, <3>1, SMT
  <2> QED
    BY <2>3, <2>4, SMT
<1>2. CASE ~(latency >= 1000000) /\ latency >= 1000
  <2>1. latency \div 1000 \in 0..999
    BY <1>2, SMT
  <2>2. latency \div 1000 \in Words /\ "ms" \in Units
    BY <2>1, SMT DEF Words, Units
  <2>3. EncodeMaxLatency(latency) = <<latency \div 1000, "ms">>
    BY <1>2, SMT DEF EncodeMaxLatency
  <2> QED
    BY <2>2, <2>3, SMT
<1>3. CASE ~(latency >= 1000000) /\ ~(latency >= 1000)
  <2>1. latency \in Words /\ 0 \in Words
    <3>1. latency \in 0..999
      BY <1>3, SMT
    <3> QED
      BY <3>1, SMT DEF Words
  <2>2. "us" \in Units /\ "ns" \in Units
    BY DEF Units
  <2>3. EncodeMaxLatency(latency) \in {<<latency, "us">>, <<0, "ns">>}
    BY <1>3, SMT DEF EncodeMaxLatency
  <2> QED
    BY <2>1, <2>3, <2>2, SMT
<1> QED
  BY <1>1, <1>2, <1>3, SMT

LEMMA FifoTypes ==
  ASSUME NEW latency \in Nat, NEW period \in Nat, period >= 500
  PROVE  FifoDataLen(latency, period) \in Words
<1>1. \A x \in Nat : x % 65536 \in Words
  BY SMT DEF Words
<1>2. latency \div period \in Nat
  BY SMT
<1>3. FifoDataLen(latency, period) = (latency \div period) % 65536
  BY SMT DEF FifoDataLen
<1> HIDE DEF Words
<1> QED
  BY <1>1, <1>2, <1>3

\* The configuration that is made of fields of their types.
LEMMA ConfigTypes ==
  ASSUME NEW rate \in Codes, NEW value \in Words, NEW unit \in Units, NEW len \in Words
  PROVE  /\ Config(rate, value, unit, len, 0) \in Configs
         /\ Config(rate, value, unit, len, 0).dataRate = rate
<1>1. rate \in Rates /\ 0 \in Nat
  BY SMT DEF Codes, Rates
<1>2. Config(rate, value, unit, len, 0) =
        [dataRate |-> rate, maxLatency |-> value, latencyUnit |-> unit, fifoDataLen |-> len,
         delayOnChange |-> 0]
  BY DEF Config
<1> QED
  BY <1>1, <1>2, SMT DEF Configs

\* What batch makes of any period and latency for one of the two sensors.
LEMMA NewConfigServes ==
  ASSUME NEW inx \in Available, NEW period \in Nat, NEW latency \in Nat
  PROVE  LET conf == NewConfig(inx, period, latency)
         IN /\ conf \in Configs
            /\ conf.dataRate \in Codes
            /\ Serves(Served(conf.dataRate), period)
<1> DEFINE clamped == Clamped(Fast, period)
           conf == NewConfig(inx, period, latency)
           len == FifoDataLen(latency, clamped)
<1>1. BoschAllSensors(inx) = Fast
  BY OfferedAreFast DEF Available
<1>2. Fast.minDelay = 500 /\ Fast.maxDelay = 200000 /\ Fast.mode # "on_change"
  BY SMT DEF Fast, Entry
<1>3. /\ clamped \in Nat /\ clamped >= 500 /\ clamped <= 200000
      /\ clamped <= period \/ clamped = 500
  BY <1>2, SMT DEF Clamped
<1>4. PICK value \in Words, unit \in Units : EncodeMaxLatency(latency) = <<value, unit>>
  BY LatencyTypes
<1>5. conf = Config(EncodeDatarate(clamped), value, unit, len, 0)
  BY <1>1, <1>2, <1>4, SMT DEF NewConfig
<1> HIDE DEF clamped, conf
<1>6. len \in Words
  BY <1>3, FifoTypes
<1> HIDE DEF len
<1>7. EncodeDatarate(clamped) \in Codes /\ Serves(Served(EncodeDatarate(clamped)), clamped)
  BY <1>3, RateServes
<1>8. conf \in Configs /\ conf.dataRate = EncodeDatarate(clamped)
  BY <1>5, <1>6, <1>7, ConfigTypes
<1>9. Served(EncodeDatarate(clamped)) \in Nat
  BY <1>7, ServedIsInterval, SMT DEF Intervals
<1>10. Serves(Served(EncodeDatarate(clamped)), period)
  BY <1>3, <1>7, <1>9, SMT DEF Serves
<1> QED
  BY <1>7, <1>8, <1>10 DEF conf

LEMMA BatchKeeps ==
  ASSUME IInv, NEW handle, NEW period \in Nat, NEW latency \in Nat, Batch(handle, period, latency)
  PROVE  IInv'
<1> DEFINE conf == NewConfig(handle, period, latency)
<1>1. UNCHANGED <<instance, list, active, on>>
  BY DEF Batch
<1>2. PICK found \in Finds(handle) :
        IF found /\ Batched(handle)
        THEN /\ config' = [config EXCEPT ![handle] = conf]
             /\ interval' = IF Activated(handle) THEN IntervalFor(handle, conf) ELSE interval
             /\ asked' = IF handle = ACCELEROMETER THEN period ELSE asked
        ELSE UNCHANGED <<config, interval, asked>>
  BY DEF Batch
<1>3. CASE ~(found /\ Batched(handle))
  <2>1. UNCHANGED vars
    BY <1>1, <1>2, <1>3 DEF vars
  <2> QED
    BY <2>1, SMT DEF vars, IInv, Types, Fresh, Honoured, Activated
<1>4. CASE found /\ Batched(handle)
  <2>1. handle \in Available /\ list \in {"live", "freed"}
    BY <1>4, FoundIsOffered, Zenon DEF IInv, Types
  <2>2. /\ conf \in Configs
        /\ conf.dataRate \in Codes
        /\ Serves(Served(conf.dataRate), period)
    BY <2>1, NewConfigServes
  <2>3. config' = [config EXCEPT ![handle] = conf]
    BY <1>2, <1>4
  <2>4. interval' = IF Activated(handle) THEN IntervalFor(handle, conf) ELSE interval
    BY <1>2, <1>4
  <2>5. asked' = IF handle = ACCELEROMETER THEN period ELSE asked
    BY <1>2, <1>4
  <2> HIDE DEF conf
  <2>6. config \in [Available -> Configs]
    BY DEF IInv, Types
  <2>7. /\ config' \in [Available -> Configs]
        /\ \A inx \in Available : config'[inx].dataRate \in Codes
    <3>1. \A inx \in Available : config'[inx] = conf \/ config'[inx] = config[inx]
      BY <2>3, <2>6
    <3>2. \A inx \in Available : config[inx].dataRate \in Codes
      BY DEF IInv, Types
    <3>3. config' \in [Available -> Configs]
      BY <2>2, <2>3, <2>6
    <3>4. ASSUME NEW inx \in Available
          PROVE  config'[inx].dataRate \in Codes
      <4>1. CASE config'[inx] = conf
        BY <2>2, <4>1
      <4>2. CASE config'[inx] = config[inx]
        BY <3>2, <4>2
      <4> QED
        BY <3>1, <4>1, <4>2
    <3> QED
      BY <3>3, <3>4
  <2>8. config'[handle] = conf
    BY <2>1, <2>3, <2>6
  <2>9. asked' \in Nat
    BY <2>5, SMT DEF IInv, Types
  <2>10. Fresh'
    BY <1>1, <2>1, SMT DEF IInv, Fresh
  <2>11. Activated(ACCELEROMETER)' <=> Activated(ACCELEROMETER)
    BY <1>1 DEF Activated
  <2>12. CASE handle = ACCELEROMETER
    <3>1. interval' = IF Activated(ACCELEROMETER) THEN Served(conf.dataRate) ELSE interval
      BY <2>4, <2>12, IntervalSet
    <3>2. interval' \in Intervals
      BY <2>2, <3>1, ServedIsInterval DEF IInv, Types
    <3>3. Types'
      BY <1>1, <2>7, <2>9, <3>2, SMT DEF IInv, Types
    <3>4. asked' = period /\ config'[ACCELEROMETER] = conf
      BY <2>5, <2>8, <2>12
    <3>5. Honoured'
      BY <1>1, <2>2, <2>11, <3>1, <3>4, SMT DEF IInv, Honoured
    <3> QED
      BY <2>10, <3>3, <3>5 DEF IInv
  <2>13. CASE handle = GYROSCOPE_UNCALIBRATED
    <3>1. interval' = interval
      BY <2>4, <2>13, IntervalSet
    <3>2. Types'
      BY <1>1, <2>7, <2>9, <3>1, SMT DEF IInv, Types
    <3>3. ACCELEROMETER # handle /\ ACCELEROMETER \in Available
      BY <2>13, SMT DEF ACCELEROMETER, GYROSCOPE_UNCALIBRATED, Available
    <3>4. asked' = asked /\ config'[ACCELEROMETER] = config[ACCELEROMETER]
      BY <2>3, <2>5, <2>6, <3>3
    <3>5. Honoured'
      BY <1>1, <2>11, <3>1, <3>4, SMT DEF IInv, Honoured
    <3> QED
      BY <2>10, <3>2, <3>5 DEF IInv
  <2> QED
    BY <2>1, <2>12, <2>13, SMT DEF Available
<1> QED
  BY <1>3, <1>4

LEMMA NextKeeps ==
  ASSUME ControlAssumption, IInv, [Next]_vars
  PROVE  IInv'
<1>1. CASE UNCHANGED vars
  BY <1>1, SMT DEF vars, IInv, Types, Fresh, Honoured, Activated
<1>2. CASE Device
  BY <1>2, DeviceKeeps
<1>3. CASE Calls
  <2>1. ASSUME NEW handle \in Handles, NEW enable \in BOOLEAN, Activate(handle, enable)
        PROVE  IInv'
    BY <2>1, ActivateKeeps
  <2>2. ASSUME NEW handle \in Handles, NEW period \in Periods, NEW latency \in Latencies,
               Batch(handle, period, latency)
        PROVE  IInv'
    <3>1. period \in Nat /\ latency \in Nat
      BY DEF ControlAssumption
    <3> QED
      BY <2>2, <3>1, BatchKeeps
  <2> QED
    BY <1>3, <2>1, <2>2 DEF Calls
<1> QED
  BY <1>1, <1>2, <1>3 DEF Next

LEMMA Invariant == Spec => []IInv
<1>1. ControlAssumption
  BY ControlAssumption
<1>2. IInv /\ [Next]_vars => IInv'
  BY <1>1, NextKeeps
<1> QED
  BY <1>2, InitIInv, PTL DEF Spec

\* For any periods, latencies and handles the control keeps its types: no call divides by
\* zero, the references stay in order, and the interval exceeds what the thread takes off it.
THEOREM ControlTypes == Spec => []TypeOK
<1>1. IInv => TypeOK
  BY IInvMeans
<1> QED
  BY <1>1, Invariant, PTL

\* For any sequence of calls, as long as the sensor list is live (from the open that makes
\* it to the first close), the accelerometer is sampled as often as asked, up to the 400 Hz
\* of the chip: batch, activate and the three conversions (encode_datarate,
\* CONVERT_DATARATE_CODE, SMI240_convert_ODR) never lose a rate.
THEOREM RateIsHonoured == Spec => []RateHonoured
<1>1. IInv => RateHonoured
  BY IInvMeans
<1> QED
  BY <1>1, Invariant, PTL

=============================================================================
