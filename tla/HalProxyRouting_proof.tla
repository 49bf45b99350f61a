----------------------- MODULE HalProxyRouting_proof -----------------------
(***************************************************************************)
(* Proofs about HalProxyRouting, for any libraries, configuration files    *)
(* and sensors: the tables and their handles first, then, on top of that   *)
(* invariant, the modes, the enabled sensors, the reports of dynamic       *)
(* sensors and the injected payload.                                       *)
(***************************************************************************)
EXTENDS HalProxyRouting, SequenceTheorems, TLAPS

-----------------------------------------------------------------------------
(* Arithmetic of handles.                                                  *)

\* A handle is taken apart into what setSubHalIndex put together, and fits in 32
\* bits for the first 128 sub-HALs.
LEMMA HandleParts ==
  ASSUME NEW own \in Int, SubHalIndexIsClear(own), NEW index \in 0..127
  PROVE  /\ ExtractSubHalIndex(SetSubHalIndex(own, index)) = index
         /\ ClearSubHalIndex(SetSubHalIndex(own, index)) = own
         /\ SetSubHalIndex(own, index) \in 0..MaxInt32
<1>1. /\ ExtractSubHalIndex(SetSubHalIndex(own, index)) = index
      /\ ClearSubHalIndex(SetSubHalIndex(own, index)) = own
  BY DEF IndexUnit, SetSubHalIndex, ExtractSubHalIndex, ClearSubHalIndex, SubHalIndexIsClear
<1>2. SetSubHalIndex(own, index) \in Nat /\ SetSubHalIndex(own, index) < MaxInt32 + 1
  BY DEF IndexUnit, MaxInt32, SetSubHalIndex, SubHalIndexIsClear
<1>3. MaxInt32 \in Int
  BY DEF MaxInt32
<1>. QED
  BY <1>1, <1>2, <1>3

\* Handles of different sensors of one sub-HAL differ.
LEMMA HandlesDiffer ==
  ASSUME NEW a \in Int, SubHalIndexIsClear(a), NEW b \in Int, SubHalIndexIsClear(b), NEW n \in 1..128,
         SetSubHalIndex(a, n - 1) = SetSubHalIndex(b, n - 1)
  PROVE  a = b
BY DEF IndexUnit, SetSubHalIndex, SubHalIndexIsClear

LEMMA Widths ==
  /\ MaxInt32 \in Int /\ MaxInt32 >= 0
  /\ IndexUnit \in Int /\ IndexUnit > 0
  /\ MaxInt32 = 127 * IndexUnit + IndexUnit - 1
BY DEF MaxInt32, IndexUnit

\* A number of 32 bits, from its first byte and the rest.
LEMMA JoinedFits ==
  ASSUME NEW byte \in Int, 0 <= byte, byte <= 255,
         NEW rest \in Int, 0 <= rest, rest < IndexUnit
  PROVE  /\ Joined(byte, rest) \in Int
         /\ -MaxInt32 - 1 <= Joined(byte, rest) /\ Joined(byte, rest) <= MaxInt32
BY DEF Joined, IndexUnit, MaxInt32

LEMMA OrByteFits ==
  ASSUME NEW a \in Int, NEW b \in Int
  PROVE  OrByte(a, b) \in Int /\ 0 <= OrByte(a, b) /\ OrByte(a, b) <= 255
<1>. DEFINE bit(w) == IF (a \div w) % 2 = 1 \/ (b \div w) % 2 = 1 THEN w ELSE 0
<1>1. OrByte(a, b) = bit(1) + bit(2) + bit(4) + bit(8) + bit(16) + bit(32) + bit(64) + bit(128)
  BY DEF OrByte
<1>2. \A w \in Nat : bit(w) \in Int /\ 0 <= bit(w) /\ bit(w) <= w
  OBVIOUS
<1>. HIDE DEF bit
<1>3. /\ bit(1) \in Int /\ 0 <= bit(1) /\ bit(1) <= 1
      /\ bit(2) \in Int /\ 0 <= bit(2) /\ bit(2) <= 2
      /\ bit(4) \in Int /\ 0 <= bit(4) /\ bit(4) <= 4
      /\ bit(8) \in Int /\ 0 <= bit(8) /\ bit(8) <= 8
  BY <1>2
<1>4. /\ bit(16) \in Int /\ 0 <= bit(16) /\ bit(16) <= 16
      /\ bit(32) \in Int /\ 0 <= bit(32) /\ bit(32) <= 32
      /\ bit(64) \in Int /\ 0 <= bit(64) /\ bit(64) <= 64
      /\ bit(128) \in Int /\ 0 <= bit(128) /\ bit(128) <= 128
  BY <1>2
<1>. QED
  BY <1>1, <1>3, <1>4

\* Whatever handle an event has, what the proxy makes of it fits in 32 bits.
LEMMA HandleFits ==
  ASSUME NEW own \in Int, NEW index \in 0..127
  PROVE  SetSubHalIndex(own, index) \in Int32
<1>1. CASE SubHalIndexIsClear(own)
  <2>1. SetSubHalIndex(own, index) \in 0..MaxInt32
    BY <1>1, HandleParts
  <2>. QED
    BY <2>1, Widths DEF Int32
<1>2. CASE ~SubHalIndexIsClear(own)
  <2>. DEFINE byte == OrByte((own \div IndexUnit) % 256, index)
              rest == own % IndexUnit
  <2>1. SetSubHalIndex(own, index) = Joined(byte, rest)
    BY <1>2 DEF SetSubHalIndex, SubHalIndexIsClear
  <2>2. (own \div IndexUnit) % 256 \in Int /\ rest \in Int /\ 0 <= rest /\ rest < IndexUnit
    BY DEF IndexUnit
  <2>3. byte \in Int /\ 0 <= byte /\ byte <= 255
    <3>1. index \in Int
      OBVIOUS
    <3>2. \A a, b \in Int : OrByte(a, b) \in Int /\ 0 <= OrByte(a, b) /\ OrByte(a, b) <= 255
      BY OrByteFits
    <3>. QED
      BY <2>2, <3>1, <3>2
  <2>. HIDE DEF byte, rest
  <2>4. /\ Joined(byte, rest) \in Int
        /\ -MaxInt32 - 1 <= Joined(byte, rest) /\ Joined(byte, rest) <= MaxInt32
    BY <2>2, <2>3, JoinedFits
  <2>. QED
    BY <2>1, <2>4, Widths DEF Int32
<1>. QED
  BY <1>1, <1>2

LEMMA Int32AreInts == Int32 \subseteq Int /\ 0 \in Int32
BY Widths DEF Int32

\* The handles of one sub-HAL lie between those of its neighbours.
LEMMA HandleRange ==
  ASSUME NEW own \in Int, SubHalIndexIsClear(own), NEW n \in 1..128
  PROVE  /\ SetSubHalIndex(own, n - 1) >= (n - 1) * IndexUnit
         /\ SetSubHalIndex(own, n - 1) < n * IndexUnit
BY DEF IndexUnit, SetSubHalIndex, SubHalIndexIsClear

LEMMA UnitsGrow ==
  ASSUME NEW n \in 1..128
  PROVE  /\ (n - 1) * IndexUnit <= n * IndexUnit
         /\ (n - 1) * IndexUnit \in Int /\ n * IndexUnit \in Int
BY DEF IndexUnit

\* clearSubHalIndex always gives a handle a sub-HAL may use.
LEMMA ClearedIsClear ==
  ASSUME NEW handle \in Int
  PROVE  ClearSubHalIndex(handle) \in Int /\ SubHalIndexIsClear(ClearSubHalIndex(handle))
BY DEF IndexUnit, ClearSubHalIndex, SubHalIndexIsClear

-----------------------------------------------------------------------------
(* The inductive invariant.                                                *)

\* The handle is the one the proxy makes of a sub-HAL's own handle.
Homed(handle, hal, own) ==
  \E i \in DOMAIN halList :
    /\ hal = halList[i]
    /\ own \in Int /\ SubHalIndexIsClear(own)
    /\ handle = SetSubHalIndex(own, i - 1)

AllHomed(infos) == \A s \in infos : Homed(s.handle, s.hal, s.own)

\* Nothing has been told, and nobody has called, before the constructor is done.
Progress ==
  /\ Len(halList) <= Len(config)
  /\ \A i, j \in DOMAIN halList : halList[i] = halList[j] => i = j
  /\ phase = "libraries" =>
       /\ sensors = {}
       /\ next <= Len(config) + 1
       /\ \A i \in DOMAIN halList : \E c \in 1..(next - 1) : halList[i] = config[c]
       /\ Len(halList) <= next - 1
  /\ phase \in {"libraries", "lists"} => known = {} /\ session = 0
  /\ phase \in {"disabled", "cleared", "subhals"} => session # 0
  /\ session = 0 => dynamic = {} /\ enabled = {} /\ \A t \in Callers : report[t] = Nothing

SensorsHome ==
  /\ \A s \in sensors : s.hal # None => Homed(s.handle, s.hal, s.own)
  /\ \A s \in sensors : s.hal = None => ~s.direct
  /\ phase = "lists" => \A s \in sensors : s.hal # None /\ s.handle < (next - 1) * IndexUnit

DynamicsHome ==
  /\ AllHomed(dynamic)
  /\ \A t \in Callers : report[t] # Nothing => AllHomed(report[t].infos)

\* The empty entries name no sensor.
KnownHome == \A k \in known : k.hal # None => Homed(k.handle, k.hal, k.own)

\* What processEvents does with the handles in an event.
EventHome ==
  last.op = "event" =>
    /\ last.handle \in Int32
    /\ \A t \in last.told :
         t.own \in Int /\ (SubHalIndexIsClear(t.own) => Homed(t.handle, last.hal, t.own))

\* Sub-HALs report the sensors they have, and enabled ones can be addressed.
HalsOK ==
  /\ \A h \in Libs : plugged[h] \subseteq Pluggable[h]
  /\ \A e \in enabled : SubHalIndexIsClear(e[2])

\* All sensors that kept their direct channel flags belong to the owner of the direct
\* channel, and configDirectReport goes there.
Channel ==
  /\ \A s \in sensors : s.direct => s.hal = channelHal
  /\ last.op = "direct" => \/ last.hal = None
                           \/ /\ last.hal = channelHal
                              /\ last.handle = -1 \/ last.own = ClearSubHalIndex(last.handle)

IInv ==
  TypeOK /\ Progress /\ SensorsHome /\ DynamicsHome /\ KnownHome /\ EventHome /\ HalsOK /\ Channel

LEMMA Indexes ==
  ASSUME NEW n \in Nat, NEW m \in Nat, n <= m, m <= 128
  PROVE  n \in 0..128 /\ \A i \in 1..n : i - 1 \in 0..127 /\ i \in 1..128
OBVIOUS

\* There are never more than 128 sub-HALs.
LEMMA FewHals ==
  ASSUME RoutingAssumption, TypeOK, Progress
  PROVE  /\ Len(halList) \in 0..128
         /\ DOMAIN halList = 1..Len(halList)
         /\ Len(config) \in Nat /\ DOMAIN config = 1..Len(config)
         /\ \A i \in DOMAIN halList : halList[i] \in Libs /\ i - 1 \in 0..127 /\ i \in 1..128
<1>1. config \in Seq(Libs) /\ Len(config) <= 128
  BY DEF RoutingAssumption, TypeOK
<1>2. halList \in Seq(Libs) /\ Len(halList) <= Len(config)
  BY DEF TypeOK, Progress
<1>3. /\ Len(halList) \in Nat /\ DOMAIN halList = 1..Len(halList)
      /\ Len(config) \in Nat /\ DOMAIN config = 1..Len(config)
  BY <1>1, <1>2, LenProperties
<1>4. \A i \in DOMAIN halList : halList[i] \in Libs
  BY <1>2, <1>3, ElementOfSeq
<1>5. Len(halList) \in 0..128 /\ \A i \in DOMAIN halList : i - 1 \in 0..127 /\ i \in 1..128
  BY <1>1, <1>2, <1>3, Indexes
<1>. QED
  BY <1>3, <1>4, <1>5

\* What initializeSensorList and onDynamicSensorsConnected make of a sensor.
LEMMA MadeHomed ==
  ASSUME RoutingAssumption, TypeOK, Progress, NEW i \in DOMAIN halList,
         NEW s \in OwnSensor, SubHalIndexIsClear(s.own), NEW d \in BOOLEAN
  PROVE  /\ ProxySensor(s, i, d) \in ProxySensors
         /\ ProxySensor(s, i, d).hal = halList[i]
         /\ ProxySensor(s, i, d).handle = SetSubHalIndex(s.own, i - 1)
         /\ ProxySensor(s, i, d).own = s.own
         /\ ProxySensor(s, i, d).direct = d
         /\ Homed(ProxySensor(s, i, d).handle, halList[i], s.own)
<1>1. i - 1 \in 0..127 /\ halList[i] \in Libs
  BY FewHals
<1>2. s.own \in Int
  BY DEF OwnSensor
<1>3. SetSubHalIndex(s.own, i - 1) \in Int32
  BY <1>1, <1>2, HandleFits
<1>. QED
  BY <1>1, <1>2, <1>3 DEF ProxySensor, ProxySensors, OwnSensor, Homed

-----------------------------------------------------------------------------
(* Initial states.                                                         *)

LEMMA InitIInv ==
  ASSUME RoutingAssumption, Init
  PROVE  IInv
<1>1. TypeOK
  BY DEF Init, TypeOK, RoutingAssumption, Nothing, Modes
<1>2. Progress
  BY DEF Init, Progress, RoutingAssumption
<1>. QED
  BY <1>1, <1>2 DEF Init, IInv, SensorsHome, DynamicsHome, KnownHome, AllHomed, EventHome, HalsOK,
               Channel, Nothing

-----------------------------------------------------------------------------
(* The constructor.                                                        *)

LEMMA LoadLibraryStep ==
  ASSUME RoutingAssumption, IInv, last = Nothing, LoadLibrary
  PROVE  IInv'
<1>. DEFINE lib == config[next]
<1>1. next \in 1..Len(config) /\ lib \in Libs /\ sensors = {} /\ known = {} /\ session = 0
  BY DEF LoadLibrary, IInv, TypeOK, Progress, RoutingAssumption
<1>2. /\ halList' = halList \/ halList' = Append(halList, lib)
      /\ halList' \in Seq(Libs)
      /\ Len(halList') <= next
      /\ \A i \in DOMAIN halList' :
             (i \in DOMAIN halList /\ halList'[i] = halList[i]) \/ (i = Len(halList) + 1 /\ halList'[i] = lib)
  <2>1. halList \in Seq(Libs) /\ Len(halList) <= next - 1
    BY DEF LoadLibrary, IInv, TypeOK, Progress
  <2>2. halList' = halList \/ halList' = Append(halList, lib)
    BY DEF LoadLibrary
  <2>3. Len(halList) \in Nat /\ DOMAIN halList = 1..Len(halList)
    BY <2>1, LenProperties
  <2>4. /\ Append(halList, lib) \in Seq(Libs)
        /\ Len(Append(halList, lib)) = Len(halList) + 1
        /\ \A i \in 1..Len(halList) : Append(halList, lib)[i] = halList[i]
        /\ Append(halList, lib)[Len(halList) + 1] = lib
    BY <1>1, <2>1, AppendProperties
  <2>5. DOMAIN Append(halList, lib) = 1..(Len(halList) + 1)
    BY <2>4, LenProperties
  <2>6. \A i \in 1..(Len(halList) + 1) : i \in 1..Len(halList) \/ i = Len(halList) + 1
    BY <2>3
  <2>7. next \in Nat /\ Len(halList) + 1 <= next /\ Len(halList) <= next
    BY <1>1, <2>1, <2>3
  <2>8. halList' \in Seq(Libs)
    BY <2>1, <2>2, <2>4
  <2>9. Len(halList') <= next
    BY <2>2, <2>4, <2>7
  <2>10. \A i \in DOMAIN halList' :
             (i \in DOMAIN halList /\ halList'[i] = halList[i]) \/ (i = Len(halList) + 1 /\ halList'[i] = lib)
    BY <2>2, <2>3, <2>4, <2>5, <2>6
  <2>. QED
    BY <2>2, <2>8, <2>9, <2>10
<1>3. \A i \in DOMAIN halList : halList[i] # lib
  <2>1. \A c, d \in 1..Len(config) : config[c] = config[d] => c = d
    <3>1. config \in Seq(Libs) /\ \A i, j \in DOMAIN config : config[i] = config[j] => i = j
      BY DEF IInv, TypeOK, RoutingAssumption
    <3>. QED
      BY <3>1
  <2>2. \A i \in DOMAIN halList : \E c \in 1..(next - 1) : halList[i] = config[c]
    BY DEF LoadLibrary, IInv, Progress
  <2>. QED
    BY <1>1, <2>1, <2>2
<1>4. \A i, j \in DOMAIN halList' : halList'[i] = halList'[j] => i = j
  <2>1. \A i, j \in DOMAIN halList : halList[i] = halList[j] => i = j
    BY DEF IInv, Progress
  <2>. QED
    BY <1>2, <1>3, <2>1
<1>5. \A i \in DOMAIN halList' : \E c \in 1..(next' - 1) : halList'[i] = config'[c]
  <2>1. \A i \in DOMAIN halList : \E c \in 1..(next - 1) : halList[i] = config[c]
    BY DEF LoadLibrary, IInv, Progress
  <2>2. config' = config /\ next' - 1 = next /\ next \in 1..next /\ 1..(next - 1) \subseteq 1..next
    BY <1>1 DEF LoadLibrary
  <2>. QED
    BY <1>2, <2>1, <2>2
<1>6. TypeOK'
  BY <1>1, <1>2 DEF LoadLibrary, IInv, TypeOK, modes, dynamics
<1>7. Progress'
  BY <1>1, <1>2, <1>4, <1>5 DEF LoadLibrary, IInv, TypeOK, Progress, modes, dynamics
<1>8. SensorsHome' /\ DynamicsHome' /\ KnownHome' /\ EventHome' /\ HalsOK' /\ Channel'
  BY <1>1 DEF LoadLibrary, IInv, Progress, SensorsHome, DynamicsHome, KnownHome, AllHomed, EventHome,
              HalsOK, Channel, Nothing, modes, dynamics
<1>. QED
  BY <1>6, <1>7, <1>8 DEF IInv

LEMMA LoadedAllStep ==
  ASSUME RoutingAssumption, IInv, last = Nothing, LoadedAll
  PROVE  IInv'
<1>1. sensors = {} /\ known = {} /\ session = 0
  BY DEF LoadedAll, IInv, Progress
<1>2. TypeOK' /\ Progress'
  BY <1>1 DEF LoadedAll, IInv, TypeOK, Progress, modes, dynamics
<1>3. SensorsHome' /\ DynamicsHome' /\ KnownHome' /\ EventHome' /\ HalsOK' /\ Channel'
  BY <1>1 DEF LoadedAll, IInv, Progress, SensorsHome, DynamicsHome, KnownHome, AllHomed, EventHome,
              HalsOK, Channel, Nothing, modes, dynamics
<1>. QED
  BY <1>2, <1>3 DEF IInv

LEMMA HandlesAreInts ==
  ASSUME NEW s \in ProxySensors
  PROVE  s.handle \in Int
BY Int32AreInts DEF ProxySensors

\* The sensors of one sub-HAL's list get handles above all earlier ones.
LEMMA LoadSensorsStep ==
  ASSUME RoutingAssumption, IInv, last = Nothing, LoadSensors
  PROVE  IInv'
<1>. DEFINE hal   == halList[next]
            infos == {s \in Listed[hal] : SubHalIndexIsClear(s.own)}
            owner == DirectOwner(infos, hal)
            Made(s) == ProxySensor(s, next, s.direct /\ owner = hal)
<1>1. /\ next \in DOMAIN halList /\ hal \in Libs /\ next - 1 \in 0..127
      /\ next \in 1..128 /\ phase = "lists" /\ known = {} /\ session = 0
  <2>1. next \in 1..Len(halList) /\ phase = "lists"
    BY FewHals DEF LoadSensors, IInv, TypeOK
  <2>2. next \in DOMAIN halList
    BY <2>1, FewHals DEF IInv
  <2>. QED
    BY <2>1, <2>2, FewHals DEF IInv, Progress
<1>2. \A s \in infos : s \in OwnSensor /\ SubHalIndexIsClear(s.own) /\ s.own \in Int
  BY <1>1 DEF RoutingAssumption, OwnSensor
<1>3. ASSUME NEW s \in infos
      PROVE  /\ Made(s) \in ProxySensors
             /\ Made(s).hal = hal
             /\ Made(s).handle = SetSubHalIndex(s.own, next - 1)
             /\ Made(s).own = s.own
             /\ Made(s).direct = (s.direct /\ owner = hal)
             /\ Homed(Made(s).handle, hal, s.own)
  <2>1. (s.direct /\ owner = hal) \in BOOLEAN
    OBVIOUS
  <2>2. TypeOK /\ Progress /\ s \in OwnSensor /\ SubHalIndexIsClear(s.own)
    BY <1>2 DEF IInv
  <2>. HIDE DEF owner, infos
  <2>3. \A d \in BOOLEAN :
          /\ ProxySensor(s, next, d) \in ProxySensors
          /\ ProxySensor(s, next, d).hal = hal
          /\ ProxySensor(s, next, d).handle = SetSubHalIndex(s.own, next - 1)
          /\ ProxySensor(s, next, d).own = s.own
          /\ ProxySensor(s, next, d).direct = d
          /\ Homed(ProxySensor(s, next, d).handle, hal, s.own)
    BY <1>1, <2>2, MadeHomed
  <2>. QED
    BY <2>1, <2>3
<1>4. sensors' = sensors \cup {Made(s) : s \in infos} /\ channelHal' = owner
  BY DEF LoadSensors
<1>5. owner \in Libs \cup {None} /\ (channelHal # None => owner = channelHal)
  BY <1>1 DEF DirectOwner, IInv, TypeOK
<1>. HIDE DEF Made, owner
<1>6. /\ (next - 1) * IndexUnit \in Int /\ next * IndexUnit \in Int
      /\ (next - 1) * IndexUnit <= next * IndexUnit
      /\ \A s \in infos : /\ Made(s).handle >= (next - 1) * IndexUnit
                         /\ Made(s).handle < next * IndexUnit
  <2>1. next \in 1..128
    BY <1>1
  <2>2. ASSUME NEW s \in infos
        PROVE  /\ SetSubHalIndex(s.own, next - 1) >= (next - 1) * IndexUnit
               /\ SetSubHalIndex(s.own, next - 1) < next * IndexUnit
    <3>1. s.own \in Int /\ SubHalIndexIsClear(s.own)
      BY <1>2
    <3>. QED
      BY <2>1, <3>1, HandleRange
  <2>3. \A s \in infos : /\ Made(s).handle >= (next - 1) * IndexUnit
                        /\ Made(s).handle < next * IndexUnit
    BY <1>3, <2>2
  <2>. QED
    BY <2>1, <2>3, UnitsGrow
<1>7. \A s, t \in infos : Made(s).handle = Made(t).handle => Made(s) = Made(t)
  <2>1. ASSUME NEW s \in infos, NEW t \in infos, Made(s).handle = Made(t).handle
        PROVE  s.own = t.own
    <3>1. SetSubHalIndex(s.own, next - 1) = SetSubHalIndex(t.own, next - 1)
      BY <1>3, <2>1
    <3>2. s.own \in Int /\ SubHalIndexIsClear(s.own) /\ t.own \in Int /\ SubHalIndexIsClear(t.own)
      BY <1>2
    <3>3. next \in 1..128
      BY <1>1
    <3>. QED
      BY <3>1, <3>2, <3>3, HandlesDiffer
  <2>2. \A s, t \in infos : s.own = t.own => s = t
    BY <1>1 DEF RoutingAssumption
  <2>. QED
    BY <2>1, <2>2
<1>. HIDE DEF infos
<1>8. \A s \in sensors : s.handle \in Int /\ s.handle < (next - 1) * IndexUnit /\ s.hal # None
  BY <1>1, HandlesAreInts DEF IInv, TypeOK, SensorsHome
<1>9. \A s, t \in sensors' : s.handle = t.handle => s = t
  <2>1. \A s \in infos : Made(s).handle \in Int
    BY <1>3, HandlesAreInts
  <2>2. \A s \in sensors, t \in infos : s.handle # Made(t).handle
    BY <1>6, <1>8, <2>1, SMT
  <2>. QED
    BY <1>4, <1>7, <2>2 DEF IInv, TypeOK
<1>10. TypeOK'
  <2>1. sensors' \subseteq ProxySensors
    BY <1>3, <1>4 DEF IInv, TypeOK
  <2>2. channelHal' \in Libs \cup {None} /\ next' \in Nat \ {0}
    BY <1>1, <1>4, <1>5 DEF LoadSensors, IInv, TypeOK
  <2>3. UNCHANGED <<config, phase, front, halList, enabled, known, session, last, modes, dynamics>>
    BY DEF LoadSensors
  <2>. QED
    BY <1>9, <2>1, <2>2, <2>3 DEF IInv, TypeOK, modes, dynamics
<1>11. Progress'
  BY <1>1 DEF LoadSensors, IInv, Progress, modes, dynamics
<1>12. SensorsHome'
  <2>1. \A s \in sensors' : s.hal # None
    BY <1>1, <1>3, <1>4, <1>8 DEF RoutingAssumption
  <2>2. \A s \in sensors' : Homed(s.handle, s.hal, s.own)
    BY <1>3, <1>4, <1>8 DEF IInv, SensorsHome
  <2>3. \A s \in sensors' : s.handle < (next' - 1) * IndexUnit
    <3>1. \A s \in sensors' : s.handle \in Int
      BY <1>3, <1>4, <1>8, HandlesAreInts
    <3>2. \A s \in sensors' : s.handle < next * IndexUnit
      BY <1>4, <1>6, <1>8, <3>1, SMT
    <3>3. next' - 1 = next
      BY <1>1 DEF LoadSensors
    <3>. QED
      BY <3>2, <3>3
  <2>. QED
    BY <2>1, <2>2, <2>3 DEF LoadSensors, SensorsHome, Homed
<1>13. DynamicsHome' /\ KnownHome' /\ EventHome' /\ HalsOK'
  BY <1>1 DEF LoadSensors, IInv, Progress, DynamicsHome, KnownHome, AllHomed, Homed, EventHome, HalsOK,
              Nothing, dynamics
<1>14. Channel'
  <2>1. \A s \in sensors : s.direct => s.hal = owner
    BY <1>5, <1>8 DEF IInv, Channel
  <2>2. \A s \in infos : Made(s).direct => Made(s).hal = owner
    BY <1>3
  <2>3. \A s \in sensors' : s.direct => s.hal = channelHal'
    BY <1>4, <2>1, <2>2
  <2>4. last' = Nothing
    BY DEF LoadSensors
  <2>. QED
    BY <2>3, <2>4 DEF Channel, Nothing
<1>. QED
  BY <1>10, <1>11, <1>12, <1>13, <1>14 DEF IInv

LEMMA ConstructedStep ==
  ASSUME IInv, last = Nothing, Constructed
  PROVE  IInv'
BY DEF Constructed, IInv, TypeOK, Progress, SensorsHome, DynamicsHome, KnownHome, AllHomed, Homed,
       EventHome, HalsOK, Channel, Nothing, modes, dynamics

-----------------------------------------------------------------------------
(* Calls of the framework.                                                 *)

\* The sub-HAL a valid handle leads to is a loaded one.
LEMMA ValidLoaded ==
  ASSUME RoutingAssumption, IInv, NEW handle \in Int, IsSubHalIndexValid(handle)
  PROVE  GetSubHalForSensorHandle(handle) \in Libs
<1>1. Len(halList) \in Nat /\ DOMAIN halList = 1..Len(halList) /\ \A i \in DOMAIN halList : halList[i] \in Libs
  BY FewHals DEF IInv
<1>2. ExtractSubHalIndex(handle) + 1 \in 1..Len(halList)
  BY <1>1 DEF IsSubHalIndexValid
<1>. QED
  BY <1>1, <1>2 DEF GetSubHalForSensorHandle

LEMMA GivenAreInts ==
  ASSUME RoutingAssumption, IInv
  PROVE  Given \subseteq Int
<1>1. Handles \subseteq Int
  BY DEF RoutingAssumption
<1>2. \A k \in known : k.handle \in Int
  BY Int32AreInts DEF IInv, TypeOK, KnownSensors
<1>3. HandlesOf(known) \subseteq Int
  BY <1>2 DEF HandlesOf
<1>. QED
  BY <1>1, <1>3 DEF Given

\* A step after which only what last says, which sensors are enabled, and the modes
\* have changed.
LEMMA QuietStep ==
  ASSUME IInv,
         UNCHANGED <<sensors, channelHal, known, session, built, dynamics>>,
         mode' \in Modes, halMode' \in [Libs -> Modes], strayed' \subseteq Libs,
         enabled' \subseteq Libs \X Int, \A e \in enabled' : SubHalIndexIsClear(e[2]),
         session = 0 => enabled' = {},
         EventHome', Channel'
  PROVE  IInv'
<1>1. TypeOK'
  BY DEF IInv, TypeOK, built, dynamics
<1>2. Progress'
  BY DEF IInv, Progress, built, dynamics
<1>3. SensorsHome' /\ DynamicsHome' /\ KnownHome' /\ HalsOK'
  BY DEF IInv, SensorsHome, DynamicsHome, KnownHome, AllHomed, Homed, HalsOK, built, dynamics
<1>. QED
  BY <1>1, <1>2, <1>3 DEF IInv

\* An event is still there, or there is none.
LEMMA EventOver ==
  ASSUME EventHome, halList' = halList, last' = last \/ last'.op # "event"
  PROVE  EventHome'
BY DEF EventHome, Homed

\* What the framework is told of entries with proper handles.
LEMMA FactsTyped ==
  ASSUME RoutingAssumption, NEW infos \in SUBSET ProxySensors,
         \A s \in infos : s.hal # None => Homed(s.handle, s.hal, s.own)
  PROVE  /\ Facts(infos) \subseteq KnownSensors
         /\ \A k \in Facts(infos) : k.hal # None => Homed(k.handle, k.hal, k.own)
<1>1. 0 \in Int32
  BY Int32AreInts
<1>2. \A s \in infos : s.handle \in Int32 /\ s.hal \in Libs \cup {None} /\ s.own \in Int
  BY DEF ProxySensors
<1>. QED
  BY <1>1, <1>2 DEF Facts, KnownSensors

LEMMA GetSensorsListStep ==
  ASSUME RoutingAssumption, IInv, GetSensorsList
  PROVE  IInv'
<1>. DEFINE told == {s \in sensors : front = "V2_0" => s.type # "HINGE_ANGLE"}
<1>1. known' = known \cup Facts(told)
  BY DEF GetSensorsList
<1>2. told \subseteq ProxySensors /\ \A s \in told : s.hal # None => Homed(s.handle, s.hal, s.own)
  BY DEF IInv, TypeOK, SensorsHome
<1>. HIDE DEF told
<1>3. /\ Facts(told) \subseteq KnownSensors
      /\ \A k \in Facts(told) : k.hal # None => Homed(k.handle, k.hal, k.own)
  BY <1>2, FactsTyped
<1>4. TypeOK'
  BY <1>1, <1>3 DEF GetSensorsList, IInv, TypeOK, built, modes, dynamics
<1>5. Progress'
  BY DEF GetSensorsList, IInv, Progress, built, dynamics
<1>6. KnownHome'
  BY <1>1, <1>3 DEF GetSensorsList, IInv, KnownHome, Homed, built
<1>7. SensorsHome' /\ DynamicsHome' /\ HalsOK' /\ Channel'
  BY DEF GetSensorsList, IInv, SensorsHome, DynamicsHome, AllHomed, Homed, HalsOK, Channel, built, dynamics
<1>8. EventHome'
  BY EventOver DEF GetSensorsList, IInv, built
<1>. QED
  BY <1>4, <1>5, <1>6, <1>7, <1>8 DEF IInv

LEMMA ActivateStep ==
  ASSUME RoutingAssumption, IInv, NEW h \in Given, NEW on \in BOOLEAN, Activate(h, on)
  PROVE  IInv'
<1>. DEFINE call   == Routed("activate", h)
            sensor == IF call.hal # None /\ Has(call.hal, call.own) THEN {<<call.hal, call.own>>} ELSE {}
<1>1. h \in Int
  BY GivenAreInts
<1>2. /\ call.hal \in Libs \cup {None} /\ call.own \in Int
      /\ SubHalIndexIsClear(call.own) /\ call.op = "activate"
  BY <1>1, ValidLoaded, ClearedIsClear DEF Routed
<1>3. session > 0 /\ last' = call /\ (enabled' = enabled \cup sensor \/ enabled' = enabled \ sensor)
  BY DEF Activate, Callable
<1>. HIDE DEF call
<1>4. enabled' \subseteq Libs \X Int /\ \A e \in enabled' : SubHalIndexIsClear(e[2])
  BY <1>2, <1>3 DEF IInv, TypeOK, HalsOK
<1>5. Channel'
  BY <1>2, <1>3 DEF Activate, IInv, Channel
<1>6. session # 0
  BY <1>3 DEF IInv, TypeOK
<1>7. EventHome'
  BY <1>2, <1>3 DEF EventHome
<1>. QED
  BY <1>4, <1>5, <1>6, <1>7, QuietStep DEF Activate, modes, IInv, TypeOK

\* The calls that change nothing but what last says.
LEMMA CallStep ==
  ASSUME IInv,
         UNCHANGED <<sensors, channelHal, enabled, known, session, built, modes, dynamics>>,
         last'.op \notin {"direct", "event"}
  PROVE  IInv'
<1>1. Channel' /\ EventHome'
  BY DEF IInv, Channel, EventHome
<1>2. session = 0 => enabled = {}
  BY DEF IInv, Progress
<1>. QED
  BY <1>1, <1>2, QuietStep DEF modes, IInv, TypeOK, HalsOK

LEMMA BatchOrFlushStep ==
  ASSUME IInv, NEW op \in {"batch", "flush"}, NEW h, BatchOrFlush(op, h)
  PROVE  IInv'
<1>1. last'.op \notin {"direct", "event"}
  BY DEF BatchOrFlush, Routed
<1>. QED
  BY <1>1, CallStep DEF BatchOrFlush

LEMMA InjectStep ==
  ASSUME IInv, NEW h, NEW type, NEW payload, NEW back, Inject(h, type, payload, back)
  PROVE  IInv'
<1>1. last'.op \in {"inject", "aborted"}
  BY DEF Inject, Aborted
<1>. QED
  BY <1>1, CallStep DEF Inject

LEMMA InjectBackStep ==
  ASSUME IInv, InjectBack
  PROVE  IInv'
BY InjectStep DEF InjectBack

LEMMA SetOperationModeStep ==
  ASSUME RoutingAssumption, IInv, NEW m \in Modes, NEW agrees, NEW goesBack,
         SetOperationMode(m, agrees, goesBack)
  PROVE  IInv'
<1>1. Loaded \subseteq Libs /\ Flipped(agrees) \subseteq Libs
  BY FewHals DEF IInv, Loaded, Flipped
<1>2. mode' \in Modes /\ halMode' \in [Libs -> Modes] /\ strayed' \subseteq Libs
  <2>1. mode \in Modes /\ strayed \subseteq Libs /\ \A l \in Libs : halMode[l] \in Modes
    BY DEF IInv, TypeOK
  <2>2. CASE Flipped(agrees) = Loaded
    BY <1>1, <2>1, <2>2 DEF SetOperationMode
  <2>3. CASE Flipped(agrees) # Loaded
    BY <1>1, <2>1, <2>3 DEF SetOperationMode
  <2>. QED
    BY <2>2, <2>3
<1>3. Channel'
  BY DEF SetOperationMode, IInv, Channel
<1>4. session = 0 => enabled = {}
  BY DEF IInv, Progress
<1>5. EventHome'
  BY EventOver DEF SetOperationMode, IInv, built
<1>. QED
  BY <1>2, <1>3, <1>4, <1>5, QuietStep DEF SetOperationMode, IInv, TypeOK, HalsOK

LEMMA ConfigDirectReportStep ==
  ASSUME IInv, NEW h, NEW stop, ConfigDirectReport(h, stop)
  PROVE  IInv'
<1>1. \/ last'.hal = None
      \/ /\ last'.hal = channelHal
         /\ last'.handle = -1 \/ last'.own = ClearSubHalIndex(last'.handle)
  BY DEF ConfigDirectReport
<1>2. Channel'
  BY <1>1 DEF ConfigDirectReport, IInv, Channel
<1>3. session = 0 => enabled = {}
  BY DEF IInv, Progress
<1>4. EventHome'
  BY DEF ConfigDirectReport, EventHome
<1>. QED
  BY <1>2, <1>3, <1>4, QuietStep DEF ConfigDirectReport, modes, IInv, TypeOK, HalsOK

LEMMA ReturnStep ==
  ASSUME IInv, Return
  PROVE  IInv'
<1>1. last'.op \notin {"direct", "event"}
  BY DEF Return, Nothing
<1>. QED
  BY <1>1, CallStep DEF Return

-----------------------------------------------------------------------------
(* The steps of initialize.                                                *)

LEMMA UnderwayInts ==
  ASSUME IInv
  PROVE  Underway \subseteq Int32 /\ HandlesOf(view) \subseteq Int32 /\ HandlesOf(dynamic) \subseteq Int32
<1>1. \A s \in ProxySensors : s.handle \in Int32
  BY DEF ProxySensors
<1>2. \A t \in Callers : report[t] # Nothing => report[t].infos \subseteq ProxySensors
  BY DEF IInv, TypeOK, Reports
<1>3. ASSUME NEW t \in {c \in Callers : report[c] # Nothing}
      PROVE  HandlesOf(report[t].infos) \subseteq Int32
  <2>1. report[t].infos \subseteq ProxySensors
    BY <1>2
  <2>. QED
    BY <1>1, <2>1 DEF HandlesOf
<1>4. view \subseteq ProxySensors /\ dynamic \subseteq ProxySensors
  BY DEF IInv, TypeOK
<1>5. Underway \subseteq Int32
  BY <1>3 DEF Underway
<1>. QED
  BY <1>1, <1>4, <1>5 DEF HandlesOf

LEMMA InitDisableStep ==
  ASSUME IInv, InitDisable
  PROVE  IInv'
<1>1. session' = session + 1 /\ session \in Nat /\ enabled' \subseteq enabled
  BY DEF InitDisable, IInv, TypeOK
<1>2. TypeOK'
  BY <1>1 DEF InitDisable, IInv, TypeOK, modes, dynamics
<1>3. Progress'
  BY <1>1 DEF InitDisable, IInv, Progress, dynamics
<1>4. SensorsHome' /\ DynamicsHome' /\ KnownHome' /\ HalsOK' /\ Channel'
  BY <1>1 DEF InitDisable, IInv, SensorsHome, DynamicsHome, KnownHome, AllHomed, Homed, HalsOK, Channel,
              dynamics
<1>5. EventHome'
  BY EventOver DEF InitDisable, IInv
<1>. QED
  BY <1>2, <1>3, <1>4, <1>5 DEF IInv

LEMMA InitClearStep ==
  ASSUME IInv, InitClear
  PROVE  IInv'
<1>1. dynamic' = {} /\ crossed' \subseteq Int32
  BY UnderwayInts DEF InitClear
<1>2. TypeOK'
  BY <1>1 DEF InitClear, IInv, TypeOK, modes
<1>3. Progress'
  BY <1>1 DEF InitClear, IInv, Progress
<1>4. SensorsHome' /\ DynamicsHome' /\ KnownHome' /\ HalsOK' /\ Channel'
  BY <1>1 DEF InitClear, IInv, SensorsHome, DynamicsHome, KnownHome, AllHomed, Homed, HalsOK, Channel
<1>5. EventHome'
  BY EventOver DEF InitClear, IInv
<1>. QED
  BY <1>2, <1>3, <1>4, <1>5 DEF IInv

LEMMA InitCallbackStep ==
  ASSUME IInv, InitCallback
  PROVE  IInv'
<1>1. view' = {} /\ crossed' \subseteq Int32 /\ next' = 1
  BY UnderwayInts DEF InitCallback
<1>2. TypeOK'
  BY <1>1 DEF InitCallback, IInv, TypeOK, modes
<1>3. Progress'
  BY <1>1 DEF InitCallback, IInv, Progress
<1>4. SensorsHome' /\ DynamicsHome' /\ KnownHome' /\ HalsOK' /\ Channel'
  BY <1>1 DEF InitCallback, IInv, SensorsHome, DynamicsHome, KnownHome, AllHomed, Homed, HalsOK, Channel
<1>5. EventHome'
  BY EventOver DEF InitCallback, IInv
<1>. QED
  BY <1>2, <1>3, <1>4, <1>5 DEF IInv

LEMMA InitSubHalStep ==
  ASSUME RoutingAssumption, IInv, NEW fails \in BOOLEAN, InitSubHal(fails)
  PROVE  IInv'
<1>1. halList[next] \in Libs /\ next' \in Nat \ {0}
  <2>1. next \in DOMAIN halList /\ next' = next + 1
    BY FewHals DEF InitSubHal, IInv, TypeOK
  <2>. QED
    BY <2>1, FewHals DEF IInv, TypeOK
<1>2. /\ plugged' \in [Libs -> SUBSET OwnSensor] /\ \A h \in Libs : plugged'[h] \subseteq Pluggable[h]
      /\ halMode' \in [Libs -> Modes] /\ strayed' \subseteq Libs
  BY <1>1 DEF InitSubHal, IInv, TypeOK, HalsOK, Modes
<1>3. TypeOK'
  BY <1>1, <1>2 DEF InitSubHal, IInv, TypeOK
<1>4. Progress'
  BY DEF InitSubHal, IInv, Progress
<1>5. SensorsHome' /\ DynamicsHome' /\ KnownHome' /\ HalsOK' /\ Channel'
  BY <1>2 DEF InitSubHal, IInv, SensorsHome, DynamicsHome, KnownHome, AllHomed, Homed, HalsOK, Channel
<1>6. EventHome'
  BY EventOver DEF InitSubHal, IInv
<1>. QED
  BY <1>3, <1>4, <1>5, <1>6 DEF IInv

LEMMA InitReturnsStep ==
  ASSUME IInv, InitReturns
  PROVE  IInv'
<1>1. mode' \in Modes
  BY DEF InitReturns, Modes
<1>2. TypeOK'
  BY <1>1 DEF InitReturns, IInv, TypeOK, dynamics
<1>3. Progress'
  BY DEF InitReturns, IInv, Progress, dynamics
<1>4. SensorsHome' /\ DynamicsHome' /\ KnownHome' /\ HalsOK' /\ Channel'
  BY DEF InitReturns, IInv, SensorsHome, DynamicsHome, KnownHome, AllHomed, Homed, HalsOK, Channel, dynamics
<1>5. EventHome'
  BY EventOver DEF InitReturns, IInv
<1>. QED
  BY <1>2, <1>3, <1>4, <1>5 DEF IInv

-----------------------------------------------------------------------------
(* Callbacks of the sub-HALs.                                              *)

LEMMA IndexOf ==
  ASSUME RoutingAssumption, IInv, NEW hal, Started(hal)
  PROVE  /\ Index(hal) \in DOMAIN halList /\ halList[Index(hal)] = hal
         /\ Index(hal) \in 1..128 /\ session # 0
<1>1. session # 0 /\ \E i \in DOMAIN halList : halList[i] = hal
  BY DEF Started, IInv, TypeOK
<1>2. Index(hal) \in DOMAIN halList /\ halList[Index(hal)] = hal
  BY <1>1 DEF Index
<1>3. \A i \in DOMAIN halList : i \in 1..128
  BY FewHals DEF IInv
<1>. QED
  BY <1>1, <1>2, <1>3

LEMMA ReportsAreTyped ==
  ASSUME IInv, NEW t \in Callers, report[t] # Nothing
  PROVE  report[t].op \in {"connected", "disconnected"} /\ report[t].infos \subseteq ProxySensors
BY DEF IInv, TypeOK, Reports

LEMMA ConnectedStep ==
  ASSUME RoutingAssumption, IInv, NEW hal \in Libs, NEW t \in Callers,
         NEW added \in SUBSET (Pluggable[hal] \ plugged[hal]),
         OnDynamicSensorsConnected(t, hal, added)
  PROVE  IInv'
<1>. DEFINE clear   == {a \in added : SubHalIndexIsClear(a.own)}
            Made(s) == ProxySensor(s, Index(hal), s.direct)
            infos   == {Made(s) : s \in clear}
            rest    == {d \in dynamic : d.handle \notin HandlesOf(infos)}
<1>1. /\ Index(hal) \in DOMAIN halList /\ halList[Index(hal)] = hal
      /\ Index(hal) \in 1..128 /\ session # 0
  BY IndexOf DEF OnDynamicSensorsConnected
<1>2. \A s \in clear : s \in OwnSensor /\ s.own \in Int /\ s.direct \in BOOLEAN /\ SubHalIndexIsClear(s.own)
  BY DEF RoutingAssumption, OwnSensor
<1>3. ASSUME NEW s \in clear
      PROVE  /\ Made(s) \in ProxySensors
             /\ Made(s).handle = SetSubHalIndex(s.own, Index(hal) - 1)
             /\ Homed(Made(s).handle, Made(s).hal, Made(s).own)
  <2>1. TypeOK /\ Progress /\ s \in OwnSensor /\ s.direct \in BOOLEAN /\ SubHalIndexIsClear(s.own)
    BY <1>2 DEF IInv
  <2>. QED
    BY <1>1, <2>1, MadeHomed
<1>4. /\ plugged' = [plugged EXCEPT ![hal] = @ \cup added]
      /\ dynamic' = rest \cup infos
      /\ report' = [report EXCEPT ![t] = [op |-> "connected", infos |-> infos]]
      /\ crossed' \subseteq crossed \cup Underway
      /\ UNCHANGED <<sensors, channelHal, enabled, view, known, session, last, built, modes>>
  BY DEF OnDynamicSensorsConnected
<1>5. \A s, u \in clear : Made(s).handle = Made(u).handle => s = u
  <2>1. ASSUME NEW s \in clear, NEW u \in clear, Made(s).handle = Made(u).handle
        PROVE  s.own = u.own
    <3>1. SetSubHalIndex(s.own, Index(hal) - 1) = SetSubHalIndex(u.own, Index(hal) - 1)
      BY <1>3, <2>1
    <3>2. s.own \in Int /\ SubHalIndexIsClear(s.own) /\ u.own \in Int /\ SubHalIndexIsClear(u.own)
      BY <1>2
    <3>. QED
      BY <1>1, <3>1, <3>2, HandlesDiffer
  <2>2. \A s, u \in clear : s.own = u.own => s = u
    BY DEF RoutingAssumption
  <2>. QED
    BY <2>1, <2>2
<1>. HIDE DEF Made, clear
<1>6. infos \subseteq ProxySensors /\ AllHomed(infos) /\ \A s, u \in infos : s.handle = u.handle => s = u
  BY <1>3, <1>5 DEF AllHomed
<1>7. rest \subseteq dynamic /\ \A d \in rest, s \in infos : d.handle # s.handle
  BY DEF HandlesOf
<1>. HIDE DEF infos, rest
<1>8. \A s, u \in dynamic' : s.handle = u.handle => s = u
  <2>1. \A s, u \in rest : s.handle = u.handle => s = u
    BY <1>7 DEF IInv, TypeOK
  <2>. QED
    BY <1>4, <1>6, <1>7, <2>1
<1>9. /\ report' \in [Callers -> {Nothing} \cup Reports] /\ dynamic' \subseteq ProxySensors
      /\ crossed' \subseteq Int32
      /\ plugged' \in [Libs -> SUBSET OwnSensor] /\ \A h \in Libs : plugged'[h] \subseteq Pluggable[h]
  <2>1. [op |-> "connected", infos |-> infos] \in Reports
    BY <1>6 DEF Reports
  <2>2. added \subseteq Pluggable[hal] /\ added \subseteq OwnSensor
    BY DEF RoutingAssumption
  <2>3. \A h \in Libs : plugged[h] \subseteq Pluggable[h]
    BY DEF IInv, HalsOK
  <2>4. crossed' \subseteq Int32
    BY <1>4, UnderwayInts DEF IInv, TypeOK
  <2>. QED
    BY <1>4, <1>6, <1>7, <2>1, <2>2, <2>3, <2>4 DEF IInv, TypeOK
<1>10. TypeOK'
  BY <1>4, <1>8, <1>9 DEF IInv, TypeOK, built, modes
<1>11. Progress'
  BY <1>1, <1>4 DEF IInv, Progress, built
<1>12. DynamicsHome'
  <2>1. AllHomed(dynamic')
    BY <1>4, <1>6, <1>7 DEF IInv, DynamicsHome, AllHomed
  <2>2. \A u \in Callers : report'[u] # Nothing => AllHomed(report'[u].infos)
    BY <1>4, <1>6 DEF IInv, TypeOK, DynamicsHome
  <2>. QED
    BY <1>4, <2>1, <2>2 DEF DynamicsHome, AllHomed, Homed, built
<1>13. SensorsHome' /\ KnownHome' /\ HalsOK' /\ Channel'
  BY <1>4, <1>9 DEF IInv, SensorsHome, KnownHome, Homed, HalsOK, Channel, built
<1>14. EventHome'
  BY <1>4, EventOver DEF IInv, built
<1>. QED
  BY <1>10, <1>11, <1>12, <1>13, <1>14 DEF IInv

LEMMA DisconnectedStep ==
  ASSUME RoutingAssumption, IInv, NEW hal \in Libs, NEW t \in Callers,
         NEW removed \in SUBSET plugged[hal], OnDynamicSensorsDisconnected(t, hal, removed)
  PROVE  IInv'
<1>1. session # 0
  BY IndexOf DEF OnDynamicSensorsDisconnected
<1>. DEFINE handles == {SetSubHalIndex(s.own, Index(hal) - 1) : s \in {r \in removed : SubHalIndexIsClear(r.own)}}
            infos   == {d \in dynamic : d.handle \in handles}
<1>2. infos \subseteq ProxySensors /\ AllHomed(infos)
  BY DEF IInv, TypeOK, DynamicsHome, AllHomed
<1>3. /\ plugged' = [plugged EXCEPT ![hal] = @ \ removed]
      /\ enabled' \subseteq enabled
      /\ dynamic' = dynamic \ infos
      /\ report' = [report EXCEPT ![t] = [op |-> "disconnected", infos |-> infos]]
      /\ crossed' \subseteq crossed \cup Underway
      /\ UNCHANGED <<sensors, channelHal, view, known, session, last, built, modes>>
  BY DEF OnDynamicSensorsDisconnected
<1>. HIDE DEF infos
<1>4. /\ report' \in [Callers -> {Nothing} \cup Reports] /\ crossed' \subseteq Int32
      /\ plugged' \in [Libs -> SUBSET OwnSensor] /\ \A h \in Libs : plugged'[h] \subseteq Pluggable[h]
  <2>1. [op |-> "disconnected", infos |-> infos] \in Reports
    BY <1>2 DEF Reports
  <2>2. crossed' \subseteq Int32
    BY <1>3, UnderwayInts DEF IInv, TypeOK
  <2>. QED
    BY <1>3, <2>1, <2>2 DEF IInv, TypeOK, HalsOK
<1>5. TypeOK'
  BY <1>4, <1>3 DEF IInv, TypeOK, built, modes
<1>6. Progress'
  BY <1>1, <1>3 DEF IInv, Progress, built
<1>7. DynamicsHome'
  <2>1. \A u \in Callers : report'[u] # Nothing => AllHomed(report'[u].infos)
    BY <1>2, <1>3 DEF IInv, TypeOK, DynamicsHome
  <2>. QED
    BY <1>3, <2>1 DEF IInv, DynamicsHome, AllHomed, Homed, built
<1>8. SensorsHome' /\ KnownHome' /\ HalsOK' /\ Channel'
  BY <1>4, <1>3 DEF IInv, SensorsHome, KnownHome, Homed, HalsOK, Channel, built
<1>9. EventHome'
  BY <1>3, EventOver DEF IInv, built
<1>. QED
  BY <1>5, <1>6, <1>7, <1>8, <1>9 DEF IInv

LEMMA ReportStep ==
  ASSUME RoutingAssumption, IInv, NEW t \in Callers, Report(t)
  PROVE  IInv'
<1>. DEFINE infos == report[t].infos
<1>1. infos \subseteq ProxySensors /\ AllHomed(infos)
  BY ReportsAreTyped DEF Report, IInv, DynamicsHome
<1>2. /\ report' = [report EXCEPT ![t] = Nothing]
      /\ view' \subseteq view \cup infos
      /\ known' = known \/ known' = known \cup Facts(infos)
      /\ UNCHANGED <<sensors, channelHal, enabled, dynamic, plugged, crossed, session, last, built, modes>>
  BY DEF Report
<1>3. session # 0
  BY DEF Report, IInv, Progress
<1>. HIDE DEF infos
<1>4. /\ Facts(infos) \subseteq KnownSensors
      /\ \A k \in Facts(infos) : k.hal # None => Homed(k.handle, k.hal, k.own)
  BY <1>1, FactsTyped DEF AllHomed
<1>5. known' \subseteq KnownSensors /\ \A k \in known' : k.hal # None => Homed(k.handle, k.hal, k.own)
  BY <1>2, <1>4 DEF IInv, TypeOK, KnownHome
<1>6. TypeOK'
  BY <1>1, <1>2, <1>5 DEF IInv, TypeOK, built, modes
<1>7. Progress'
  BY <1>2, <1>3 DEF IInv, TypeOK, Progress, built
<1>8. DynamicsHome'
  <2>1. \A u \in Callers : report'[u] # Nothing => AllHomed(report'[u].infos)
    BY <1>2 DEF IInv, TypeOK, DynamicsHome
  <2>. QED
    BY <1>2, <2>1 DEF IInv, DynamicsHome, AllHomed, Homed, built
<1>9. KnownHome'
  BY <1>2, <1>5 DEF KnownHome, Homed, built
<1>10. SensorsHome' /\ HalsOK' /\ Channel'
  BY <1>2 DEF IInv, SensorsHome, Homed, HalsOK, Channel, built
<1>11. EventHome'
  BY <1>2, EventOver DEF IInv, built
<1>. QED
  BY <1>6, <1>7, <1>8, <1>9, <1>10, <1>11 DEF IInv

\* An event names sensors of its sub-HAL by the handles the proxy made, when their own
\* are clear; the entry for a handle that is not found is nobody's.
LEMMA PostEventStep ==
  ASSUME RoutingAssumption, IInv, NEW hal \in Libs, NEW type,
         NEW s \in Listed[hal] \cup plugged[hal], NEW named \in Listed[hal] \cup plugged[hal],
         PostEvent(hal, s, type, named)
  PROVE  IInv'
<1>. DEFINE Handle(own) == SetSubHalIndex(own, Index(hal) - 1)
            handle == Handle(s.own)
            found  == {t \in sensors : t.handle = handle}
            info   == IF found = {} THEN EmptyEntry(handle) ELSE CHOOSE t \in found : TRUE
            owns   == IF type = "DYNAMIC_SENSOR_META" THEN {s.own, named.own} ELSE {s.own}
            told   == {[handle |-> Handle(own), own |-> own] : own \in owns}
<1>1. /\ Index(hal) \in DOMAIN halList /\ halList[Index(hal)] = hal
      /\ Index(hal) - 1 \in 0..127 /\ session # 0
  BY IndexOf, FewHals DEF PostEvent, IInv
<1>2. s.own \in Int /\ named.own \in Int
  BY DEF RoutingAssumption, OwnSensor, IInv, TypeOK
<1>3. \A own \in Int : Handle(own) \in Int32
  BY <1>1, HandleFits
<1>4. handle \in Int32 /\ EmptyEntry(handle) \in ProxySensors
  <2>1. handle \in Int32
    BY <1>2, <1>3
  <2>. HIDE DEF handle
  <2>. QED
    BY <2>1 DEF EmptyEntry, ProxySensors, Types, SensorTypes
<1>5. /\ sensors' = sensors \cup {info}
      /\ \/ last'.op = "aborted"
         \/ last'.op = "event" /\ last'.hal = hal /\ last'.handle = handle /\ last'.told = told
      /\ UNCHANGED <<channelHal, enabled, known, session, built, modes, dynamics>>
  BY DEF PostEvent, Aborted
<1>6. info \in ProxySensors
       /\ (info \in sensors \/ (info = EmptyEntry(handle) /\ \A t \in sensors : t.handle # handle))
  <2>1. CASE found = {}
    BY <1>4, <2>1
  <2>2. CASE found # {}
    <3>1. info \in found
      BY <2>2
    <3>2. found \subseteq sensors /\ sensors \subseteq ProxySensors
      BY DEF IInv, TypeOK
    <3>. QED
      BY <3>1, <3>2
  <2>. QED
    BY <2>1, <2>2
<1>7. ASSUME NEW t \in told
      PROVE  t.own \in Int /\ (SubHalIndexIsClear(t.own) => Homed(t.handle, hal, t.own))
  <2>1. t.own \in Int /\ t.handle = SetSubHalIndex(t.own, Index(hal) - 1)
    BY <1>2
  <2>. QED
    BY <1>1, <2>1 DEF Homed
<1>. HIDE DEF info, found, told, handle
<1>8. \A t, u \in sensors' : t.handle = u.handle => t = u
  BY <1>5, <1>6 DEF IInv, TypeOK, EmptyEntry
<1>9. phase \notin {"libraries", "lists"}
  BY <1>1 DEF IInv, Progress
<1>10. TypeOK'
  BY <1>5, <1>6, <1>8 DEF IInv, TypeOK, built, modes, dynamics
<1>11. Progress'
  BY <1>1, <1>5, <1>9 DEF IInv, Progress, built, dynamics
<1>12. SensorsHome'
  BY <1>5, <1>6, <1>9 DEF IInv, SensorsHome, Homed, EmptyEntry, built
<1>13. KnownHome' /\ DynamicsHome' /\ HalsOK'
  BY <1>5 DEF IInv, KnownHome, DynamicsHome, AllHomed, Homed, HalsOK, built, dynamics
<1>14. EventHome'
  BY <1>4, <1>5, <1>7 DEF EventHome, Homed, built
<1>15. Channel'
  BY <1>5, <1>6 DEF IInv, Channel, EmptyEntry
<1>. QED
  BY <1>10, <1>11, <1>12, <1>13, <1>14, <1>15 DEF IInv

-----------------------------------------------------------------------------
(* Theorems.                                                               *)

LEMMA NextIInv ==
  ASSUME RoutingAssumption, IInv, [Next]_vars
  PROVE  IInv'
<1>1. CASE UNCHANGED vars
  BY <1>1 DEF vars, IInv, TypeOK, Progress, SensorsHome, DynamicsHome, KnownHome, AllHomed, Homed,
              EventHome, HalsOK, Channel
<1>2. CASE Return
  BY <1>2, ReturnStep
<1>3. CASE InjectBack
  BY <1>3, InjectBackStep
<1>4. CASE Ended
  BY <1>1, <1>4 DEF Ended
<1>5. CASE last = Nothing /\ Construct
  BY <1>5, LoadLibraryStep, LoadedAllStep, LoadSensorsStep, ConstructedStep DEF Construct
<1>6. CASE Framework
  <2>1. CASE GetSensorsList
    BY <2>1, GetSensorsListStep
  <2>2. ASSUME NEW h \in Given, NEW on \in BOOLEAN, Activate(h, on)
        PROVE  IInv'
    BY <2>2, ActivateStep
  <2>3. ASSUME NEW h \in Given, NEW op \in {"batch", "flush"}, BatchOrFlush(op, h)
        PROVE  IInv'
    BY <2>3, BatchOrFlushStep
  <2>4. ASSUME NEW h \in Given, NEW e \in Injected, InjectMade(h, e)
        PROVE  IInv'
    BY <2>4, InjectStep DEF InjectMade
  <2>5. ASSUME NEW h \in Given, NEW stop \in BOOLEAN, ConfigDirectReport(h, stop)
        PROVE  IInv'
    BY <2>5, ConfigDirectReportStep
  <2>6. ASSUME NEW m \in Modes, NEW agrees \in [Loaded -> BOOLEAN], NEW goesBack \in [Loaded -> BOOLEAN],
               SetOperationMode(m, agrees, goesBack)
        PROVE  IInv'
    BY <2>6, SetOperationModeStep
  <2>. QED
    BY <1>6, <2>1, <2>2, <2>3, <2>4, <2>5, <2>6 DEF Framework
<1>7. CASE InitializeCommon
  BY <1>7, InitDisableStep, InitClearStep, InitCallbackStep, InitSubHalStep, InitReturnsStep
     DEF InitializeCommon
<1>8. ASSUME NEW hal \in Libs, SubHal(hal)
      PROVE  IInv'
  <2>1. ASSUME NEW t \in Callers, NEW added \in SUBSET (Pluggable[hal] \ plugged[hal]),
               OnDynamicSensorsConnected(t, hal, added)
        PROVE  IInv'
    BY <2>1, ConnectedStep
  <2>2. ASSUME NEW t \in Callers, NEW removed \in SUBSET plugged[hal],
               OnDynamicSensorsDisconnected(t, hal, removed)
        PROVE  IInv'
    BY <2>2, DisconnectedStep
  <2>3. ASSUME NEW s \in Listed[hal] \cup plugged[hal], NEW named \in Listed[hal] \cup plugged[hal],
               NEW type \in Types, PostEvent(hal, s, type, named)
        PROVE  IInv'
    BY <2>3, PostEventStep
  <2>. QED
    BY <1>8, <2>1, <2>2, <2>3 DEF SubHal
<1>9. ASSUME NEW t \in Callers, Report(t)
      PROVE  IInv'
  BY <1>9, ReportStep
<1>. QED
  BY <1>1, <1>2, <1>3, <1>4, <1>5, <1>6, <1>7, <1>8, <1>9 DEF Next

LEMMA Invariant == Spec => []IInv
<1>1. RoutingAssumption
  BY RoutingAssumption
<1>2. Init => IInv
  BY <1>1, InitIInv
<1>3. IInv /\ [Next]_vars => IInv'
  BY <1>1, NextIInv
<1>. QED
  BY <1>2, <1>3, PTL DEF Spec

\* For any libraries, configuration files and sensors with clear handles or not, the
\* proxy's variables keep their types: handles fit in 32 bits, those that setSubHalIndex
\* makes of a handle that has a first byte already as well, and no table has two entries
\* for one handle (initializeSensorList, onDynamicSensorsConnected, the operator[] of
\* getSensorInfo).
THEOREM TypeCorrect == Spec => []TypeOK
<1>1. IInv => TypeOK
  BY DEF IInv
<1>. QED
  BY <1>1, Invariant, PTL

\* What the invariant says of a handle is what the proxy does with it.
LEMMA HomedRoutes ==
  ASSUME RoutingAssumption, IInv, NEW handle, NEW hal, NEW own, Homed(handle, hal, own)
  PROVE  /\ IsSubHalIndexValid(handle)
         /\ GetSubHalForSensorHandle(handle) = hal
         /\ ClearSubHalIndex(handle) = own
<1>. PICK i \in DOMAIN halList :
       hal = halList[i] /\ own \in Int /\ SubHalIndexIsClear(own) /\ handle = SetSubHalIndex(own, i - 1)
  BY DEF Homed
<1>1. i \in 1..Len(halList) /\ i - 1 \in 0..127 /\ Len(halList) \in Nat
  <2>1. Len(halList) \in 0..128 /\ DOMAIN halList = 1..Len(halList)
    BY FewHals DEF IInv
  <2>2. i - 1 \in 0..127
    BY FewHals DEF IInv
  <2>. QED
    BY <2>1, <2>2
<1>2. ExtractSubHalIndex(handle) = i - 1 /\ ClearSubHalIndex(handle) = own
  <2>1. \A j \in 0..127 : /\ ExtractSubHalIndex(SetSubHalIndex(own, j)) = j
                         /\ ClearSubHalIndex(SetSubHalIndex(own, j)) = own
    BY HandleParts
  <2>. QED
    BY <1>1, <2>1
<1>3. i - 1 \in 0..(Len(halList) - 1) /\ i - 1 + 1 = i
  BY <1>1
<1>4. IsSubHalIndexValid(handle)
  BY <1>2, <1>3 DEF IsSubHalIndexValid
<1>5. GetSubHalForSensorHandle(handle) = halList[i]
  BY <1>2, <1>3 DEF GetSubHalForSensorHandle
<1>. QED
  BY <1>2, <1>4, <1>5

\* Every handle the framework was ever given with a sensor is routed to the sub-HAL it
\* came from, with that sub-HAL's own handle; so are the handles in an event, when the
\* sub-HAL gave clear ones, and the calls about the direct channel
\* (getSubHalForSensorHandle, clearSubHalIndex, processEvents, configDirectReport).
THEOREM EveryHandleRoutedHome == Spec => []RoutedHome
<1>1. RoutingAssumption
  BY RoutingAssumption
<1>2. ASSUME IInv
      PROVE  RoutedHome
  <2>1. ASSUME NEW k \in known, k.hal # None
        PROVE  Leads(k.handle, k.hal, k.own)
    <3>1. Homed(k.handle, k.hal, k.own)
      BY <1>2, <2>1 DEF IInv, KnownHome
    <3>. QED
      BY <1>1, <1>2, <3>1, HomedRoutes DEF Leads
  <2>2. ASSUME last.op = "event", NEW t \in last.told, SubHalIndexIsClear(t.own)
        PROVE  Leads(t.handle, last.hal, t.own)
    <3>1. Homed(t.handle, last.hal, t.own)
      BY <1>2, <2>2 DEF IInv, EventHome
    <3>. QED
      BY <1>1, <1>2, <3>1, HomedRoutes DEF Leads
  <2>3. ASSUME last.op = "direct", last.hal # None, NEW s \in sensors, s.direct, s.handle = last.handle
        PROVE  last.hal = s.hal /\ last.own = s.own
    <3>1. s.hal = channelHal /\ s.hal # None
      BY <1>2, <2>3 DEF IInv, SensorsHome, Channel
    <3>2. Homed(s.handle, s.hal, s.own)
      BY <1>2, <3>1 DEF IInv, SensorsHome
    <3>3. ClearSubHalIndex(s.handle) = s.own
      BY <1>1, <1>2, <3>2, HomedRoutes
    <3>4. s.handle # -1
      <4>1. PICK i \in DOMAIN halList :
              /\ s.hal = halList[i] /\ s.own \in Int /\ SubHalIndexIsClear(s.own)
              /\ s.handle = SetSubHalIndex(s.own, i - 1)
        BY <3>2 DEF Homed
      <4>2. i - 1 \in 0..127
        BY <1>1, <1>2, FewHals DEF IInv
      <4>3. \A j \in 0..127 : SetSubHalIndex(s.own, j) \in 0..MaxInt32
        BY <4>1, HandleParts
      <4>4. s.handle \in 0..MaxInt32
        BY <4>1, <4>2, <4>3
      <4>. QED
        BY <4>4
    <3>. QED
      BY <1>2, <2>3, <3>1, <3>3, <3>4 DEF IInv, Channel
  <2>. QED
    BY <2>1, <2>2, <2>3 DEF RoutedHome
<1>. QED
  BY <1>2, Invariant, PTL

-----------------------------------------------------------------------------
(* Modes.                                                                  *)

\* The sub-HALs are all in the mode the proxy takes them to be in, but for those that
\* did not do as they were told; initialize brings one after the other back to NORMAL.
ModesAgree ==
  /\ session = 0 => mode = "NORMAL" /\ \A h \in Libs : halMode[h] = "NORMAL"
  /\ \A i \in DOMAIN halList :
       \/ halList[i] \in strayed
       \/ halMode[halList[i]] = IF phase = "subhals" /\ i < next THEN "NORMAL" ELSE mode

ModeInv == ModesAgree /\ InjectionReachesInjecting

LEMMA LoadedAreLibs ==
  ASSUME RoutingAssumption, IInv
  PROVE  Loaded \subseteq Libs
BY FewHals DEF IInv, Loaded

LEMMA ValidIsLoaded ==
  ASSUME RoutingAssumption, IInv, NEW handle \in Int, IsSubHalIndexValid(handle)
  PROVE  GetSubHalForSensorHandle(handle) \in Loaded
<1>1. Len(halList) \in Nat /\ DOMAIN halList = 1..Len(halList)
  BY FewHals DEF IInv
<1>2. ExtractSubHalIndex(handle) + 1 \in DOMAIN halList
  BY <1>1 DEF IsSubHalIndexValid
<1>. QED
  BY <1>2 DEF GetSubHalForSensorHandle, Loaded

\* The constructor runs while all are in mode NORMAL.
LEMMA ConstructModes ==
  ASSUME RoutingAssumption, IInv, IInv', ModeInv, last = Nothing, Construct
  PROVE  ModeInv'
<1>1. session = 0 /\ UNCHANGED <<session, last, modes>>
  BY DEF Construct, LoadLibrary, LoadedAll, LoadSensors, Constructed, IInv, Progress
<1>2. mode' = "NORMAL" /\ \A h \in Libs : halMode'[h] = "NORMAL"
  BY <1>1 DEF ModeInv, ModesAgree, modes
<1>3. \A i \in DOMAIN halList' : halList'[i] \in Libs
  <2>1. DOMAIN halList' = 1..Len(halList') /\ halList' \in Seq(Libs)
    BY LenProperties DEF IInv, TypeOK
  <2>. QED
    BY <2>1, ElementOfSeq
<1>4. last' = Nothing
  BY <1>1
<1>. QED
  BY <1>2, <1>3, <1>4 DEF ModeInv, ModesAgree, InjectionReachesInjecting, Nothing

\* A step that touches no mode and injects nothing.
LEMMA ModesUntouched ==
  ASSUME ModeInv, UNCHANGED <<modes, built, session>>, last' = last \/ last'.op # "inject"
  PROVE  ModeInv'
BY DEF ModeInv, ModesAgree, InjectionReachesInjecting, modes, built

LEMMA InjectModes ==
  ASSUME RoutingAssumption, IInv, ModeInv, NEW h \in Int, NEW type, NEW payload, NEW back,
         Inject(h, type, payload, back)
  PROVE  ModeInv'
<1>1. UNCHANGED <<session, halList, mode, halMode, strayed, phase, next>> /\ phase = "ready"
  BY DEF Inject, Callable, built, modes
<1>2. ModesAgree'
  BY <1>1 DEF ModeInv, ModesAgree
<1>3. ASSUME last'.op = "inject", last'.hal # None, last'.sample
      PROVE  halMode[last'.hal] = "DATA_INJECTION" \/ last'.hal \in strayed
  <2>1. MayInject(type)
    BY <1>3 DEF Inject, Aborted
  <2>2. last'.hal = Routed("inject", h).hal /\ last'.sample = (type # "ADDITIONAL_INFO")
    BY <1>3, <2>1 DEF Inject, Aborted
  <2>3. IsSubHalIndexValid(h) /\ last'.hal = GetSubHalForSensorHandle(h)
    BY <1>3, <2>2 DEF Routed
  <2>4. PICK i \in DOMAIN halList : last'.hal = halList[i]
    BY <2>3, ValidIsLoaded DEF Loaded
  <2>5. mode = "DATA_INJECTION"
    BY <1>3, <2>1, <2>2 DEF MayInject, IInv, TypeOK, Modes
  <2>. QED
    BY <1>1, <2>4, <2>5 DEF ModeInv, ModesAgree
<1>. QED
  BY <1>1, <1>2, <1>3 DEF ModeInv, InjectionReachesInjecting

LEMMA InjectBackModes ==
  ASSUME RoutingAssumption, IInv, ModeInv, InjectBack
  PROVE  ModeInv'
<1>1. last.handle \in Int
  BY Int32AreInts DEF InjectBack, IInv, EventHome
<1>. QED
  BY <1>1, InjectModes DEF InjectBack

\* When one sub-HAL refuses, the others are back in the mode they were in, or strayed.
LEMMA SetOperationModeModes ==
  ASSUME RoutingAssumption, IInv, ModeInv, last = Nothing, NEW m \in Modes, NEW agrees, NEW goesBack,
         SetOperationMode(m, agrees, goesBack)
  PROVE  ModeInv'
<1>. DEFINE flipped == Flipped(agrees)
            stuck   == {h \in flipped : ~goesBack[h]}
<1>1. /\ UNCHANGED <<session, last, halList, phase>> /\ session # 0 /\ phase = "ready"
      /\ \A i \in DOMAIN halList : halList[i] \in Loaded /\ halList[i] \in Libs
  BY LoadedAreLibs DEF SetOperationMode, Callable, built, Loaded, IInv, TypeOK
<1>2. ASSUME NEW i \in DOMAIN halList
      PROVE  halList[i] \in strayed' \/ halMode'[halList[i]] = mode'
  <2>1. CASE flipped = Loaded
    BY <1>1, <2>1 DEF SetOperationMode
  <2>2. CASE flipped # Loaded
    <3>1. /\ mode' = mode
          /\ halMode'[halList[i]] = IF halList[i] \notin flipped THEN halMode[halList[i]]
                                    ELSE IF halList[i] \in stuck THEN m ELSE mode
          /\ strayed' = (strayed \ flipped) \cup stuck
      BY <1>1, <2>2 DEF SetOperationMode
    <3>2. halList[i] \in strayed \/ halMode[halList[i]] = mode
      BY <1>1 DEF ModeInv, ModesAgree
    <3>. HIDE DEF flipped, stuck
    <3>. QED
      BY <3>1, <3>2
  <2>. QED
    BY <2>1, <2>2
<1>. QED
  BY <1>1, <1>2 DEF ModeInv, ModesAgree, InjectionReachesInjecting, Nothing

\* The sub-HALs that initialize has reached are in mode NORMAL, or failed.
LEMMA InitSubHalModes ==
  ASSUME RoutingAssumption, IInv, ModeInv, last = Nothing, NEW fails, InitSubHal(fails)
  PROVE  ModeInv'
<1>1. /\ UNCHANGED <<last, halList, session, phase, mode>> /\ session # 0 /\ phase = "subhals"
      /\ next \in Nat /\ next' = next + 1
  BY DEF InitSubHal, IInv, TypeOK, Progress
<1>2. /\ next \in DOMAIN halList
      /\ \A i \in DOMAIN halList : i \in Nat /\ halList[i] \in Libs
      /\ \A i \in DOMAIN halList : halList[i] = halList[next] => i = next
  BY FewHals DEF InitSubHal, IInv, TypeOK, Progress
<1>3. ASSUME NEW i \in DOMAIN halList
      PROVE  \/ halList[i] \in strayed'
             \/ halMode'[halList[i]] = IF i < next' THEN "NORMAL" ELSE mode'
  <2>1. CASE i = next
    <3>1. halList[i] \in strayed' \/ halMode'[halList[i]] = "NORMAL"
      BY <1>2, <2>1 DEF InitSubHal, IInv, TypeOK
    <3>. QED
      BY <1>1, <2>1, <3>1
  <2>2. CASE i # next
    <3>1. halList[i] # halList[next]
      BY <1>2, <2>2
    <3>2. halMode'[halList[i]] = halMode[halList[i]] /\ (halList[i] \in strayed => halList[i] \in strayed')
      BY <1>2, <3>1 DEF InitSubHal, IInv, TypeOK
    <3>3. i < next' <=> i < next
      BY <1>1, <1>2, <2>2
    <3>4. halList[i] \in strayed \/ halMode[halList[i]] = IF i < next THEN "NORMAL" ELSE mode
      BY <1>1 DEF ModeInv, ModesAgree
    <3>. QED
      BY <1>1, <3>2, <3>3, <3>4
  <2>. QED
    BY <2>1, <2>2
<1>. QED
  BY <1>1, <1>3 DEF ModeInv, ModesAgree, InjectionReachesInjecting, Nothing

LEMMA InitializeModes ==
  ASSUME RoutingAssumption, IInv, ModeInv, last = Nothing, InitializeCommon
  PROVE  ModeInv'
<1>1. CASE InitDisable
  BY <1>1 DEF InitDisable, modes, ModeInv, ModesAgree, InjectionReachesInjecting, Nothing, IInv, TypeOK
<1>2. CASE InitClear
  BY <1>2 DEF InitClear, modes, ModeInv, ModesAgree, InjectionReachesInjecting, Nothing
<1>3. CASE InitCallback
  <2>1. \A i \in DOMAIN halList : ~(i < 1)
    BY FewHals DEF IInv
  <2>. QED
    BY <1>3, <2>1 DEF InitCallback, modes, ModeInv, ModesAgree, InjectionReachesInjecting, Nothing
<1>4. ASSUME NEW fails, InitSubHal(fails)
      PROVE  ModeInv'
  BY <1>4, InitSubHalModes
<1>5. CASE InitReturns
  <2>1. \A i \in DOMAIN halList : i < next
    <3>1. Len(halList) \in Nat /\ DOMAIN halList = 1..Len(halList) /\ next \in Nat /\ next > Len(halList)
      BY <1>5, FewHals DEF InitReturns, IInv, TypeOK
    <3>. QED
      BY <3>1
  <2>2. session # 0
    BY <1>5 DEF InitReturns, IInv, Progress
  <2>. QED
    BY <1>5, <2>1, <2>2 DEF InitReturns, modes, ModeInv, ModesAgree, InjectionReachesInjecting, Nothing
<1>. QED
  BY <1>1, <1>2, <1>3, <1>4, <1>5 DEF InitializeCommon

LEMMA NextModes ==
  ASSUME RoutingAssumption, IInv, IInv', ModeInv, [Next]_vars
  PROVE  ModeInv'
<1>1. CASE UNCHANGED vars
  BY <1>1, ModesUntouched DEF vars, modes, built
<1>2. CASE Return
  BY <1>2, ModesUntouched DEF Return, Nothing
<1>3. CASE InjectBack
  BY <1>3, InjectBackModes
<1>4. CASE Ended
  BY <1>1, <1>4 DEF Ended
<1>5. CASE last = Nothing /\ Construct
  BY <1>5, ConstructModes
<1>6. CASE last = Nothing /\ Framework
  <2>1. CASE GetSensorsList
    BY <2>1, ModesUntouched DEF GetSensorsList
  <2>2. ASSUME NEW h \in Given, NEW on \in BOOLEAN, Activate(h, on)
        PROVE  ModeInv'
    BY <2>2, ModesUntouched DEF Activate, Routed
  <2>3. ASSUME NEW h \in Given, NEW op \in {"batch", "flush"}, BatchOrFlush(op, h)
        PROVE  ModeInv'
    BY <2>3, ModesUntouched DEF BatchOrFlush, Routed
  <2>4. ASSUME NEW h \in Given, NEW e \in Injected, InjectMade(h, e)
        PROVE  ModeInv'
    BY <2>4, InjectModes, GivenAreInts DEF InjectMade
  <2>5. ASSUME NEW h \in Given, NEW stop \in BOOLEAN, ConfigDirectReport(h, stop)
        PROVE  ModeInv'
    BY <2>5, ModesUntouched DEF ConfigDirectReport
  <2>6. ASSUME NEW m \in Modes, NEW agrees \in [Loaded -> BOOLEAN], NEW goesBack \in [Loaded -> BOOLEAN],
               SetOperationMode(m, agrees, goesBack)
        PROVE  ModeInv'
    BY <1>6, <2>6, SetOperationModeModes
  <2>. QED
    BY <1>6, <2>1, <2>2, <2>3, <2>4, <2>5, <2>6 DEF Framework
<1>7. CASE last = Nothing /\ InitializeCommon
  BY <1>7, InitializeModes
<1>8. ASSUME NEW hal \in Libs, SubHal(hal)
      PROVE  ModeInv'
  <2>1. ASSUME NEW t, NEW added, OnDynamicSensorsConnected(t, hal, added)
        PROVE  ModeInv'
    BY <2>1, ModesUntouched DEF OnDynamicSensorsConnected
  <2>2. ASSUME NEW t, NEW removed, OnDynamicSensorsDisconnected(t, hal, removed)
        PROVE  ModeInv'
    BY <2>2, ModesUntouched DEF OnDynamicSensorsDisconnected
  <2>3. ASSUME NEW s, NEW named, NEW type, PostEvent(hal, s, type, named)
        PROVE  ModeInv'
    BY <2>3, ModesUntouched DEF PostEvent, Aborted
  <2>. QED
    BY <1>8, <2>1, <2>2, <2>3 DEF SubHal
<1>9. ASSUME NEW t, Report(t)
      PROVE  ModeInv'
  BY <1>9, ModesUntouched DEF Report
<1>. QED
  BY <1>1, <1>2, <1>3, <1>4, <1>5, <1>6, <1>7, <1>8, <1>9 DEF Next

\* Whatever sub-HALs refuse, and whenever initialize is called again or fails, injected samples
\* reach only sub-HALs in mode DATA_INJECTION, or such as did not go back when they
\* were told to (setOperationMode, injectSensorData).
THEOREM InjectionOnlyWhereInjecting == Spec => []InjectionReachesInjecting
<1>1. RoutingAssumption
  BY RoutingAssumption
<1>2. Init => ModeInv
  BY DEF Init, ModeInv, ModesAgree, InjectionReachesInjecting, Nothing
<1>3. IInv /\ IInv' /\ ModeInv /\ [Next]_vars => ModeInv'
  BY <1>1, NextModes
<1>4. ModeInv => InjectionReachesInjecting
  BY DEF ModeInv
<1>. QED
  BY <1>2, <1>3, <1>4, Invariant, PTL DEF Spec

-----------------------------------------------------------------------------
(* Enabled sensors.                                                        *)

\* The proxy has an entry for every sensor with a clear handle that a sub-HAL lists or
\* has plugged in, and for every sensor that is enabled; while initialize clears the
\* dynamic ones, none is enabled.
ListedKept ==
  \A i \in DOMAIN halList : phase \notin {"libraries", "lists"} \/ (phase = "lists" /\ i < next) =>
    \A s \in Listed[halList[i]] : SubHalIndexIsClear(s.own) =>
      SetSubHalIndex(s.own, i - 1) \in HandlesOf(sensors)

PluggedKept ==
  /\ session = 0 => \A h \in Libs : plugged[h] = {}
  /\ \A i \in DOMAIN halList : phase # "cleared" /\ (phase = "subhals" => i < next) =>
       \A s \in plugged[halList[i]] : SubHalIndexIsClear(s.own) =>
         SetSubHalIndex(s.own, i - 1) \in HandlesOf(dynamic)

EnabledKept ==
  \A e \in enabled : \E i \in DOMAIN halList :
    /\ e[1] = halList[i]
    /\ SetSubHalIndex(e[2], i - 1) \in HandlesOf(sensors \cup dynamic)

AllKept == ListedKept /\ PluggedKept /\ EnabledKept /\ InitializeQuiets

LEMMA HandlesGrow ==
  ASSUME NEW A, NEW B, A \subseteq B
  PROVE  HandlesOf(A) \subseteq HandlesOf(B)
BY DEF HandlesOf

\* Equal handles belong to one sensor of one sub-HAL.
LEMMA OneHandleOneSensor ==
  ASSUME RoutingAssumption, IInv, NEW i \in DOMAIN halList, NEW j \in DOMAIN halList,
         NEW a \in Int, SubHalIndexIsClear(a), NEW b \in Int, SubHalIndexIsClear(b),
         SetSubHalIndex(a, i - 1) = SetSubHalIndex(b, j - 1)
  PROVE  i = j /\ a = b
<1>1. i \in 1..128 /\ j \in 1..128 /\ i - 1 \in 0..127 /\ j - 1 \in 0..127
  BY FewHals DEF IInv
<1>2. \A n \in 0..127 : /\ ExtractSubHalIndex(SetSubHalIndex(a, n)) = n
                        /\ ClearSubHalIndex(SetSubHalIndex(a, n)) = a
  BY HandleParts
<1>3. \A n \in 0..127 : /\ ExtractSubHalIndex(SetSubHalIndex(b, n)) = n
                        /\ ClearSubHalIndex(SetSubHalIndex(b, n)) = b
  BY HandleParts
<1>4. /\ ExtractSubHalIndex(SetSubHalIndex(a, i - 1)) = i - 1
      /\ ClearSubHalIndex(SetSubHalIndex(a, i - 1)) = a
  BY <1>1, <1>2
<1>5. /\ ExtractSubHalIndex(SetSubHalIndex(b, j - 1)) = j - 1
      /\ ClearSubHalIndex(SetSubHalIndex(b, j - 1)) = b
  BY <1>1, <1>3
<1>6. i - 1 = j - 1 /\ a = b
  BY <1>4, <1>5, Zenon
<1>7. \A n, k \in 1..128 : n - 1 = k - 1 => n = k
  OBVIOUS
<1>. QED
  BY <1>1, <1>6, <1>7, Zenon

LEMMA LoadSensorsKept ==
  ASSUME RoutingAssumption, IInv, AllKept, LoadSensors
  PROVE  AllKept'
<1>. DEFINE hal   == halList[next]
            infos == {s \in Listed[hal] : SubHalIndexIsClear(s.own)}
            owner == DirectOwner(infos, hal)
            Made(s) == ProxySensor(s, next, s.direct /\ owner = hal)
<1>1. /\ sensors' = sensors \cup {Made(s) : s \in infos} /\ next' = next + 1 /\ next \in Nat
      /\ UNCHANGED <<halList, phase, enabled, dynamic, plugged, session>> /\ phase = "lists"
  BY DEF LoadSensors, dynamics, IInv, TypeOK
<1>2. \A s \in infos : Made(s).handle = SetSubHalIndex(s.own, next - 1) /\ Made(s) \in sensors'
  BY <1>1 DEF ProxySensor
<1>. HIDE DEF Made, owner
<1>3. \A s \in infos : SetSubHalIndex(s.own, next - 1) \in HandlesOf(sensors')
  BY <1>2 DEF HandlesOf
<1>4. HandlesOf(sensors) \subseteq HandlesOf(sensors')
  BY <1>1, HandlesGrow
<1>5. \A i \in DOMAIN halList : i \in Nat
  BY FewHals DEF IInv
<1>6. ListedKept'
  <2>1. ASSUME NEW i \in DOMAIN halList, i < next', NEW s \in Listed[halList[i]], SubHalIndexIsClear(s.own)
        PROVE  SetSubHalIndex(s.own, i - 1) \in HandlesOf(sensors')
    <3>1. i = next \/ i < next
      BY <1>1, <1>5, <2>1
    <3>2. CASE i = next
      BY <1>3, <2>1, <3>2
    <3>3. CASE i < next
      BY <1>1, <1>4, <2>1, <3>3 DEF AllKept, ListedKept
    <3>. QED
      BY <3>1, <3>2, <3>3
  <2>. QED
    BY <1>1, <2>1 DEF ListedKept
<1>7. PluggedKept' /\ EnabledKept' /\ InitializeQuiets'
  <2>1. enabled = {} /\ session = 0
    BY <1>1 DEF IInv, Progress
  <2>2. \A i \in DOMAIN halList : plugged[halList[i]] = {}
    BY <2>1, FewHals DEF AllKept, PluggedKept, IInv
  <2>. QED
    BY <1>1, <2>1, <2>2 DEF AllKept, PluggedKept, EnabledKept, InitializeQuiets
<1>. QED
  BY <1>6, <1>7 DEF AllKept

LEMMA ConstructKept ==
  ASSUME RoutingAssumption, IInv, IInv', AllKept, Construct
  PROVE  AllKept'
<1>1. CASE LoadSensors
  BY <1>1, LoadSensorsKept
<1>2. CASE LoadLibrary \/ LoadedAll \/ Constructed
  <2>1. session = 0 /\ enabled = {} /\ UNCHANGED <<session, enabled, plugged, sensors, dynamic>>
    BY <1>2 DEF LoadLibrary, LoadedAll, Constructed, dynamics, IInv, Progress
  <2>2. \A i \in DOMAIN halList' : i \in Nat /\ i >= 1 /\ halList'[i] \in Libs
    <3>1. halList' \in Seq(Libs)
      BY DEF IInv, TypeOK
    <3>. QED
      BY <3>1, LenProperties, ElementOfSeq
  <2>3. PluggedKept' /\ EnabledKept' /\ InitializeQuiets'
    BY <2>1, <2>2 DEF AllKept, PluggedKept, EnabledKept, InitializeQuiets
  <2>4. ListedKept'
    <3>1. CASE LoadLibrary
      BY <3>1 DEF LoadLibrary, ListedKept
    <3>2. CASE LoadedAll
      BY <2>2, <3>2 DEF LoadedAll, ListedKept
    <3>3. CASE Constructed
      <4>1. \A i \in DOMAIN halList : i < next
        <5>1. Len(halList) \in Nat /\ DOMAIN halList = 1..Len(halList) /\ next \in Nat /\ next > Len(halList)
          BY <3>3, FewHals DEF Constructed, IInv, TypeOK
        <5>. QED
          BY <5>1
      <4>2. UNCHANGED <<halList, sensors>> /\ phase = "lists"
        BY <3>3 DEF Constructed
      <4>. QED
        BY <4>1, <4>2 DEF AllKept, ListedKept
    <3>. QED
      BY <1>2, <3>1, <3>2, <3>3
  <2>. QED
    BY <2>3, <2>4 DEF AllKept
<1>. QED
  BY <1>1, <1>2 DEF Construct

\* A sensor its sub-HAL has is in one of the proxy's tables.
LEMMA ActivateKept ==
  ASSUME RoutingAssumption, IInv, AllKept, NEW h \in Given, NEW on \in BOOLEAN, Activate(h, on)
  PROVE  AllKept'
<1>. DEFINE call   == Routed("activate", h)
            sensor == IF call.hal # None /\ Has(call.hal, call.own) THEN {<<call.hal, call.own>>} ELSE {}
<1>1. /\ UNCHANGED <<halList, phase, next, sensors, dynamic, plugged, session>>
      /\ enabled' \subseteq enabled \cup sensor /\ phase = "ready"
  BY DEF Activate, Callable, built, dynamics
<1>2. ASSUME NEW e \in sensor
      PROVE  \E i \in DOMAIN halList :
               /\ e[1] = halList[i]
               /\ SetSubHalIndex(e[2], i - 1) \in HandlesOf(sensors \cup dynamic)
  <2>1. /\ call.hal # None /\ Has(call.hal, call.own) /\ e = <<call.hal, call.own>>
        /\ IsSubHalIndexValid(h) /\ call.hal = GetSubHalForSensorHandle(h)
        /\ call.own = ClearSubHalIndex(h)
    BY <1>2 DEF Routed
  <2>2. h \in Int
    BY GivenAreInts
  <2>3. SubHalIndexIsClear(call.own) /\ call.hal \in Loaded
    BY <2>1, <2>2, ClearedIsClear, ValidIsLoaded
  <2>. HIDE DEF call
  <2>4. PICK i \in DOMAIN halList : call.hal = halList[i]
    BY <2>3 DEF Loaded
  <2>5. PICK s \in Listed[halList[i]] \cup plugged[halList[i]] : s.own = call.own
    BY <2>1, <2>4 DEF Has
  <2>6. SetSubHalIndex(call.own, i - 1) \in HandlesOf(sensors) \cup HandlesOf(dynamic)
    BY <1>1, <2>3, <2>5 DEF AllKept, ListedKept, PluggedKept
  <2>7. SetSubHalIndex(call.own, i - 1) \in HandlesOf(sensors \cup dynamic)
    BY <2>6 DEF HandlesOf
  <2>. QED
    BY <2>1, <2>4, <2>7
<1>. HIDE DEF sensor
<1>3. EnabledKept'
  BY <1>1, <1>2 DEF AllKept, EnabledKept
<1>. QED
  BY <1>1, <1>3 DEF AllKept, ListedKept, PluggedKept, InitializeQuiets

\* disableAllSensors reaches every sensor that is enabled.
LEMMA DisablesAll ==
  ASSUME RoutingAssumption, IInv, AllKept, InitDisable
  PROVE  enabled' = {}
<1>1. ASSUME NEW e \in enabled
      PROVE  e \in {<<GetSubHalForSensorHandle(h), ClearSubHalIndex(h)>> :
                      h \in {g \in DisabledAll : IsSubHalIndexValid(g)}}
  <2>1. PICK i \in DOMAIN halList :
          e[1] = halList[i] /\ SetSubHalIndex(e[2], i - 1) \in HandlesOf(sensors \cup dynamic)
    BY DEF AllKept, EnabledKept
  <2>2. e = <<e[1], e[2]>> /\ e[2] \in Int /\ SubHalIndexIsClear(e[2])
    BY DEF IInv, TypeOK, HalsOK
  <2>3. Homed(SetSubHalIndex(e[2], i - 1), e[1], e[2])
    BY <2>1, <2>2 DEF Homed
  <2>4. /\ IsSubHalIndexValid(SetSubHalIndex(e[2], i - 1))
        /\ GetSubHalForSensorHandle(SetSubHalIndex(e[2], i - 1)) = e[1]
        /\ ClearSubHalIndex(SetSubHalIndex(e[2], i - 1)) = e[2]
    BY <2>3, HomedRoutes
  <2>5. SetSubHalIndex(e[2], i - 1) \in DisabledAll
    BY <2>1 DEF DisabledAll
  <2>. QED
    BY <2>2, <2>4, <2>5
<1>. QED
  BY <1>1 DEF InitDisable

\* Once a sub-HAL has been initialized, the proxy hears of all it plugs in.
LEMMA InitSubHalKept ==
  ASSUME RoutingAssumption, IInv, AllKept, NEW fails, InitSubHal(fails)
  PROVE  AllKept'
<1>1. /\ UNCHANGED <<halList, phase, session, sensors, dynamic, enabled>> /\ phase = "subhals"
      /\ next \in Nat /\ next' = next + 1 /\ plugged' = [plugged EXCEPT ![halList[next]] = {}]
  BY DEF InitSubHal, IInv, TypeOK
<1>2. \A i \in DOMAIN halList : i \in Nat /\ halList[i] \in Libs
  BY FewHals DEF IInv
<1>3. enabled = {} /\ session # 0
  BY <1>1 DEF AllKept, InitializeQuiets, IInv, Progress
<1>4. ASSUME NEW i \in DOMAIN halList, i < next', NEW s \in plugged'[halList[i]], SubHalIndexIsClear(s.own)
      PROVE  SetSubHalIndex(s.own, i - 1) \in HandlesOf(dynamic)
  <2>1. i # next /\ s \in plugged[halList[i]]
    BY <1>1, <1>2, <1>4 DEF IInv, TypeOK
  <2>2. i < next
    BY <1>1, <1>2, <1>4, <2>1
  <2>. QED
    BY <1>1, <1>4, <2>1, <2>2 DEF AllKept, PluggedKept
<1>5. PluggedKept'
  BY <1>1, <1>3, <1>4 DEF PluggedKept
<1>6. ListedKept' /\ EnabledKept' /\ InitializeQuiets'
  BY <1>1, <1>3 DEF AllKept, ListedKept, EnabledKept, InitializeQuiets
<1>. QED
  BY <1>5, <1>6 DEF AllKept

LEMMA InitializeKept ==
  ASSUME RoutingAssumption, IInv, AllKept, InitializeCommon
  PROVE  AllKept'
<1>1. CASE InitDisable
  <2>1. enabled' = {}
    BY <1>1, DisablesAll
  <2>2. /\ UNCHANGED <<halList, next, sensors, dynamic, plugged>>
        /\ phase = "ready" /\ phase' = "disabled" /\ session' # 0
    BY <1>1 DEF InitDisable, dynamics, IInv, TypeOK
  <2>. QED
    BY <2>1, <2>2 DEF AllKept, ListedKept, PluggedKept, EnabledKept, InitializeQuiets
<1>2. CASE InitClear
  <2>1. /\ UNCHANGED <<halList, next, sensors, plugged, enabled, session>>
        /\ phase = "disabled" /\ phase' = "cleared"
    BY <1>2 DEF InitClear
  <2>2. enabled = {} /\ session # 0
    BY <2>1 DEF AllKept, InitializeQuiets, IInv, Progress
  <2>. QED
    BY <2>1, <2>2 DEF AllKept, ListedKept, PluggedKept, EnabledKept, InitializeQuiets
<1>3. CASE InitCallback
  <2>1. /\ UNCHANGED <<halList, sensors, plugged, enabled, session>>
        /\ phase = "cleared" /\ phase' = "subhals" /\ next' = 1
    BY <1>3 DEF InitCallback
  <2>2. enabled = {} /\ session # 0
    BY <2>1 DEF AllKept, InitializeQuiets, IInv, Progress
  <2>3. \A i \in DOMAIN halList : ~(i < 1)
    BY FewHals DEF IInv
  <2>. QED
    BY <2>1, <2>2, <2>3 DEF AllKept, ListedKept, PluggedKept, EnabledKept, InitializeQuiets
<1>4. ASSUME NEW fails, InitSubHal(fails)
      PROVE  AllKept'
  BY <1>4, InitSubHalKept
<1>5. CASE InitReturns
  <2>1. /\ UNCHANGED <<halList, sensors, dynamic, plugged, enabled, session>>
        /\ phase = "subhals" /\ phase' = "ready"
    BY <1>5 DEF InitReturns, dynamics
  <2>2. enabled = {} /\ session # 0
    BY <2>1 DEF AllKept, InitializeQuiets, IInv, Progress
  <2>3. \A i \in DOMAIN halList : i < next
    <3>1. Len(halList) \in Nat /\ DOMAIN halList = 1..Len(halList) /\ next \in Nat /\ next > Len(halList)
      BY <1>5, FewHals DEF InitReturns, IInv, TypeOK
    <3>. QED
      BY <3>1
  <2>. QED
    BY <2>1, <2>2, <2>3 DEF AllKept, ListedKept, PluggedKept, EnabledKept, InitializeQuiets
<1>. QED
  BY <1>1, <1>2, <1>3, <1>4, <1>5 DEF InitializeCommon

LEMMA ConnectedKept ==
  ASSUME RoutingAssumption, IInv, AllKept, NEW hal \in Libs, NEW t,
         NEW added \in SUBSET (Pluggable[hal] \ plugged[hal]), OnDynamicSensorsConnected(t, hal, added)
  PROVE  AllKept'
<1>. DEFINE infos == {ProxySensor(s, Index(hal), s.direct) : s \in {a \in added : SubHalIndexIsClear(a.own)}}
<1>1. /\ UNCHANGED <<halList, phase, next, sensors, enabled, session>> /\ session # 0
      /\ dynamic' = {d \in dynamic : d.handle \notin HandlesOf(infos)} \cup infos
      /\ plugged' = [plugged EXCEPT ![hal] = @ \cup added]
      /\ Index(hal) \in DOMAIN halList /\ halList[Index(hal)] = hal
  BY IndexOf DEF OnDynamicSensorsConnected, built
<1>2. ASSUME NEW s \in added, SubHalIndexIsClear(s.own)
      PROVE  SetSubHalIndex(s.own, Index(hal) - 1) \in HandlesOf(infos)
  <2>1. ProxySensor(s, Index(hal), s.direct) \in infos
    BY <1>2
  <2>2. ProxySensor(s, Index(hal), s.direct).handle = SetSubHalIndex(s.own, Index(hal) - 1)
    BY DEF ProxySensor
  <2>. HIDE DEF infos
  <2>. QED
    BY <2>1, <2>2 DEF HandlesOf
<1>. HIDE DEF infos
<1>3. HandlesOf(infos) \subseteq HandlesOf(dynamic') /\ HandlesOf(dynamic) \subseteq HandlesOf(dynamic')
  BY <1>1 DEF HandlesOf
<1>4. PluggedKept'
  <2>1. ASSUME NEW i \in DOMAIN halList, NEW s \in plugged'[halList[i]], SubHalIndexIsClear(s.own),
               phase # "cleared" /\ (phase = "subhals" => i < next)
        PROVE  SetSubHalIndex(s.own, i - 1) \in HandlesOf(dynamic')
    <3>1. CASE s \in plugged[halList[i]]
      BY <1>3, <2>1, <3>1 DEF AllKept, PluggedKept
    <3>2. CASE s \notin plugged[halList[i]]
      <4>1. halList[i] = hal /\ s \in added
        BY <1>1, <2>1, <3>2 DEF IInv, TypeOK
      <4>2. i = Index(hal)
        BY <1>1, <4>1 DEF IInv, Progress
      <4>. QED
        BY <1>2, <1>3, <2>1, <4>1, <4>2
    <3>. QED
      BY <3>1, <3>2
  <2>. QED
    BY <1>1, <2>1 DEF PluggedKept
<1>5. HandlesOf(sensors \cup dynamic) \subseteq HandlesOf(sensors' \cup dynamic')
  BY <1>1, <1>3 DEF HandlesOf
<1>6. ListedKept' /\ EnabledKept' /\ InitializeQuiets'
  BY <1>1, <1>5 DEF AllKept, ListedKept, EnabledKept, InitializeQuiets
<1>. QED
  BY <1>4, <1>6 DEF AllKept

\* A handle that goes is that of a sensor that went, and such a sensor is disabled.
LEMMA DisconnectedKept ==
  ASSUME RoutingAssumption, IInv, AllKept, NEW hal \in Libs, NEW t,
         NEW removed \in SUBSET plugged[hal], OnDynamicSensorsDisconnected(t, hal, removed)
  PROVE  AllKept'
<1>. DEFINE handles == {SetSubHalIndex(s.own, Index(hal) - 1) : s \in {r \in removed : SubHalIndexIsClear(r.own)}}
<1>1. /\ UNCHANGED <<halList, phase, next, sensors, session>> /\ session # 0
      /\ dynamic' = {d \in dynamic : d.handle \notin handles}
      /\ plugged' = [plugged EXCEPT ![hal] = @ \ removed]
      /\ enabled' = enabled \ {<<hal, s.own>> : s \in removed}
      /\ Index(hal) \in DOMAIN halList /\ halList[Index(hal)] = hal
  BY IndexOf DEF OnDynamicSensorsDisconnected, built
<1>2. \A l \in Libs : \A s \in plugged[l] : s \in Pluggable[l] /\ s.own \in Int
  BY DEF IInv, TypeOK, HalsOK, OwnSensor
<1>3. ASSUME NEW i \in DOMAIN halList, NEW own \in Int, SubHalIndexIsClear(own),
             SetSubHalIndex(own, i - 1) \in handles
      PROVE  halList[i] = hal /\ \E s \in removed : s.own = own
  <2>1. PICK s \in removed :
          SubHalIndexIsClear(s.own) /\ SetSubHalIndex(own, i - 1) = SetSubHalIndex(s.own, Index(hal) - 1)
    BY <1>3
  <2>2. s.own \in Int
    BY <1>2
  <2>3. i = Index(hal) /\ own = s.own
    BY <1>1, <1>3, <2>1, <2>2, OneHandleOneSensor
  <2>. QED
    BY <1>1, <2>3
<1>. HIDE DEF handles
<1>4. \A x \in HandlesOf(dynamic) : x \in HandlesOf(dynamic') \/ x \in handles
  BY <1>1 DEF HandlesOf
<1>5. PluggedKept'
  <2>1. ASSUME NEW i \in DOMAIN halList, NEW s \in plugged'[halList[i]], SubHalIndexIsClear(s.own),
               phase # "cleared" /\ (phase = "subhals" => i < next)
        PROVE  SetSubHalIndex(s.own, i - 1) \in HandlesOf(dynamic')
    <3>1. halList[i] \in Libs
      BY FewHals DEF IInv
    <3>2. s \in plugged[halList[i]] /\ (halList[i] = hal => s \notin removed)
      BY <1>1, <2>1, <3>1 DEF IInv, TypeOK
    <3>3. SetSubHalIndex(s.own, i - 1) \in HandlesOf(dynamic)
      BY <2>1, <3>2 DEF AllKept, PluggedKept
    <3>4. s.own \in Int /\ s \in Pluggable[halList[i]]
      BY <1>2, <3>1, <3>2
    <3>5. SetSubHalIndex(s.own, i - 1) \notin handles
      <4>1. SUFFICES ASSUME SetSubHalIndex(s.own, i - 1) \in handles
                     PROVE  FALSE
        OBVIOUS
      <4>2. halList[i] = hal /\ \E r \in removed : r.own = s.own
        BY <1>3, <2>1, <3>4, <4>1
      <4>3. PICK r \in removed : r.own = s.own
        BY <4>2
      <4>4. r \in Pluggable[hal] /\ s \in Pluggable[hal]
        BY <1>2, <3>4, <4>2
      <4>5. r = s
        BY <4>3, <4>4 DEF RoutingAssumption
      <4>. QED
        BY <3>2, <4>2, <4>5
    <3>. QED
      BY <1>4, <3>3, <3>5
  <2>. QED
    BY <1>1, <2>1 DEF PluggedKept
<1>6. EnabledKept'
  <2>1. ASSUME NEW e \in enabled'
        PROVE  \E i \in DOMAIN halList :
                 e[1] = halList[i] /\ SetSubHalIndex(e[2], i - 1) \in HandlesOf(sensors' \cup dynamic')
    <3>1. PICK i \in DOMAIN halList :
            e[1] = halList[i] /\ SetSubHalIndex(e[2], i - 1) \in HandlesOf(sensors \cup dynamic)
      BY <1>1, <2>1 DEF AllKept, EnabledKept
    <3>2. e = <<e[1], e[2]>> /\ e[2] \in Int /\ SubHalIndexIsClear(e[2])
      BY <1>1, <2>1 DEF IInv, TypeOK, HalsOK
    <3>3. SetSubHalIndex(e[2], i - 1) \notin handles
      <4>1. SUFFICES ASSUME SetSubHalIndex(e[2], i - 1) \in handles
                     PROVE  FALSE
        OBVIOUS
      <4>2. halList[i] = hal /\ \E r \in removed : r.own = e[2]
        BY <1>3, <3>2, <4>1
      <4>3. e \in {<<hal, s.own>> : s \in removed}
        BY <3>1, <3>2, <4>2
      <4>. QED
        BY <1>1, <2>1, <4>3
    <3>4. SetSubHalIndex(e[2], i - 1) \in HandlesOf(sensors) \cup HandlesOf(dynamic)
      BY <3>1 DEF HandlesOf
    <3>5. SetSubHalIndex(e[2], i - 1) \in HandlesOf(sensors') \cup HandlesOf(dynamic')
      BY <1>1, <1>4, <3>3, <3>4
    <3>6. SetSubHalIndex(e[2], i - 1) \in HandlesOf(sensors' \cup dynamic')
      BY <3>5 DEF HandlesOf
    <3>. QED
      BY <3>1, <3>6
  <2>. QED
    BY <1>1, <2>1 DEF EnabledKept
<1>7. ListedKept' /\ InitializeQuiets'
  BY <1>1 DEF AllKept, ListedKept, InitializeQuiets
<1>. QED
  BY <1>5, <1>6, <1>7 DEF AllKept

\* A step that enables nothing, plugs in nothing and forgets no sensor.
LEMMA KeptUntouched ==
  ASSUME AllKept, UNCHANGED <<halList, phase, next, enabled, dynamic, plugged, session>>,
         sensors \subseteq sensors'
  PROVE  AllKept'
<1>1. /\ HandlesOf(sensors) \subseteq HandlesOf(sensors')
      /\ HandlesOf(sensors \cup dynamic) \subseteq HandlesOf(sensors' \cup dynamic')
  BY DEF HandlesOf
<1>. QED
  BY <1>1 DEF AllKept, ListedKept, PluggedKept, EnabledKept, InitializeQuiets

LEMMA NextKept ==
  ASSUME RoutingAssumption, IInv, IInv', AllKept, [Next]_vars
  PROVE  AllKept'
<1>1. CASE UNCHANGED vars
  BY <1>1, KeptUntouched DEF vars
<1>2. CASE Return
  BY <1>2, KeptUntouched DEF Return, built, dynamics
<1>3. CASE InjectBack
  BY <1>3, KeptUntouched DEF InjectBack, Inject, built, dynamics
<1>4. CASE Ended
  BY <1>1, <1>4 DEF Ended
<1>5. CASE Construct
  BY <1>5, ConstructKept
<1>6. CASE Framework
  <2>1. CASE GetSensorsList
    BY <2>1, KeptUntouched DEF GetSensorsList, built, dynamics
  <2>2. ASSUME NEW h \in Given, NEW on \in BOOLEAN, Activate(h, on)
        PROVE  AllKept'
    BY <2>2, ActivateKept
  <2>3. ASSUME NEW h \in Given, NEW op \in {"batch", "flush"}, BatchOrFlush(op, h)
        PROVE  AllKept'
    BY <2>3, KeptUntouched DEF BatchOrFlush, built, dynamics
  <2>4. ASSUME NEW h \in Given, NEW e \in Injected, InjectMade(h, e)
        PROVE  AllKept'
    BY <2>4, KeptUntouched DEF InjectMade, Inject, built, dynamics
  <2>5. ASSUME NEW h \in Given, NEW stop \in BOOLEAN, ConfigDirectReport(h, stop)
        PROVE  AllKept'
    BY <2>5, KeptUntouched DEF ConfigDirectReport, built, dynamics
  <2>6. ASSUME NEW m \in Modes, NEW agrees \in [Loaded -> BOOLEAN], NEW goesBack \in [Loaded -> BOOLEAN],
               SetOperationMode(m, agrees, goesBack)
        PROVE  AllKept'
    BY <2>6, KeptUntouched DEF SetOperationMode, built, dynamics
  <2>. QED
    BY <1>6, <2>1, <2>2, <2>3, <2>4, <2>5, <2>6 DEF Framework
<1>7. CASE InitializeCommon
  BY <1>7, InitializeKept
<1>8. ASSUME NEW hal \in Libs, SubHal(hal)
      PROVE  AllKept'
  <2>1. ASSUME NEW t \in Callers, NEW added \in SUBSET (Pluggable[hal] \ plugged[hal]),
               OnDynamicSensorsConnected(t, hal, added)
        PROVE  AllKept'
    BY <2>1, ConnectedKept
  <2>2. ASSUME NEW t \in Callers, NEW removed \in SUBSET plugged[hal],
               OnDynamicSensorsDisconnected(t, hal, removed)
        PROVE  AllKept'
    BY <2>2, DisconnectedKept
  <2>3. ASSUME NEW s, NEW named, NEW type, PostEvent(hal, s, type, named)
        PROVE  AllKept'
    <3>1. sensors \subseteq sensors' /\ UNCHANGED <<enabled, session, built, dynamics>>
      BY <2>3 DEF PostEvent
    <3>. QED
      BY <3>1, KeptUntouched DEF built, dynamics
  <2>. QED
    BY <1>8, <2>1, <2>2, <2>3 DEF SubHal
<1>9. ASSUME NEW t, Report(t)
      PROVE  AllKept'
  BY <1>9, KeptUntouched DEF Report, built
<1>. QED
  BY <1>1, <1>2, <1>3, <1>4, <1>5, <1>6, <1>7, <1>8, <1>9 DEF Next

\* Whatever was listed, plugged in and enabled before, and whatever sub-HALs report in
\* the meantime, no sensor of any sub-HAL is enabled from disableAllSensors, which goes
\* through mSensors and mDynamicSensors, until initialize returns.
THEOREM InitializeLeavesNoneEnabled == Spec => []InitializeQuiets
<1>1. RoutingAssumption
  BY RoutingAssumption
<1>2. Init => AllKept
  BY DEF Init, AllKept, ListedKept, PluggedKept, EnabledKept, InitializeQuiets
<1>3. IInv /\ IInv' /\ AllKept /\ [Next]_vars => AllKept'
  BY <1>1, NextKept
<1>4. AllKept => InitializeQuiets
  BY DEF AllKept
<1>. QED
  BY <1>2, <1>3, <1>4, Invariant, PTL DEF Spec

-----------------------------------------------------------------------------
(* The dynamic sensors the framework believes in.                          *)

\* The caller is about to tell the framework of the handle.
Names(t, handle) == report[t] # Nothing /\ handle \in HandlesOf(report[t].infos)

\* What the caller is about to tell of the sensor.
Will(t, v) == report[t].op = "connected" /\ v \in report[t].infos

\* The table holds, of any handle, what each caller that names it is about to tell; or, if
\* none does, what the framework believes.
Told(v) ==
  /\ \A t \in Callers : Names(t, v.handle) => (v \in dynamic <=> Will(t, v))
  /\ (\A t \in Callers : ~Names(t, v.handle)) => (v \in dynamic <=> v \in view)

ViewInv ==
  /\ session = 0 => view = {}
  /\ \A v : v.handle \notin crossed => Told(v)

LEMMA UnderwayNamed ==
  ASSUME NEW handle
  PROVE  handle \in Underway <=> \E t \in Callers : Names(t, handle)
BY DEF Underway, Names

LEMMA ViewUntouched ==
  ASSUME ViewInv, UNCHANGED dynamics, session' = session \/ session' # 0
  PROVE  ViewInv'
<1>1. \A v : Told(v)' <=> Told(v)
  BY DEF Told, Names, Will, dynamics
<1>. QED
  BY <1>1 DEF ViewInv, dynamics

\* A caller has changed the table, and is about to tell.
LEMMA ReportStarts ==
  ASSUME IInv, ViewInv, session # 0, UNCHANGED <<view, session>>,
         NEW t \in Callers, report[t] = Nothing, NEW op, NEW infos,
         report' = [report EXCEPT ![t] = [op |-> op, infos |-> infos]],
         crossed' = (crossed \ HandlesOf(infos)) \cup (HandlesOf(infos) \cap Underway),
         \A v : v.handle \in HandlesOf(infos) =>
                  (v \in dynamic' <=> op = "connected" /\ v \in infos),
         \A v : v.handle \notin HandlesOf(infos) => (v \in dynamic' <=> v \in dynamic)
  PROVE  ViewInv'
<1>1. /\ report'[t] = [op |-> op, infos |-> infos]
      /\ \A u \in Callers : u # t => report'[u] = report[u]
      /\ [op |-> op, infos |-> infos] # Nothing
  BY DEF IInv, TypeOK, Nothing
<1>2. \A h : Names(t, h)' <=> h \in HandlesOf(infos)
  BY <1>1 DEF Names, HandlesOf
<1>3. \A v : Will(t, v)' <=> op = "connected" /\ v \in infos
  BY <1>1 DEF Will
<1>4. \A u \in Callers : u # t => \A h : Names(u, h)' <=> Names(u, h)
  BY <1>1 DEF Names, HandlesOf
<1>5. \A u \in Callers : u # t => \A v : Will(u, v)' <=> Will(u, v)
  BY <1>1 DEF Will
<1>6. \A h : ~Names(t, h)
  BY DEF Names
<1>7. ASSUME NEW v, v.handle \notin crossed'
      PROVE  Told(v)'
  <2>1. CASE v.handle \in HandlesOf(infos)
    <3>1. \A u \in Callers : ~Names(u, v.handle)
      BY <1>7, <2>1, UnderwayNamed
    <3>2. \A u \in Callers : u # t => ~Names(u, v.handle)'
      BY <1>4, <3>1
    <3>3. Names(t, v.handle)' /\ (v \in dynamic' <=> Will(t, v)')
      BY <1>2, <1>3, <2>1
    <3>. QED
      BY <3>2, <3>3 DEF Told
  <2>2. CASE v.handle \notin HandlesOf(infos)
    <3>1. Told(v)
      BY <1>7, <2>2 DEF ViewInv
    <3>2. ~Names(t, v.handle)' /\ ~Names(t, v.handle)
      BY <1>2, <1>6, <2>2
    <3>3. (v \in dynamic' <=> v \in dynamic) /\ (v \in view' <=> v \in view)
      BY <2>2
    <3>. QED
      BY <1>4, <1>5, <3>1, <3>2, <3>3 DEF Told
  <2>. QED
    BY <2>1, <2>2
<1>. QED
  BY <1>7 DEF ViewInv

LEMMA ViewConnected ==
  ASSUME RoutingAssumption, IInv, ViewInv, NEW hal \in Libs, NEW t \in Callers, NEW added,
         OnDynamicSensorsConnected(t, hal, added)
  PROVE  ViewInv'
<1>. DEFINE infos == {ProxySensor(s, Index(hal), s.direct) :
                        s \in {a \in added : SubHalIndexIsClear(a.own)}}
<1>1. /\ session # 0
      /\ report[t] = Nothing
      /\ dynamic' = {d \in dynamic : d.handle \notin HandlesOf(infos)} \cup infos
      /\ report' = [report EXCEPT ![t] = [op |-> "connected", infos |-> infos]]
      /\ crossed' = (crossed \ HandlesOf(infos)) \cup (HandlesOf(infos) \cap Underway)
      /\ UNCHANGED <<view, session>>
  BY IndexOf DEF OnDynamicSensorsConnected
<1>. HIDE DEF infos
<1>2. \A v : v.handle \in HandlesOf(infos) =>
               (v \in dynamic' <=> "connected" = "connected" /\ v \in infos)
  BY <1>1
<1>3. \A v : v.handle \notin HandlesOf(infos) => (v \in dynamic' <=> v \in dynamic)
  BY <1>1 DEF HandlesOf
<1>. QED
  BY <1>1, <1>2, <1>3, ReportStarts

LEMMA ViewDisconnected ==
  ASSUME RoutingAssumption, IInv, ViewInv, NEW hal \in Libs, NEW t \in Callers, NEW removed,
         OnDynamicSensorsDisconnected(t, hal, removed)
  PROVE  ViewInv'
<1>. DEFINE handles == {SetSubHalIndex(s.own, Index(hal) - 1) :
                          s \in {r \in removed : SubHalIndexIsClear(r.own)}}
            infos   == {d \in dynamic : d.handle \in handles}
<1>1. /\ session # 0
      /\ report[t] = Nothing
      /\ dynamic' = dynamic \ infos
      /\ report' = [report EXCEPT ![t] = [op |-> "disconnected", infos |-> infos]]
      /\ crossed' = (crossed \ HandlesOf(infos)) \cup (HandlesOf(infos) \cap Underway)
      /\ UNCHANGED <<view, session>>
  BY IndexOf DEF OnDynamicSensorsDisconnected
<1>. HIDE DEF handles
<1>2. \A v : v.handle \in HandlesOf(infos) => v.handle \in handles
  BY DEF HandlesOf
<1>3. \A v : v.handle \in HandlesOf(infos) =>
               (v \in dynamic' <=> "disconnected" = "connected" /\ v \in infos)
  BY <1>1, <1>2
<1>4. \A v : v.handle \notin HandlesOf(infos) => (v \in dynamic' <=> v \in dynamic)
  BY <1>1 DEF HandlesOf
<1>. HIDE DEF infos
<1>. QED
  BY <1>1, <1>3, <1>4, ReportStarts

LEMMA ViewReport ==
  ASSUME IInv, ViewInv, NEW t \in Callers, Report(t)
  PROVE  ViewInv'
<1>. DEFINE infos == report[t].infos
<1>1. /\ report[t] # Nothing
      /\ report' = [report EXCEPT ![t] = Nothing]
      /\ UNCHANGED <<dynamic, crossed, session>>
  BY DEF Report
<1>2. \A v : v \in view' <=> \/ v \in view /\ v.handle \notin HandlesOf(infos)
                             \/ Will(t, v)
  BY DEF Report, Will
<1>3. \A v : Will(t, v) => v.handle \in HandlesOf(infos)
  BY DEF Will, HandlesOf
<1>4. \A h : Names(t, h) <=> h \in HandlesOf(infos)
  BY <1>1 DEF Names
<1>. HIDE DEF infos
<1>5. /\ report'[t] = Nothing
      /\ \A u \in Callers : u # t => report'[u] = report[u]
  BY <1>1 DEF IInv, TypeOK
<1>6. \A h : ~Names(t, h)'
  BY <1>5 DEF Names
<1>7. \A u \in Callers : u # t => \A h : Names(u, h)' <=> Names(u, h)
  BY <1>5 DEF Names, HandlesOf
<1>8. \A u \in Callers : u # t => \A v : Will(u, v)' <=> Will(u, v)
  BY <1>5 DEF Will
<1>9. ASSUME NEW v, v.handle \notin crossed'
      PROVE  Told(v)'
  <2>1. Told(v) /\ (v \in dynamic' <=> v \in dynamic)
    BY <1>1, <1>9 DEF ViewInv
  <2>2. \A u \in Callers : Names(u, v.handle)' => (v \in dynamic' <=> Will(u, v)')
    BY <1>6, <1>7, <1>8, <2>1 DEF Told
  <2>3. ASSUME \A u \in Callers : ~Names(u, v.handle)'
        PROVE  v \in dynamic' <=> v \in view'
    <3>1. CASE Names(t, v.handle)
      <4>1. v \in dynamic <=> Will(t, v)
        BY <2>1, <3>1 DEF Told
      <4>. QED
        BY <1>2, <1>4, <2>1, <3>1, <4>1
    <3>2. CASE ~Names(t, v.handle)
      <4>1. \A u \in Callers : ~Names(u, v.handle)
        BY <1>7, <2>3, <3>2
      <4>2. v \in dynamic <=> v \in view
        BY <2>1, <4>1 DEF Told
      <4>. QED
        BY <1>2, <1>3, <1>4, <2>1, <3>2, <4>2
    <3>. QED
      BY <3>1, <3>2
  <2>. QED
    BY <2>2, <2>3 DEF Told
<1>10. session' # 0
  BY <1>1 DEF IInv, Progress
<1>. QED
  BY <1>9, <1>10 DEF ViewInv

\* Clearing the table, or having a new framework callback, leaves nothing of the handles
\* that do not become crossed.
LEMMA ViewCleared ==
  ASSUME NEW others, report' = report, session' # 0, crossed' = Underway \cup HandlesOf(others),
         dynamic' \cup view' \subseteq others
  PROVE  ViewInv'
<1>1. ASSUME NEW v, v.handle \notin crossed'
      PROVE  Told(v)'
  <2>1. v \notin dynamic' /\ v \notin view'
    BY <1>1 DEF HandlesOf
  <2>2. \A t \in Callers : ~Names(t, v.handle)
    BY <1>1, UnderwayNamed
  <2>3. \A t \in Callers : ~Names(t, v.handle)'
    BY <2>2 DEF Names
  <2>. QED
    BY <2>1, <2>3 DEF Told
<1>. QED
  BY <1>1 DEF ViewInv

LEMMA ViewInitialize ==
  ASSUME IInv, ViewInv, InitializeCommon
  PROVE  ViewInv'
<1>1. CASE InitDisable
  <2>1. UNCHANGED dynamics /\ session' # 0
    BY <1>1 DEF InitDisable, IInv, TypeOK
  <2>. QED
    BY <2>1, ViewUntouched
<1>2. CASE InitClear
  <2>1. /\ dynamic' = {} /\ view' = view /\ report' = report
        /\ crossed' = Underway \cup HandlesOf(view) /\ session' # 0
    BY <1>2 DEF InitClear, IInv, Progress
  <2>. QED
    BY <2>1, ViewCleared
<1>3. CASE InitCallback
  <2>1. /\ dynamic' = dynamic /\ view' = {} /\ report' = report
        /\ crossed' = Underway \cup HandlesOf(dynamic) /\ session' # 0
    BY <1>3 DEF InitCallback, IInv, Progress
  <2>. QED
    BY <2>1, ViewCleared
<1>4. ASSUME NEW fails, InitSubHal(fails)
      PROVE  ViewInv'
  <2>1. UNCHANGED <<dynamic, report, view, crossed, session>>
    BY <1>4 DEF InitSubHal
  <2>2. \A v : Told(v)' <=> Told(v)
    BY <2>1 DEF Told, Names, Will
  <2>. QED
    BY <2>1, <2>2 DEF ViewInv
<1>5. CASE InitReturns
  BY <1>5, ViewUntouched DEF InitReturns
<1>. QED
  BY <1>1, <1>2, <1>3, <1>4, <1>5 DEF InitializeCommon

LEMMA ViewConstruct ==
  ASSUME ViewInv, Construct
  PROVE  ViewInv'
BY ViewUntouched DEF Construct, LoadLibrary, LoadedAll, LoadSensors, Constructed

LEMMA NextView ==
  ASSUME RoutingAssumption, IInv, ViewInv, [Next]_vars
  PROVE  ViewInv'
<1>1. CASE UNCHANGED vars
  BY <1>1, ViewUntouched DEF vars, dynamics
<1>2. CASE Return
  BY <1>2, ViewUntouched DEF Return
<1>3. CASE InjectBack
  BY <1>3, ViewUntouched DEF InjectBack, Inject
<1>4. CASE Ended
  BY <1>1, <1>4 DEF Ended
<1>5. CASE Construct
  BY <1>5, ViewConstruct
<1>6. CASE Framework
  <2>1. CASE GetSensorsList
    BY <2>1, ViewUntouched DEF GetSensorsList
  <2>2. ASSUME NEW h \in Given, NEW on \in BOOLEAN, Activate(h, on)
        PROVE  ViewInv'
    BY <2>2, ViewUntouched DEF Activate
  <2>3. ASSUME NEW h \in Given, NEW op \in {"batch", "flush"}, BatchOrFlush(op, h)
        PROVE  ViewInv'
    BY <2>3, ViewUntouched DEF BatchOrFlush
  <2>4. ASSUME NEW h \in Given, NEW e \in Injected, InjectMade(h, e)
        PROVE  ViewInv'
    BY <2>4, ViewUntouched DEF InjectMade, Inject
  <2>5. ASSUME NEW h \in Given, NEW stop \in BOOLEAN, ConfigDirectReport(h, stop)
        PROVE  ViewInv'
    BY <2>5, ViewUntouched DEF ConfigDirectReport
  <2>6. ASSUME NEW m \in Modes, NEW agrees \in [Loaded -> BOOLEAN], NEW goesBack \in [Loaded -> BOOLEAN],
               SetOperationMode(m, agrees, goesBack)
        PROVE  ViewInv'
    BY <2>6, ViewUntouched DEF SetOperationMode
  <2>. QED
    BY <1>6, <2>1, <2>2, <2>3, <2>4, <2>5, <2>6 DEF Framework
<1>7. CASE InitializeCommon
  BY <1>7, ViewInitialize
<1>8. ASSUME NEW hal \in Libs, SubHal(hal)
      PROVE  ViewInv'
  <2>1. ASSUME NEW t \in Callers, NEW added, OnDynamicSensorsConnected(t, hal, added)
        PROVE  ViewInv'
    BY <2>1, ViewConnected
  <2>2. ASSUME NEW t \in Callers, NEW removed, OnDynamicSensorsDisconnected(t, hal, removed)
        PROVE  ViewInv'
    BY <2>2, ViewDisconnected
  <2>3. ASSUME NEW s, NEW named, NEW type, PostEvent(hal, s, type, named)
        PROVE  ViewInv'
    BY <2>3, ViewUntouched DEF PostEvent
  <2>. QED
    BY <1>8, <2>1, <2>2, <2>3 DEF SubHal
<1>9. ASSUME NEW t \in Callers, Report(t)
      PROVE  ViewInv'
  BY <1>9, ViewReport
<1>. QED
  BY <1>1, <1>2, <1>3, <1>4, <1>5, <1>6, <1>7, <1>8, <1>9 DEF Next

\* For any sub-HALs, dynamic sensors and number of reporting threads, the framework is told
\* what mDynamicSensors holds, although it is told outside the mutex
\* (onDynamicSensorsConnected, onDynamicSensorsDisconnected): of every handle whose reports
\* have all arrived, and have overtaken neither each other nor an initialize.
THEOREM ViewFollowsMap == Spec => []ViewMatches
<1>1. RoutingAssumption
  BY RoutingAssumption
<1>2. Init => ViewInv
  BY DEF Init, ViewInv, Told, Names
<1>3. IInv /\ ViewInv /\ [Next]_vars => ViewInv'
  BY <1>1, NextView
<1>4. ViewInv => ViewMatches
  <2>1. SUFFICES ASSUME ViewInv, NEW v \in view \cup dynamic, v.handle \notin crossed \cup Underway
                 PROVE  v \in view \cap dynamic
    BY DEF ViewMatches
  <2>2. \A t \in Callers : ~Names(t, v.handle)
    BY <2>1, UnderwayNamed
  <2>3. v \in dynamic <=> v \in view
    BY <2>1, <2>2 DEF ViewInv, Told
  <2>. QED
    BY <2>1, <2>3
<1>. QED
  BY <1>2, <1>3, <1>4, Invariant, PTL DEF Spec

-----------------------------------------------------------------------------
(* The two conversions of an injected event.                               *)

\* The types of the cases, one set for each case of either switch.
CaseTypes ==
  {{"META_DATA"}, Vec3Types, {"GAME_ROTATION_VECTOR"}, RotationTypes, UncalTypes, ScalarTypes,
   {"STEP_COUNTER"}, {"HEART_RATE"}, {"POSE_6DOF"}, {"DYNAMIC_SENSOR_META"},
   {"ADDITIONAL_INFO"}, {"HEAD_TRACKER"}, PrivateTypes}

\* No type has two cases.
LEMMA CasesApart ==
  ASSUME NEW S \in CaseTypes, NEW T \in CaseTypes, NEW type \in S, type \in T
  PROVE  S = T
<1>. USE DEF CaseTypes, Vec3Types, UncalTypes, RotationTypes, ScalarTypes, PrivateTypes
<1>1. CASE type \in ScalarTypes
  BY <1>1
<1>2. CASE type \in Vec3Types
  BY <1>2
<1>3. CASE type \in UncalTypes
  BY <1>3
<1>4. CASE type \in RotationTypes
  BY <1>4
<1>5. CASE type \notin ScalarTypes /\ type \notin Vec3Types /\ type \notin UncalTypes
           /\ type \notin RotationTypes
  BY <1>5
<1>. QED
  BY <1>1, <1>2, <1>3, <1>4, <1>5

\* The types of a case are those of one of the sets.
LEMMA CasesTyped ==
  /\ \A c \in Outgoing : c.types \in CaseTypes /\ c.words \in 1..16 /\ \E t : t \in c.tags
  /\ \A d \in Incoming : d.types \in CaseTypes
  /\ \A S \in CaseTypes : \E d \in Incoming : d.types = S
<1>1. \A c \in Outgoing : c.types \in CaseTypes /\ c.words \in 1..16 /\ \E t : t \in c.tags
  BY DEF Outgoing, OutgoingCases, CaseFor, CaseTypes
<1>2. \A d \in Incoming : d.types \in CaseTypes
  BY DEF Incoming, CaseFor, CaseTypes
<1>3. \A S \in CaseTypes : \E d \in Incoming : d.types = S
  BY DEF CaseTypes, Incoming, CaseFor
<1>. QED
  BY <1>1, <1>2, <1>3

\* Cases of the same types agree on the member and the length.
LEMMA CasesAgree ==
  ASSUME NEW c \in Outgoing, NEW d \in Incoming, c.types = d.types
  PROVE  c.words = d.words /\ c.tags \subseteq d.tags
<1>. USE DEF Vec3Types, UncalTypes, RotationTypes, ScalarTypes, PrivateTypes, CaseFor
<1>1. CASE c = CaseFor({"META_DATA"}, {"meta"}, 1)
  <2>1. "META_DATA" \in d.types /\ c.words = 1 /\ c.tags = {"meta"}
    BY <1>1
  <2>. QED
    BY <2>1 DEF Incoming
<1>2. CASE c = CaseFor(Vec3Types, {"vec3"}, 4)
  <2>1. "GRAVITY" \in d.types /\ c.words = 4 /\ c.tags = {"vec3"}
    BY <1>2
  <2>. QED
    BY <2>1 DEF Incoming
<1>3. CASE c = CaseFor({"GAME_ROTATION_VECTOR"}, {"vec4"}, 4)
  <2>1. "GAME_ROTATION_VECTOR" \in d.types /\ c.words = 4 /\ c.tags = {"vec4"}
    BY <1>3
  <2>. QED
    BY <2>1 DEF Incoming
<1>4. CASE c = CaseFor(RotationTypes, {"data"}, 5)
  <2>1. "ROTATION_VECTOR" \in d.types /\ c.words = 5 /\ c.tags = {"data"}
    BY <1>4
  <2>. QED
    BY <2>1 DEF Incoming
<1>5. CASE c = CaseFor(UncalTypes, {"uncal"}, 6)
  <2>1. "GYROSCOPE_UNCALIBRATED" \in d.types /\ c.words = 6 /\ c.tags = {"uncal"}
    BY <1>5
  <2>. QED
    BY <2>1 DEF Incoming
<1>6. CASE c = CaseFor(ScalarTypes, {"scalar"}, 1)
  <2>1. "LIGHT" \in d.types /\ c.words = 1 /\ c.tags = {"scalar"}
    BY <1>6
  <2>. QED
    BY <2>1 DEF Incoming
<1>7. CASE c = CaseFor({"STEP_COUNTER"}, {"stepCount"}, 2)
  <2>1. "STEP_COUNTER" \in d.types /\ c.words = 2 /\ c.tags = {"stepCount"}
    BY <1>7
  <2>. QED
    BY <2>1 DEF Incoming
<1>8. CASE c = CaseFor({"HEART_RATE"}, {"heartRate"}, 2)
  <2>1. "HEART_RATE" \in d.types /\ c.words = 2 /\ c.tags = {"heartRate"}
    BY <1>8
  <2>. QED
    BY <2>1 DEF Incoming
<1>9. CASE c = CaseFor({"POSE_6DOF"}, {"pose6DOF"}, 15)
  <2>1. "POSE_6DOF" \in d.types /\ c.words = 15 /\ c.tags = {"pose6DOF"}
    BY <1>9
  <2>. QED
    BY <2>1 DEF Incoming
<1>10. CASE c = CaseFor({"DYNAMIC_SENSOR_META"}, {"dynamic"}, 6)
  <2>1. "DYNAMIC_SENSOR_META" \in d.types /\ c.words = 6 /\ c.tags = {"dynamic"}
    BY <1>10
  <2>. QED
    BY <2>1 DEF Incoming
<1>11. CASE c = CaseFor({"ADDITIONAL_INFO"}, {"additionalInt32"}, 16)
  <2>1. "ADDITIONAL_INFO" \in d.types /\ c.words = 16 /\ c.tags = {"additionalInt32"}
    BY <1>11
  <2>. QED
    BY <2>1 DEF Incoming
<1>12. CASE c = CaseFor({"HEAD_TRACKER"}, {"headTracker"}, 7)
  <2>1. "HEAD_TRACKER" \in d.types /\ c.words = 7 /\ c.tags = {"headTracker"}
    BY <1>12
  <2>. QED
    BY <2>1 DEF Incoming
<1>13. CASE c = CaseFor(PrivateTypes, {"data"}, 16)
  <2>1. "DEVICE_PRIVATE" \in d.types /\ c.words = 16 /\ c.tags = {"data"}
    BY <1>13
  <2>. QED
    BY <2>1 DEF Incoming
<1>. QED
  BY <1>1, <1>2, <1>3, <1>4, <1>5, <1>6, <1>7, <1>8, <1>9, <1>10, <1>11, <1>12, <1>13
     DEF Outgoing, OutgoingCases

\* The cases that CaseOf chooses on either side, for a type that the outgoing switch knows.
LEMMA CasesMeet ==
  ASSUME NEW type, HasCase(Outgoing, type)
  PROVE  LET c == CaseOf(Outgoing, type)
             d == CaseOf(Incoming, type)
         IN /\ HasCase(Incoming, type)
            /\ c.words = d.words /\ c.tags \subseteq d.tags
            /\ c.words \in 1..16
            /\ \E t : t \in c.tags
<1>. DEFINE c == CaseOf(Outgoing, type)
            d == CaseOf(Incoming, type)
<1>1. c \in Outgoing /\ type \in c.types
  BY DEF HasCase, CaseOf
<1>2. HasCase(Incoming, type)
  BY <1>1, CasesTyped DEF HasCase
<1>3. d \in Incoming /\ type \in d.types
  BY <1>2 DEF HasCase, CaseOf
<1>. HIDE DEF c, d
<1>4. c.types = d.types
  BY <1>1, <1>3, CasesTyped, CasesApart
<1>5. c.words = d.words /\ c.tags \subseteq d.tags
  BY <1>1, <1>3, <1>4, CasesAgree
<1>. QED
  BY <1>1, <1>2, <1>5, CasesTyped DEF c, d

\* An event that has gone out can come back, and keeps every word of its type.
LEMMA RoundTrip ==
  ASSUME NEW type, HasCase(Outgoing, type)
  PROVE  LET payload == ToAidl(type, FullUnion)
         IN /\ ~Aborts(type, payload)
            /\ \A w \in DOMAIN payload.words : ToHidl(type, payload)[w] = payload.words[w]
<1>. DEFINE c == CaseOf(Outgoing, type)
            d == CaseOf(Incoming, type)
            payload == ToAidl(type, FullUnion)
<1>1. /\ HasCase(Incoming, type)
      /\ c.words = d.words /\ c.tags \subseteq d.tags
      /\ c.words \in 1..16
      /\ \E t : t \in c.tags
  BY CasesMeet
<1>2. payload.tag = (CHOOSE t \in c.tags : TRUE) /\ payload.words = SubSeq(FullUnion, 1, c.words)
  BY DEF ToAidl
<1>3. ToHidl(type, payload) =
        [w \in 1..16 |-> IF w <= d.words /\ w <= Len(payload.words) THEN payload.words[w] ELSE Unset]
  BY DEF ToHidl
<1>4. Aborts(type, payload) <=> payload.tag \notin d.tags
  BY <1>1 DEF Aborts
<1>. HIDE DEF c, d, payload
<1>5. Len(payload.words) = c.words /\ DOMAIN payload.words = 1..c.words
  <2>1. PICK n \in 1..16 : c.words = n
    BY <1>1
  <2>2. \A i \in 1..n : FullUnion[i] \in Nat
    BY DEF FullUnion
  <2>3. SubSeq(FullUnion, 1, n) \in Seq(Nat) /\ Len(SubSeq(FullUnion, 1, n)) = n
    BY <2>2, SubSeqProperties
  <2>. QED
    BY <1>2, <2>1, <2>3
<1>6. payload.tag \in c.tags
  BY <1>1, <1>2
<1>7. ASSUME NEW w \in DOMAIN payload.words
      PROVE  ToHidl(type, payload)[w] = payload.words[w]
  <2>1. w \in 1..16 /\ w <= d.words /\ w <= Len(payload.words)
    BY <1>1, <1>5
  <2>. QED
    BY <1>3, <2>1
<1>8. ~Aborts(type, payload)
  BY <1>1, <1>4, <1>6
<1>. QED
  BY <1>7, <1>8 DEF payload

\* What the AIDL front gives the framework has been through the outgoing switch.
Converted == last.op = "event" /\ front = "aidl" => HasCase(Outgoing, last.type)

PayloadInv == PayloadIntact /\ Converted

LEMMA InjectBackIntact ==
  ASSUME PayloadInv, InjectBack
  PROVE  PayloadInv'
<1>. DEFINE type    == last.type
            payload == IF front = "aidl" THEN ToAidl(type, FullUnion) ELSE [words |-> FullUnion]
            u       == IF front = "aidl" THEN ToHidl(type, payload) ELSE FullUnion
<1>1. last.op = "event" /\ Inject(last.handle, type, payload, TRUE)
  BY DEF InjectBack
<1>2. \/ /\ front = "aidl" /\ Aborts(type, payload)
         /\ last' = Aborted(TRUE)
      \/ /\ last'.op = "inject"
         /\ last'.hal = None
      \/ /\ last'.op = "inject"
         /\ last'.lost = {w \in DOMAIN payload.words : u[w] # payload.words[w]}
  BY <1>1 DEF Inject
<1>3. /\ front = "aidl" => ~Aborts(type, payload)
      /\ \A w \in DOMAIN payload.words : u[w] = payload.words[w]
  <2>1. CASE front = "aidl"
    <3>1. HasCase(Outgoing, type)
      BY <1>1, <2>1 DEF PayloadInv, Converted
    <3>. QED
      BY <2>1, <3>1, RoundTrip
  <2>2. CASE front # "aidl"
    BY <2>2
  <2>. QED
    BY <2>1, <2>2
<1>. HIDE DEF payload, u
<1>4. last'.op = "inject" /\ (last'.hal = None \/ last'.lost = {})
  BY <1>2, <1>3
<1>. QED
  BY <1>4 DEF PayloadInv, PayloadIntact, Converted

\* Nothing else is about an event the framework gave back.
LEMMA NotBack ==
  ASSUME PayloadInv, front' = front, last' = last \/ last' = Nothing
  PROVE  PayloadInv'
BY DEF PayloadInv, PayloadIntact, Converted, Nothing

LEMMA InjectMadeIntact ==
  ASSUME NEW h, NEW e, InjectMade(h, e)
  PROVE  PayloadInv'
<1>. DEFINE payload == [tag |-> e.tag, words |-> FullUnion]
<1>1. Inject(h, e.type, payload, FALSE)
  BY DEF InjectMade
<1>. HIDE DEF payload
<1>2. \/ last' = Aborted(FALSE)
      \/ last'.op = "inject" /\ last'.hal = None
      \/ last'.op = "inject" /\ last'.back = FALSE
  BY <1>1 DEF Inject
<1>. QED
  BY <1>2 DEF Aborted, PayloadInv, PayloadIntact, Converted

LEMMA PostEventIntact ==
  ASSUME NEW hal, NEW s, NEW type, NEW named, PostEvent(hal, s, type, named)
  PROVE  PayloadInv'
<1>1. front' = front
  BY DEF PostEvent, built
<1>2. \/ last' = Aborted(FALSE)
      \/ last'.op = "event" /\ last'.type = type /\ (front = "aidl" => HasCase(Outgoing, type))
  BY DEF PostEvent
<1>. QED
  BY <1>1, <1>2 DEF Aborted, PayloadInv, PayloadIntact, Converted

LEMMA NextIntact ==
  ASSUME PayloadInv, [Next]_vars
  PROVE  PayloadInv'
<1>1. CASE UNCHANGED vars
  BY <1>1, NotBack DEF vars
<1>2. CASE Return
  BY <1>2, NotBack DEF Return, built
<1>3. CASE InjectBack
  BY <1>3, InjectBackIntact
<1>4. CASE Ended
  BY <1>1, <1>4 DEF Ended
<1>5. CASE Construct
  BY <1>5, NotBack DEF Construct, LoadLibrary, LoadedAll, LoadSensors, Constructed
<1>6. CASE Framework
  <2>1. CASE GetSensorsList
    BY <2>1, NotBack DEF GetSensorsList, built
  <2>2. ASSUME NEW h \in Given, NEW on \in BOOLEAN, Activate(h, on)
        PROVE  PayloadInv'
    <3>1. last'.op = "activate"
      BY <2>2 DEF Activate, Routed
    <3>. QED
      BY <3>1 DEF PayloadInv, PayloadIntact, Converted
  <2>3. ASSUME NEW h \in Given, NEW op \in {"batch", "flush"}, BatchOrFlush(op, h)
        PROVE  PayloadInv'
    <3>1. last'.op = op
      BY <2>3 DEF BatchOrFlush, Routed
    <3>. QED
      BY <3>1 DEF PayloadInv, PayloadIntact, Converted
  <2>4. ASSUME NEW h \in Given, NEW e \in Injected, InjectMade(h, e)
        PROVE  PayloadInv'
    BY <2>4, InjectMadeIntact
  <2>5. ASSUME NEW h \in Given, NEW stop \in BOOLEAN, ConfigDirectReport(h, stop)
        PROVE  PayloadInv'
    <3>1. last'.op = "direct"
      BY <2>5 DEF ConfigDirectReport
    <3>. QED
      BY <3>1 DEF PayloadInv, PayloadIntact, Converted
  <2>6. ASSUME NEW m \in Modes, NEW agrees \in [Loaded -> BOOLEAN], NEW goesBack \in [Loaded -> BOOLEAN],
               SetOperationMode(m, agrees, goesBack)
        PROVE  PayloadInv'
    BY <2>6, NotBack DEF SetOperationMode, built
  <2>. QED
    BY <1>6, <2>1, <2>2, <2>3, <2>4, <2>5, <2>6 DEF Framework
<1>7. CASE InitializeCommon
  BY <1>7, NotBack DEF InitializeCommon, InitDisable, InitClear, InitCallback, InitSubHal, InitReturns
<1>8. ASSUME NEW hal \in Libs, SubHal(hal)
      PROVE  PayloadInv'
  <2>1. ASSUME NEW t, NEW added, OnDynamicSensorsConnected(t, hal, added)
        PROVE  PayloadInv'
    BY <2>1, NotBack DEF OnDynamicSensorsConnected, built
  <2>2. ASSUME NEW t, NEW removed, OnDynamicSensorsDisconnected(t, hal, removed)
        PROVE  PayloadInv'
    BY <2>2, NotBack DEF OnDynamicSensorsDisconnected, built
  <2>3. ASSUME NEW s, NEW named, NEW type, PostEvent(hal, s, type, named)
        PROVE  PayloadInv'
    BY <2>3, PostEventIntact
  <2>. QED
    BY <1>8, <2>1, <2>2, <2>3 DEF SubHal
<1>9. ASSUME NEW t, Report(t)
      PROVE  PayloadInv'
  BY <1>9, NotBack DEF Report, built
<1>. QED
  BY <1>1, <1>2, <1>3, <1>4, <1>5, <1>6, <1>7, <1>8, <1>9 DEF Next

\* An event that either front has given the framework can be injected again: it does not
\* end the process, and its sub-HAL gets every word.  The two switches of ConvertUtils.cpp
\* know the same types, pick the same member for each and copy as many words of it
\* (convertToAidlEvent, convertToHidlEvent); a type that neither knows has ended the
\* process when it was posted, and is never given to the framework.
THEOREM InjectedIntact == Spec => []PayloadIntact
<1>1. Init => PayloadInv
  BY DEF Init, PayloadInv, PayloadIntact, Converted, Nothing
<1>2. PayloadInv /\ [Next]_vars => PayloadInv'
  BY NextIntact
<1>3. PayloadInv => PayloadIntact
  BY DEF PayloadInv
<1>. QED
  BY <1>1, <1>2, <1>3, PTL DEF Spec

=============================================================================
