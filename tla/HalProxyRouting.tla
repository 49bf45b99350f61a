--------------------------- MODULE HalProxyRouting ---------------------------
(***************************************************************************)
(* How the multi-HAL proxy finds the sub-HAL of a sensor, and keeps the    *)
(* sub-HALs in one mode (multihal/2.X/HalProxy.cpp, HalProxyCallback.cpp,  *)
(* multihal/aidl/HalProxyAidl.cpp).  The first byte of a sensor handle is  *)
(* the index of the sub-HAL; the proxy puts it in front of every handle a  *)
(* sub-HAL gives it and takes it off again for every call.                 *)
(*                                                                         *)
(* Calls of the framework come from the one binder thread, so each is one  *)
(* action, but for initialize, whose steps sub-HALs may call in between.   *)
(* Sub-HALs report dynamic sensors and post events from threads of their   *)
(* own, as many as they like; a report changes mDynamicSensors under the   *)
(* mutex and tells the framework after it, in a second step (Report), so   *)
(* that reports can overtake each other.                                   *)
(*                                                                         *)
(* Sub-HALs are libraries of any vendor.  Those in Bosch answer as         *)
(* multihal/SensorsSubHal.cpp does, the others as they like.               *)
(***************************************************************************)
EXTENDS EventConversion, FiniteSets

CONSTANTS
  Libs,         \* names of shared libraries
  None,         \* no library
  Configs,      \* what hals.conf may be: sequences of library names
  Version,      \* what dlopen, dlsym and the entry point of a library give
  Listed,       \* the sensors each sub-HAL's getSensorsList gives
  Pluggable,    \* the dynamic sensors each sub-HAL may report
  Posted,       \* the types of events each sub-HAL posts besides those of its sensors
  Bosch,        \* the libraries that are built from this repository
  Callers,      \* the threads that sub-HALs report dynamic sensors from
  Fronts,       \* the interfaces the process may serve
  Handles,      \* handles the framework tries besides those it was given
  Injected,     \* events the framework makes up: a type and the tag of a payload
  MaxSessions   \* bound on the number of initialize calls

IndexUnit == 16777216    \* 1 << kBitsAfterSubHalIndex

Types == SensorTypes
Modes == {"NORMAL", "DATA_INJECTION"}

\* A sensor as its sub-HAL describes it.
OwnSensor == [own : Int, type : Types, direct : BOOLEAN, wake : BOOLEAN]

ASSUME RoutingAssumption ==
  /\ None \notin Libs
  /\ Configs \subseteq Seq(Libs)
  /\ \A c \in Configs : Len(c) <= 128 /\ \A i, j \in DOMAIN c : c[i] = c[j] => i = j
  /\ Version \in [Libs -> {"V2_0", "V2_1", "other_version", "no_entry_point", "not_found"}]
  /\ Listed \in [Libs -> SUBSET OwnSensor]
  /\ Pluggable \in [Libs -> SUBSET OwnSensor]
  /\ \A l \in Libs : \A s, t \in Listed[l] \cup Pluggable[l] : s.own = t.own => s = t
  /\ Posted \in [Libs -> SUBSET Types]
  /\ Bosch \subseteq Libs
  /\ Fronts \subseteq {"V2_0", "V2_1", "aidl"}
  /\ Handles \subseteq Int
  /\ Injected \subseteq [type : Types, tag : STRING]
  /\ MaxSessions \in Nat

VARIABLES
  config,      \* hals.conf
  phase,       \* of the constructor: "libraries", "lists", "ready"; of initialize: "disabled",
               \* "cleared", "subhals", and "ready" again
  next,        \* the next line of the configuration, or sub-HAL to be asked or initialized
  front,       \* which interface the process serves: "V2_0", "V2_1" or "aidl"
  halList,     \* mSubHalList
  sensors,     \* mSensors
  channelHal,  \* mDirectChannelSubHal
  dynamic,     \* mDynamicSensors
  mode,        \* mCurrentOperationMode
  halMode,     \* the mode each sub-HAL is in
  strayed,     \* history: sub-HALs that refused a rollback or failed to initialize
  enabled,     \* sensors their sub-HAL has enabled
  plugged,     \* the dynamic sensors each sub-HAL has
  report,      \* what each caller is about to tell the framework
  view,        \* the dynamic sensors the framework believes in
  crossed,     \* history: handles whose last reports crossed each other, or an initialize
  known,       \* history: every sensor the framework has been told of
  session,     \* number of initialize calls
  last         \* what the last step asked of a sub-HAL, or gave the framework

vars == <<config, phase, next, front, halList, sensors, channelHal, dynamic, mode, halMode, strayed,
          enabled, plugged, report, view, crossed, known, session, last>>

built == <<config, phase, next, front, halList>>
modes == <<mode, halMode, strayed>>
dynamics == <<dynamic, plugged, report, view, crossed>>

-----------------------------------------------------------------------------
(* Handles.                                                                *)

\* The bits of a and of b, each less than 256.
OrByte(a, b) ==
  LET bit(w) == IF (a \div w) % 2 = 1 \/ (b \div w) % 2 = 1 THEN w ELSE 0
  IN bit(1) + bit(2) + bit(4) + bit(8) + bit(16) + bit(32) + bit(64) + bit(128)

\* The handle, as a signed number, with the first byte and the rest that are given.
Joined(byte, rest) == (IF byte < 128 THEN byte ELSE byte - 256) * IndexUnit + rest

\* setSubHalIndex: the index, from 0, is ored into whatever the first byte holds.
SetSubHalIndex(own, index) ==
  IF 0 <= own /\ own < IndexUnit THEN own + index * IndexUnit
  ELSE Joined(OrByte((own \div IndexUnit) % 256, index), own % IndexUnit)

\* extractSubHalIndex: an arithmetic shift; a negative result is a huge size_t.
ExtractSubHalIndex(handle) == handle \div IndexUnit

ClearSubHalIndex(handle) == handle % IndexUnit

\* Mistaken variant: any first byte is taken for a clear one.
AnyIndexIsClear(handle) == TRUE

SubHalIndexIsClear(handle) == 0 <= handle /\ handle < IndexUnit

IsSubHalIndexValid(handle) == ExtractSubHalIndex(handle) \in 0..(Len(halList) - 1)

GetSubHalForSensorHandle(handle) == halList[ExtractSubHalIndex(handle) + 1]

\* Mistaken variant: the index counts the lines of hals.conf.
ProxySensorByLine(s, i, direct) ==
  LET line == CHOOSE c \in DOMAIN config : config[c] = halList[i]
  IN [handle |-> SetSubHalIndex(s.own, line - 1), hal |-> halList[i], own |-> s.own,
      type |-> s.type, direct |-> direct, wake |-> s.wake]

\* A sensor as the proxy keeps it; hal and own stand for the rest of its SensorInfo.
ProxySensor(s, i, direct) ==
  [handle |-> SetSubHalIndex(s.own, i - 1), hal |-> halList[i], own |-> s.own, type |-> s.type,
   direct |-> direct, wake |-> s.wake]

\* The entry that operator[] makes for a handle it does not find; its SensorInfo is all
\* zero, the handle in it as well.
EmptyEntry(handle) ==
  [handle |-> handle, hal |-> None, own |-> 0, type |-> "META_DATA", direct |-> FALSE,
   wake |-> FALSE]

HandlesOf(infos) == {s.handle : s \in infos}

\* What the framework learns of a sensor: which handle leads to which sensor.
Facts(infos) ==
  {[handle |-> IF s.hal = None THEN 0 ELSE s.handle, hal |-> s.hal, own |-> s.own] : s \in infos}

Nothing == [op |-> "none"]

\* A failed CHECK has ended the process; back: over an event the framework gave back.
Aborted(back) == [op |-> "aborted", back |-> back]

\* The proxy has been initialized, and the binder thread is free.
Callable == phase = "ready" /\ session > 0

-----------------------------------------------------------------------------
(* The constructor.                                                        *)

\* initializeSubHalListFromConfigFile, one line; libraries that cannot be opened,
\* have no entry point or another version are left out.
LoadLibrary ==
  /\ phase = "libraries"
  /\ next <= Len(config)
  /\ next' = next + 1
  /\ halList' = IF Version[config[next]] \in {"V2_0", "V2_1"} THEN Append(halList, config[next])
                                                             ELSE halList
  /\ UNCHANGED <<config, phase, front, sensors, channelHal, enabled, known, session, last, modes, dynamics>>

LoadedAll ==
  /\ phase = "libraries"
  /\ next > Len(config)
  /\ phase' = "lists"
  /\ next' = 1
  /\ UNCHANGED <<config, front, halList, sensors, channelHal, enabled, known, session, last, modes,
                 dynamics>>

\* Mistaken variant: the last one owns it.
LastDirectOwner(infos, hal) == IF \E s \in infos : s.direct THEN hal ELSE channelHal

\* setDirectChannelFlags: the first sub-HAL with a direct channel owns it, the
\* sensors of the others lose their flags.
DirectOwner(infos, hal) ==
  IF channelHal = None /\ \E s \in infos : s.direct THEN hal ELSE channelHal

\* initializeSensorList, one sub-HAL.
LoadSensors ==
  /\ phase = "lists"
  /\ next <= Len(halList)
  /\ next' = next + 1
  /\ LET infos == {s \in Listed[halList[next]] : SubHalIndexIsClear(s.own)}
         owner == DirectOwner(infos, halList[next])
     IN /\ channelHal' = owner
        /\ sensors' = sensors \cup
             {ProxySensor(s, next, s.direct /\ owner = halList[next]) : s \in infos}
  /\ UNCHANGED <<config, phase, front, halList, enabled, known, session, last, modes, dynamics>>

Constructed ==
  /\ phase = "lists"
  /\ next > Len(halList)
  /\ phase' = "ready"
  /\ UNCHANGED <<config, next, front, halList, sensors, channelHal, enabled, known, session, last, modes,
                 dynamics>>

-----------------------------------------------------------------------------
(* Calls of the framework.  What a call led to is in last until it returns. *)

\* The sensors a sub-HAL has at the moment, by their own handles.
Has(hal, own) == own \in {s.own : s \in Listed[hal] \cup plugged[hal]}

Answer(result) == IF front = "aidl" THEN AStatus(result) ELSE result

\* What a sub-HAL makes of a call for one of its sensors (ISensorsSubHalBase).
HalAnswer(op, hal, own) ==
  CASE op = "flush" /\ <<hal, own>> \notin enabled -> "BAD_VALUE"
    [] op = "inject" /\ hal \in Bosch -> "INVALID_OPERATION"
    [] OTHER -> "OK"

\* A call that is routed by its handle, to a sub-HAL that knows its own sensors.
Routed(op, handle) ==
  LET hal == IF IsSubHalIndexValid(handle) THEN GetSubHalForSensorHandle(handle) ELSE None
      own == ClearSubHalIndex(handle)
  IN [op |-> op, hal |-> hal, own |-> own,
      answer |-> Answer(IF hal # None /\ Has(hal, own) THEN HalAnswer(op, hal, own)
                                                       ELSE "BAD_VALUE")]

Given == Handles \cup HandlesOf(known)

\* getSensorsList and getSensorsList_2_1, with the empty entries; HIDL 2.0 does not know
\* the hinge angle.
GetSensorsList ==
  /\ phase = "ready"
  /\ known' = known \cup Facts({s \in sensors : front = "V2_0" => s.type # "HINGE_ANGLE"})
  /\ UNCHANGED <<sensors, channelHal, enabled, session, last, built, modes, dynamics>>

\* activate.
Activate(handle, on) ==
  LET call   == Routed("activate", handle)
      sensor == IF call.hal # None /\ Has(call.hal, call.own) THEN {<<call.hal, call.own>>} ELSE {}
  IN /\ Callable
     /\ enabled' = IF on THEN enabled \cup sensor ELSE enabled \ sensor
     /\ last' = call
     /\ UNCHANGED <<sensors, channelHal, known, session, built, modes, dynamics>>

\* batch and flush.
BatchOrFlush(op, handle) ==
  /\ Callable
  /\ last' = Routed(op, handle)
  /\ UNCHANGED <<sensors, channelHal, enabled, known, session, built, modes, dynamics>>

MayInject(type) == mode # "NORMAL" \/ type = "ADDITIONAL_INFO"

\* injectSensorData; the AIDL front converts the event before it looks at the mode.
Inject(handle, type, payload, back) ==
  LET aidl == front = "aidl"
      u    == IF aidl THEN ToHidl(type, payload) ELSE FullUnion
      call == Routed("inject", handle)
  IN /\ Callable
     /\ last' = IF aidl /\ Aborts(type, payload) THEN Aborted(back)
                ELSE IF ~MayInject(type)
                THEN [op |-> "inject", hal |-> None, answer |-> Answer("BAD_VALUE")]
                ELSE [op |-> "inject", hal |-> call.hal, answer |-> call.answer,
                      sample |-> type # "ADDITIONAL_INFO", back |-> back,
                      lost |-> {w \in DOMAIN payload.words : u[w] # payload.words[w]}]
     /\ UNCHANGED <<sensors, channelHal, enabled, known, session, built, modes, dynamics>>

\* The framework injects an event it has made up.
InjectMade(handle, e) ==
  Inject(handle, e.type, [tag |-> e.tag, words |-> FullUnion], FALSE)

\* The framework injects the event it has just been given.
InjectBack ==
  /\ last.op = "event"
  /\ Inject(last.handle, last.type,
            IF front = "aidl" THEN ToAidl(last.type, FullUnion) ELSE [words |-> FullUnion], TRUE)

\* What a sub-HAL may answer to setOperationMode.
Answers(hal, m) == IF hal \in Bosch THEN {m = "NORMAL"} ELSE BOOLEAN

Loaded == {halList[i] : i \in DOMAIN halList}

\* The sub-HALs before the first that refuses.
Flipped(agrees) ==
  {halList[i] : i \in {j \in DOMAIN halList : \A k \in 1..j : agrees[halList[k]]}}

\* Mistaken variant: the sub-HALs that had agreed stay in the new mode.
SetModeNoRollback(m, agrees, goesBack) ==
  /\ Callable
  /\ mode' = IF Flipped(agrees) = Loaded THEN m ELSE mode
  /\ halMode' = [h \in Libs |-> IF h \in Flipped(agrees) THEN m ELSE halMode[h]]
  /\ strayed' = strayed \ Flipped(agrees)
  /\ UNCHANGED <<sensors, channelHal, enabled, known, session, last, built, dynamics>>

\* setOperationMode: when one refuses, those before it are set back, and their
\* answers are not looked at.
SetOperationMode(m, agrees, goesBack) ==
  LET stuck == {h \in Flipped(agrees) : ~goesBack[h]}
  IN /\ Callable
     /\ IF Flipped(agrees) = Loaded
        THEN /\ mode' = m
             /\ halMode' = [h \in Libs |-> IF h \in Loaded THEN m ELSE halMode[h]]
             /\ strayed' = {}
        ELSE /\ mode' = mode
             /\ halMode' = [h \in Libs |-> IF h \notin Flipped(agrees) THEN halMode[h]
                                           ELSE IF h \in stuck THEN m ELSE mode]
             /\ strayed' = (strayed \ Flipped(agrees)) \cup stuck
     /\ UNCHANGED <<sensors, channelHal, enabled, known, session, last, built, dynamics>>

\* configDirectReport; registerDirectChannel and unregisterDirectChannel go to the
\* same sub-HAL.  -1 stands for all sensors and is only good for stopping.
ConfigDirectReport(handle, stop) ==
  /\ Callable
  /\ last' =
       IF channelHal = None
       THEN [op |-> "direct", hal |-> None, answer |-> Answer("INVALID_OPERATION")]
       ELSE IF handle = -1 /\ ~stop
       THEN [op |-> "direct", hal |-> None, answer |-> Answer("BAD_VALUE")]
       ELSE [op |-> "direct", hal |-> channelHal, handle |-> handle,
             own |-> IF handle = -1 THEN -1 ELSE ClearSubHalIndex(handle), answer |-> Answer("OK")]
  /\ UNCHANGED <<sensors, channelHal, enabled, known, session, built, modes, dynamics>>

\* Mistaken variant: the dynamic sensors are forgotten.
DisabledListed == HandlesOf(sensors)

\* disableAllSensors: which sensors it calls activate for.
DisabledAll == HandlesOf(sensors \cup dynamic)

-----------------------------------------------------------------------------
(* initializeCommon.  Sub-HALs with a callback may use it between the steps. *)

\* The handles that reports under way are about.
Underway == UNION {HandlesOf(report[t].infos) : t \in {c \in Callers : report[c] # Nothing}}

\* stopThreads and disableAllSensors.
InitDisable ==
  /\ phase = "ready"
  /\ session < MaxSessions
  /\ session' = session + 1
  /\ phase' = "disabled"
  /\ enabled' = enabled \ {<<GetSubHalForSensorHandle(h), ClearSubHalIndex(h)>> :
                              h \in {g \in DisabledAll : IsSubHalIndexValid(g)}}
  /\ UNCHANGED <<config, next, front, halList, sensors, channelHal, known, last, modes, dynamics>>

\* The queue and, without its mutex, the table of dynamic sensors are cleared.
InitClear ==
  /\ phase = "disabled"
  /\ phase' = "cleared"
  /\ dynamic' = {}
  /\ crossed' = Underway \cup HandlesOf(view)
  /\ UNCHANGED <<config, next, front, halList, sensors, channelHal, enabled, plugged, report, view,
                 known, session, last, modes>>

\* The framework's new callback has not heard of any dynamic sensor.  Then the threads
\* run again.
InitCallback ==
  /\ phase = "cleared"
  /\ phase' = "subhals"
  /\ next' = 1
  /\ view' = {}
  /\ crossed' = Underway \cup HandlesOf(dynamic)
  /\ UNCHANGED <<config, front, halList, sensors, channelHal, enabled, dynamic, plugged, report,
                 known, session, last, modes>>

\* initialize of one sub-HAL, which then has its callback, and reports its dynamic sensors
\* again.  One that fails may stay in its mode; the proxy takes it to be in mode NORMAL.
InitSubHal(fails) ==
  LET hal == halList[next]
  IN /\ phase = "subhals"
     /\ next <= Len(halList)
     /\ fails => hal \notin Bosch
     /\ next' = next + 1
     /\ plugged' = [plugged EXCEPT ![hal] = {}]
     /\ halMode' = IF fails THEN halMode ELSE [halMode EXCEPT ![hal] = "NORMAL"]
     /\ strayed' = IF fails THEN strayed \cup {hal} ELSE strayed \ {hal}
     /\ UNCHANGED <<config, phase, front, halList, sensors, channelHal, enabled, dynamic, report,
                    view, crossed, known, session, last, mode>>

InitReturns ==
  /\ phase = "subhals"
  /\ next > Len(halList)
  /\ phase' = "ready"
  /\ mode' = "NORMAL"
  /\ UNCHANGED <<config, next, front, halList, sensors, channelHal, enabled, known, session, last,
                 halMode, strayed, dynamics>>

-----------------------------------------------------------------------------
(* Callbacks of the sub-HALs.                                              *)

Index(hal) == CHOOSE i \in DOMAIN halList : halList[i] = hal

\* The sub-HAL has been initialized at least once: it has a callback.
Started(hal) ==
  \E i \in DOMAIN halList :
    /\ halList[i] = hal
    /\ \/ session > 1
       \/ session = 1 /\ (phase = "ready" \/ (phase = "subhals" /\ i < next))

\* areThreadsRunning.
Running == session > 0 /\ phase \in {"ready", "subhals"}

\* onDynamicSensorsConnected, under mDynamicSensorsMutex.  A handle already in the
\* map is overwritten.
OnDynamicSensorsConnected(t, hal, added) ==
  LET infos == {ProxySensor(s, Index(hal), s.direct) :
                  s \in {a \in added : SubHalIndexIsClear(a.own)}}
  IN /\ Started(hal)
     /\ report[t] = Nothing
     /\ plugged' = [plugged EXCEPT ![hal] = @ \cup added]
     /\ dynamic' = {d \in dynamic : d.handle \notin HandlesOf(infos)} \cup infos
     /\ report' = [report EXCEPT ![t] = [op |-> "connected", infos |-> infos]]
     /\ crossed' = (crossed \ HandlesOf(infos)) \cup (HandlesOf(infos) \cap Underway)
     /\ UNCHANGED <<sensors, channelHal, enabled, view, known, session, last, built, modes>>

\* Mistaken variant: the sensors are reported gone, but stay in the map.
DisconnectKeepsEntry(t, hal, removed) ==
  LET handles == {SetSubHalIndex(s.own, Index(hal) - 1) :
                    s \in {r \in removed : SubHalIndexIsClear(r.own)}}
      infos   == {d \in dynamic : d.handle \in handles}
  IN /\ Started(hal)
     /\ report[t] = Nothing
     /\ plugged' = [plugged EXCEPT ![hal] = @ \ removed]
     /\ enabled' = enabled \ {<<hal, s.own>> : s \in removed}
     /\ dynamic' = dynamic
     /\ report' = [report EXCEPT ![t] = [op |-> "disconnected", infos |-> infos]]
     /\ crossed' = (crossed \ HandlesOf(infos)) \cup (HandlesOf(infos) \cap Underway)
     /\ UNCHANGED <<sensors, channelHal, view, known, session, last, built, modes>>

\* onDynamicSensorsDisconnected, under the mutex.  What is not in the map is not
\* passed on.
OnDynamicSensorsDisconnected(t, hal, removed) ==
  LET handles == {SetSubHalIndex(s.own, Index(hal) - 1) :
                    s \in {r \in removed : SubHalIndexIsClear(r.own)}}
      infos   == {d \in dynamic : d.handle \in handles}
  IN /\ Started(hal)
     /\ report[t] = Nothing
     /\ plugged' = [plugged EXCEPT ![hal] = @ \ removed]
     /\ enabled' = enabled \ {<<hal, s.own>> : s \in removed}
     /\ dynamic' = dynamic \ infos
     /\ report' = [report EXCEPT ![t] = [op |-> "disconnected", infos |-> infos]]
     /\ crossed' = (crossed \ HandlesOf(infos)) \cup (HandlesOf(infos) \cap Underway)
     /\ UNCHANGED <<sensors, channelHal, view, known, session, last, built, modes>>

\* The callback of the framework, after the mutex.
Report(t) ==
  LET infos == report[t].infos
      rest  == {v \in view : v.handle \notin HandlesOf(infos)}
  IN /\ report[t] # Nothing
     /\ report' = [report EXCEPT ![t] = Nothing]
     /\ IF report[t].op = "connected"
        THEN view' = rest \cup infos /\ known' = known \cup Facts(infos)
        ELSE view' = rest /\ known' = known
     /\ UNCHANGED <<sensors, channelHal, enabled, dynamic, plugged, crossed, session, last, built,
                    modes>>

\* postEvents and processEvents, for one event.  The index goes into whatever handle the
\* event has, and into the one that an event about dynamic sensors names.  getSensorInfo
\* looks the handle up in mSensors with operator[], which makes an entry for one that is
\* not there.  The AIDL front converts the event.
PostEvent(hal, s, type, named) ==
  LET Handle(own) == SetSubHalIndex(own, Index(hal) - 1)
      found == {t \in sensors : t.handle = Handle(s.own)}
      info  == IF found = {} THEN EmptyEntry(Handle(s.own)) ELSE CHOOSE t \in found : TRUE
      owns  == IF type = "DYNAMIC_SENSOR_META" THEN {s.own, named.own} ELSE {s.own}
  IN /\ Started(hal)
     /\ Running
     /\ hal \in Bosch => <<hal, s.own>> \in enabled
     /\ type \in {s.type} \cup Posted[hal]
     /\ sensors' = sensors \cup {info}
     /\ last' = IF front = "aidl" /\ ~HasCase(Outgoing, type) THEN Aborted(FALSE)
                ELSE [op |-> "event", hal |-> hal, handle |-> Handle(s.own), type |-> type,
                      told |-> {[handle |-> Handle(own), own |-> own] : own \in owns},
                      counted |-> info.wake, locked |-> s.wake]
     /\ UNCHANGED <<channelHal, enabled, known, session, built, modes, dynamics>>

-----------------------------------------------------------------------------

Init ==
  /\ config \in Configs
  /\ front \in Fronts
  /\ phase = "libraries" /\ next = 1 /\ halList = <<>>
  /\ sensors = {} /\ channelHal = None
  /\ mode = "NORMAL" /\ halMode = [h \in Libs |-> "NORMAL"] /\ strayed = {}
  /\ enabled = {}
  /\ dynamic = {} /\ plugged = [h \in Libs |-> {}] /\ report = [t \in Callers |-> Nothing]
  /\ view = {} /\ crossed = {}
  /\ known = {} /\ session = 0 /\ last = Nothing

Construct == LoadLibrary \/ LoadedAll \/ LoadSensors \/ Constructed

Framework ==
  \/ GetSensorsList
  \/ \E h \in Given :
       \/ \E on \in BOOLEAN : Activate(h, on)
       \/ \E op \in {"batch", "flush"} : BatchOrFlush(op, h)
       \/ \E e \in Injected : InjectMade(h, e)
       \/ \E stop \in BOOLEAN : ConfigDirectReport(h, stop)
  \/ \E m \in Modes, agrees, goesBack \in [Loaded -> BOOLEAN] :
       /\ \A h \in Loaded : agrees[h] \in Answers(h, m) /\ goesBack[h] \in Answers(h, mode)
       /\ SetOperationMode(m, agrees, goesBack)

InitializeCommon ==
  InitDisable \/ InitClear \/ InitCallback \/ InitReturns \/ \E fails \in BOOLEAN : InitSubHal(fails)

SubHal(hal) ==
  \/ \E t \in Callers, added \in SUBSET (Pluggable[hal] \ plugged[hal]) :
       added # {} /\ OnDynamicSensorsConnected(t, hal, added)
  \/ \E t \in Callers, removed \in SUBSET plugged[hal] :
       removed # {} /\ OnDynamicSensorsDisconnected(t, hal, removed)
  \/ \E s, named \in Listed[hal] \cup plugged[hal], type \in Types : PostEvent(hal, s, type, named)

\* The call, or the callback, that left its mark in last has returned.
Return == last.op \notin {"none", "aborted"} /\ last' = Nothing
          /\ UNCHANGED <<sensors, channelHal, enabled, known, session, built, modes, dynamics>>

\* The process has ended.
Ended == last.op = "aborted" /\ UNCHANGED vars

Next ==
  \/ Return
  \/ InjectBack
  \/ Ended
  \/ /\ last = Nothing
     /\ \/ Construct
        \/ Framework
        \/ InitializeCommon
        \/ \E hal \in Libs : SubHal(hal)
        \/ \E t \in Callers : Report(t)

Spec == Init /\ [][Next]_vars

-----------------------------------------------------------------------------
(* Properties.                                                             *)

MaxInt32 == 2147483647

Int32 == (-MaxInt32 - 1)..MaxInt32

ProxySensors ==
  [handle : Int32, hal : Libs \cup {None}, own : Int, type : Types, direct : BOOLEAN, wake : BOOLEAN]

Reports == [op : {"connected", "disconnected"}, infos : SUBSET ProxySensors]

KnownSensors == [handle : Int32, hal : Libs \cup {None}, own : Int]

\* The variables keep their types, handles stay within 32 bits, and the proxy's tables
\* hold no two entries for one handle, as maps do.
TypeOK ==
  /\ config \in Configs
  /\ phase \in {"libraries", "lists", "ready", "disabled", "cleared", "subhals"}
  /\ next \in Nat \ {0}
  /\ front \in Fronts
  /\ halList \in Seq(Libs)
  /\ sensors \subseteq ProxySensors
  /\ channelHal \in Libs \cup {None}
  /\ dynamic \subseteq ProxySensors
  /\ mode \in Modes
  /\ halMode \in [Libs -> Modes]
  /\ strayed \subseteq Libs
  /\ enabled \subseteq Libs \X Int
  /\ plugged \in [Libs -> SUBSET OwnSensor]
  /\ report \in [Callers -> {Nothing} \cup Reports]
  /\ view \subseteq ProxySensors
  /\ crossed \subseteq Int32
  /\ known \subseteq KnownSensors
  /\ session \in Nat
  /\ \A s, t \in sensors : s.handle = t.handle => s = t
  /\ \A s, t \in dynamic : s.handle = t.handle => s = t

\* A call for the handle goes to the sub-HAL and, there, to the handle that are given.
Leads(handle, hal, own) ==
  /\ IsSubHalIndexValid(handle)
  /\ GetSubHalForSensorHandle(handle) = hal
  /\ ClearSubHalIndex(handle) = own

\* Every handle the framework was given with a sensor, by a list or by a report of
\* dynamic sensors, leads back to the sub-HAL it came from and to that sub-HAL's own
\* handle (getSubHalForSensorHandle, clearSubHalIndex).  So do the handles in an event,
\* which processEvents does not look at, for the handles sub-HALs are to use: those with
\* a clear first byte (V2_0/SubHal.h:97-100).  So does configDirectReport, which does not
\* look at the index, for every listed sensor that kept its direct channel flags
\* (setDirectChannelFlags).  Left out are the empty entries of the list, which name no
\* sensor.
RoutedHome ==
  /\ \A k \in known : k.hal # None => Leads(k.handle, k.hal, k.own)
  /\ last.op = "event" =>
       \A t \in last.told : SubHalIndexIsClear(t.own) => Leads(t.handle, last.hal, t.own)
  /\ last.op = "direct" /\ last.hal # None =>
       \A s \in sensors : s.direct /\ s.handle = last.handle =>
         last.hal = s.hal /\ last.own = s.own

\* Injected samples reach only sub-HALs that are in mode DATA_INJECTION, whatever
\* became of earlier calls of setOperationMode (injectSensorData trusts
\* mCurrentOperationMode); left out are sub-HALs that refused to go back.
InjectionReachesInjecting ==
  last.op = "inject" /\ last.hal # None /\ last.sample =>
    halMode[last.hal] = "DATA_INJECTION" \/ last.hal \in strayed

\* An event that the front has given the framework can be injected again: the process
\* survives it, and a sub-HAL gets it word for word (the two switches of ConvertUtils.cpp,
\* convertToAidlEvent and convertToHidlEvent).  The types without a case never get
\* that far: they end the process when they are posted.
PayloadIntact ==
  /\ last.op = "aborted" => ~last.back
  /\ last.op = "inject" /\ last.hal # None /\ last.back => last.lost = {}

\* The framework believes in exactly the dynamic sensors of mDynamicSensors, although it
\* is told after the mutex was given up, and by several threads: for every handle that no
\* report under way is about, and whose reports did not overtake each other or initialize
\* (mDynamicSensorsMutex, HalProxy.h:224).
ViewMatches ==
  \A v \in view \cup dynamic : v.handle \notin crossed \cup Underway => v \in view \cap dynamic

\* The same of any handle that no report under way is about: threads that report at the
\* same time are synchronized (V2_0/SubHal.h:41-44).
ViewMatchesAlways ==
  \A v \in view \cup dynamic : v.handle \notin Underway => v \in view \cap dynamic

\* The entries of the list are those of sub-HALs' sensors (HalProxy.h:170-173).
ListNamesSensors == \A k \in known : k.hal # None

\* From disableAllSensors until initialize returns no sensor is enabled, listed or
\* dynamic, whatever sub-HALs report in between: what the clearing of the queues and the
\* start of the threads rely on.
InitializeQuiets == phase \in {"disabled", "cleared", "subhals"} => enabled = {}

\* A sub-HAL that locks the ScopedWakelock for the event of a wake-up sensor, and
\* only then, is in accord with the assertions of HalProxyCallbackBase::postEvents.
CompliantPostAccepted == last.op = "event" => last.counted = last.locked

=============================================================================
