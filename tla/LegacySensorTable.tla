--------------------------- MODULE LegacySensorTable ---------------------------
(***************************************************************************)
(* The tables of legacy/sensord/sensord_hwcntl.cpp.  A sensor is its index *)
(* in enum BSX4_SENSORLIST_INX, which also stands for its handle, except   *)
(* that all entries no sensor uses have the handle BSX_SENSOR_ID_INVALID.  *)
(* Of a sensor_t the reporting mode and the delays are kept, in            *)
(* microseconds.                                                           *)
(***************************************************************************)
EXTENDS Integers, Sequences

Indexes == 0..63

Entry(mode, min, max) == [mode |-> mode, minDelay |-> min, maxDelay |-> max]

\* BST_SENSOR_MINDELAY_uS is 500 unless the build asks for 100 Hz.
Fast == Entry("continuous", 500, 200000)
Slow == Entry("continuous", 40000, 200000)
OnChange == Entry("on_change", 200000, 1800000000)
EachSecond == Entry("on_change", 1000000, 1000000)
OneShot == Entry("one_shot", -1, 0)
Special == Entry("special", 0, 0)

\* UNUSED_SENSOR_T, the entries without a handle of their own.
Unused == Special
HasHandle(inx) == inx \notin {8, 17, 32, 62, 63} \cup (22..28) \cup (58..60)

\* bosch_all_sensors, in pieces.
Entries0To8 ==
  <<EachSecond, Fast, Slow, Fast, Fast, OnChange, Entry("continuous", 160000, 160000), EachSecond,
    Unused>>
Entries9To16 == <<Fast, Fast, Fast, EachSecond, EachSecond, Slow, Fast, Fast>>
Entries17To28 ==
  <<Unused, Special, OnChange, Slow, OnChange>> \o [i \in 1..7 |-> Unused]
Entries29To36 == <<EachSecond, EachSecond, EachSecond, Unused, Fast, Slow, Fast, Fast>>
Entries37To44 ==
  <<OnChange, Entry("continuous", 10000, 200000), OnChange, OnChange, Fast, Fast, Fast, OnChange>>
Entries45To52 == <<OnChange, Slow, Fast, Fast, OneShot, Special, OnChange, Slow>>
Entries53To63 ==
  <<OnChange, Special, OneShot, OneShot, OneShot, Unused, Unused, Unused, OnChange, Unused, Unused>>

AllEntries ==
  Entries0To8 \o Entries9To16 \o Entries17To28 \o Entries29To36 \o Entries37To44 \o Entries45To52
  \o Entries53To63

BoschAllSensors(inx) == AllEntries[inx + 1]

-----------------------------------------------------------------------------
(* The first configuration of each sensor, DEFAULT_SENSOR_CONFIG.  Rates   *)
(* are the codes of sensord_hwcntl.h.                                      *)

Config(rate, value, unit, len, onChange) ==
  [dataRate |-> rate, maxLatency |-> value, latencyUnit |-> unit, fifoDataLen |-> len,
   delayOnChange |-> onChange]

Off(len) == Config(0, 0, "ns", len, 0)
At50Hz(len, onChange) == Config(4, 200, "ms", len, onChange)
At1Hz(value, onChange) == Config(9, value, "ms", 2, onChange)

\* BSX_sensor_config_nonwk.
DefaultsNonWakeUp ==
  <<Off(4), At50Hz(7, 0), At50Hz(7, 0), At50Hz(7, 0), At50Hz(7, 0), At50Hz(2, 5),
    Config(7, 200, "ms", 3, 0), At1Hz(200, 5), At50Hz(2, 0), At50Hz(7, 0), At50Hz(7, 0), At50Hz(9, 0),
    At1Hz(200, 5), At1Hz(200, 5), At50Hz(6, 0), At50Hz(8, 0), At50Hz(6, 0), Off(0), Off(0),
    At50Hz(4, 5), At50Hz(9, 0), At50Hz(1, 5), Off(0), Off(0), Off(0), Off(0), Off(6), Off(6), Off(3),
    At1Hz(0, 5), At1Hz(0, 5), At1Hz(0, 5)>>

\* BSX_sensor_config_wk.
DefaultsWakeUp ==
  <<Off(0), At50Hz(7, 0), At50Hz(7, 0), At50Hz(7, 0), At50Hz(7, 0), At50Hz(2, 5), At50Hz(3, 0),
    At1Hz(200, 5), At1Hz(200, 5), At50Hz(7, 0), At50Hz(7, 0), At50Hz(9, 0), At1Hz(200, 5),
    At1Hz(200, 5), At50Hz(6, 0), At50Hz(8, 0), At50Hz(6, 0), Off(0), Off(0), At50Hz(4, 5),
    At50Hz(9, 0), At50Hz(1, 5), Off(0), Off(0), Off(0), Off(0), Off(6), Off(6), Off(0),
    Config(0, 0, "ns", 2, 5), Off(2), At1Hz(0, 0)>>

DefaultConfig(inx) == (DefaultsNonWakeUp \o DefaultsWakeUp)[inx + 1]

\* convert_BSX_ListInx finds the sensor.
HasSupplier(inx) ==
  inx \in {1, 2, 3, 4, 9, 10, 11, 14, 15, 16, 18, 19, 20, 33, 34, 35, 36, 41, 42, 43, 46, 47, 48, 49,
           51, 52, 54, 55, 56, 57, 61}

=============================================================================
