-------------------------- MODULE HalProxyRoutingMC --------------------------
(***************************************************************************)
(* An instance of HalProxyRouting for TLC: three files hals.conf, with     *)
(* libraries that cannot be used between those that can.  One names two    *)
(* vendors' libraries that both offer a direct channel, one a vendor's and *)
(* the one of this repository, which has an accelerometer with handle 1,   *)
(* and one a library that posts events of all types and reports a dynamic  *)
(* sensor with a handle that the proxy turns away.                         *)
(***************************************************************************)
EXTENDS HalProxyRouting, TLC

A(own, type, direct, wake) == [own |-> own, type |-> type, direct |-> direct, wake |-> wake]

TheLibs == {"lost", "old", "vendor", "other", "bosch", "talker"}
TheConfigs == {<<"lost", "vendor", "old", "other">>, <<"vendor", "bosch">>, <<"talker">>}
TheVersion == [l \in TheLibs |-> CASE l = "lost" -> "not_found" [] l = "old" -> "other_version"
                                   [] l = "bosch" -> "V2_0" [] OTHER -> "V2_1"]

\* Handles at both ends of what a sub-HAL may use, and just outside.
TheListed ==
  [l \in TheLibs |->
    CASE l = "vendor" -> {A(1, "HINGE_ANGLE", TRUE, TRUE), A(IndexUnit, "LIGHT", TRUE, FALSE)}
      [] l = "other" -> {A(0, "ACCELEROMETER", TRUE, FALSE)}
      [] l = "bosch" -> {A(1, "ACCELEROMETER", FALSE, FALSE)}
      [] l = "talker" -> {A(1, "LIGHT", FALSE, FALSE)}
      [] OTHER -> {}]
ThePluggable ==
  [l \in TheLibs |->
    CASE l = "vendor" -> {A(IndexUnit - 1, "DYNAMIC_SENSOR_META", FALSE, FALSE)}
      [] l = "talker" -> {A(-1, "HEAD_TRACKER", FALSE, FALSE)}
      [] OTHER -> {}]

\* The same with a dynamic wake-up sensor.
PluggableWakeUp ==
  [ThePluggable EXCEPT !["vendor"] = {A(IndexUnit - 1, "HEAD_TRACKER", FALSE, TRUE)}]
TheHandles == {-1, 3 * IndexUnit}

\* Sensorhub and driver events come besides those of the sensors.
ThePosted ==
  [l \in TheLibs |-> CASE l = "talker" -> Types
                      [] l = "bosch" -> {"META_DATA"}
                      [] OTHER -> {}]

\* One event with a payload of each kind that the switch tells apart: three words, one
\* that has two forms, one whose type has no case, and one under a tag of another type.
E(type, tag) == [type |-> type, tag |-> tag]
TheInjected == {E("ACCELEROMETER", "vec3"), E("ADDITIONAL_INFO", "additionalFloat"),
                E("TEMPERATURE", "data"), E("STEP_COUNTER", "scalar")}

CONSTANTS t1, t2
TheCallers == {t1, t2}
Symmetry == Permutations(TheCallers)

=============================================================================
