--------------------------- MODULE EventConversion ---------------------------
(***************************************************************************)
(* The conversions of the AIDL front of the multi-HAL proxy                *)
(* (multihal/aidl/ConvertUtils.cpp, HalProxyAidl.cpp).  A HIDL event has   *)
(* an untagged union u of 16 words, an AIDL event a tagged payload; each   *)
(* direction picks the member by the sensor type, in a switch of its own.  *)
(* Reading a payload by another tag than its own ends the process, and so  *)
(* does, in either direction, a type that has no case and is not private.  *)
(***************************************************************************)
EXTENDS Integers, Sequences

Vec3Types == {"ACCELEROMETER", "MAGNETIC_FIELD", "ORIENTATION", "GYROSCOPE", "GRAVITY",
              "LINEAR_ACCELERATION"}
UncalTypes == {"ACCELEROMETER_UNCALIBRATED", "MAGNETIC_FIELD_UNCALIBRATED",
               "GYROSCOPE_UNCALIBRATED"}
RotationTypes == {"ROTATION_VECTOR", "GEOMAGNETIC_ROTATION_VECTOR"}
ScalarTypes == {"DEVICE_ORIENTATION", "LIGHT", "PRESSURE", "PROXIMITY", "RELATIVE_HUMIDITY",
                "AMBIENT_TEMPERATURE", "SIGNIFICANT_MOTION", "STEP_DETECTOR", "TILT_DETECTOR",
                "WAKE_GESTURE", "GLANCE_GESTURE", "PICK_UP_GESTURE", "WRIST_TILT_GESTURE",
                "STATIONARY_DETECT", "MOTION_DETECT", "HEART_BEAT", "LOW_LATENCY_OFFBODY_DETECT",
                "HINGE_ANGLE"}

\* DEVICE_PRIVATE_BASE and above: the default case.
PrivateTypes == {"DEVICE_PRIVATE"}

\* One that HIDL has and some that only AIDL has: CHECK_GE fails in either switch.
UncasedTypes == {"TEMPERATURE", "ACCELEROMETER_LIMITED_AXES", "GYROSCOPE_LIMITED_AXES",
                 "ACCELEROMETER_LIMITED_AXES_UNCALIBRATED",
                 "GYROSCOPE_LIMITED_AXES_UNCALIBRATED", "HEADING"}

SensorTypes ==
  Vec3Types \cup UncalTypes \cup RotationTypes \cup ScalarTypes \cup PrivateTypes \cup UncasedTypes
  \cup {"META_DATA", "GAME_ROTATION_VECTOR", "STEP_COUNTER", "HEART_RATE", "POSE_6DOF",
        "DYNAMIC_SENSOR_META", "ADDITIONAL_INFO", "HEAD_TRACKER"}

\* A case of a switch: the member it reads or sets, and how many words it copies.
CaseFor(types, tags, words) == [types |-> types, tags |-> tags, words |-> words]

\* The cases of convertToAidlEvent for the types HIDL has.
OutgoingCases ==
  {CaseFor({"META_DATA"}, {"meta"}, 1),
   CaseFor(Vec3Types, {"vec3"}, 4),
   CaseFor({"GAME_ROTATION_VECTOR"}, {"vec4"}, 4),
   CaseFor(RotationTypes, {"data"}, 5),
   CaseFor(UncalTypes, {"uncal"}, 6),
   CaseFor(ScalarTypes, {"scalar"}, 1),
   CaseFor({"STEP_COUNTER"}, {"stepCount"}, 2),
   CaseFor({"HEART_RATE"}, {"heartRate"}, 2),
   CaseFor({"POSE_6DOF"}, {"pose6DOF"}, 15),
   CaseFor({"DYNAMIC_SENSOR_META"}, {"dynamic"}, 6),
   CaseFor({"ADDITIONAL_INFO"}, {"additionalInt32"}, 16)}

\* Mistaken variant: the head tracker is left to the private types.
OutgoingPlainDefault == OutgoingCases \cup {CaseFor({"HEAD_TRACKER"} \cup PrivateTypes, {"data"}, 16)}

\* convertToAidlEvent; its default case looks for HEAD_TRACKER, which HIDL has not.
Outgoing ==
  OutgoingCases \cup {CaseFor({"HEAD_TRACKER"}, {"headTracker"}, 7), CaseFor(PrivateTypes, {"data"}, 16)}

\* convertToHidlEvent; additional information arrives as integers or as floats.
Incoming ==
  {CaseFor({"META_DATA"}, {"meta"}, 1),
   CaseFor(Vec3Types, {"vec3"}, 4),
   CaseFor({"GAME_ROTATION_VECTOR"}, {"vec4"}, 4),
   CaseFor(RotationTypes, {"data"}, 5),
   CaseFor(UncalTypes, {"uncal"}, 6),
   CaseFor(ScalarTypes, {"scalar"}, 1),
   CaseFor({"STEP_COUNTER"}, {"stepCount"}, 2),
   CaseFor({"HEART_RATE"}, {"heartRate"}, 2),
   CaseFor({"POSE_6DOF"}, {"pose6DOF"}, 15),
   CaseFor({"DYNAMIC_SENSOR_META"}, {"dynamic"}, 6),
   CaseFor({"ADDITIONAL_INFO"}, {"additionalInt32", "additionalFloat"}, 16),
   CaseFor({"HEAD_TRACKER"}, {"headTracker"}, 7),
   CaseFor(PrivateTypes, {"data"}, 16)}

HasCase(cases, type) == \E c \in cases : type \in c.types

CaseOf(cases, type) == CHOOSE c \in cases : type \in c.types

\* The union of a HIDL event whose words tell each other apart.
FullUnion == [w \in 1..16 |-> w]

\* Words of the union that no case has written.
Unset == 0

ToAidl(type, u) ==
  LET c == CaseOf(Outgoing, type)
  IN [tag |-> CHOOSE t \in c.tags : TRUE, words |-> SubSeq(u, 1, c.words)]

Aborts(type, payload) ==
  ~HasCase(Incoming, type) \/ payload.tag \notin CaseOf(Incoming, type).tags

ToHidl(type, payload) ==
  LET c == CaseOf(Incoming, type)
  IN [w \in 1..16 |-> IF w <= c.words /\ w <= Len(payload.words) THEN payload.words[w] ELSE Unset]

\* resultToAStatus.
AStatus(result) ==
  CASE result = "OK" -> "ok"
    [] result = "PERMISSION_DENIED" -> "EX_SECURITY"
    [] result = "NO_MEMORY" -> "ERROR_NO_MEMORY"
    [] result = "BAD_VALUE" -> "EX_ILLEGAL_ARGUMENT"
    [] result = "INVALID_OPERATION" -> "EX_UNSUPPORTED_OPERATION"
    [] OTHER -> "EX_TRANSACTION_FAILED"

=============================================================================
