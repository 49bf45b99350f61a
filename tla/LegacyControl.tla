----------------------------- MODULE LegacyControl -----------------------------
(***************************************************************************)
(* Opening, closing and configuring the legacy HAL: hal/sensors.cpp,       *)
(* hal/BoschSensor.cpp, and the functions of sensord_hwcntl.cpp and        *)
(* sensord_hwcntl_implement.cpp that the calls of the framework lead to.   *)
(*                                                                         *)
(* The device is a singleton.  Its sensor list, the configuration of the   *)
(* sensors, the references to the active ones and the sampling interval    *)
(* are static: they outlive the device, and are set anew only when the     *)
(* process starts.  Closing the device frees the list and leaves its       *)
(* length and its pointers as they are.                                    *)
(*                                                                         *)
(* Times are in microseconds (the code has nanoseconds), rates in          *)
(* hundredths of a Hertz.  The threads a device runs are in LegacyPipeline *)
(* and read nothing of this but the sampling interval.                     *)
(***************************************************************************)
EXTENDS LegacySensorTable

CONSTANTS
  Handles,     \* handles the framework uses: indexes, or INVALID
  INVALID,     \* BSX_SENSOR_ID_INVALID
  Periods,     \* sampling periods it asks for
  Latencies    \* report latencies it asks for

ASSUME ControlAssumption ==
  /\ INVALID \notin Indexes
  /\ Handles \subseteq Indexes \cup {INVALID}
  /\ Periods \subseteq Nat
  /\ Latencies \subseteq Nat

ACCELEROMETER == 1
GYROSCOPE_UNCALIBRATED == 16
STEP_COUNTER == 19

\* Mistaken variant: the step counter is offered, too.
AvailableWithSteps == {ACCELEROMETER, GYROSCOPE_UNCALIBRATED, STEP_COUNTER}

\* avail_sens_regval of ap_get_sensorlist, and the entries the loop copies.
Available == {ACCELEROMETER, GYROSCOPE_UNCALIBRATED}

\* Which of the two arrays of references a sensor is in.
Kinds == {"nonwk", "wk"}
Kind(inx) == IF inx <= 31 THEN "nonwk" ELSE "wk"

VARIABLES
  instance,  \* BoschSensor::instance: "none", how far its constructor came, or "dead"
  list,      \* bosch_sensorlist: "none", "abandoned" (list freed, length 0), "live" or "freed"
  config,    \* BSX_sensor_config_nonwk and BSX_sensor_config_wk
  active,    \* BSX_active_confref_nonwk, _wk up to the first NULL; the counts are their lengths
  interval,  \* sampling_interval
  on,        \* history: the framework has activated the accelerometer
  asked      \* history: the period it has asked for

vars == <<instance, list, config, active, interval, on, asked>>

statics == <<config, active, interval>>

-----------------------------------------------------------------------------
(* Codes.                                                                  *)

\* 1000000 / period > rate, for a rate in Hertz.
FasterThan(period, rate) == period <= 999999 \div rate

\* The steps of encode_datarate: code, and the rates it is for.
Steps ==
  {<<18, 1600, 2000>>, <<17, 1000, 1600>>, <<16, 800, 1000>>, <<15, 400, 800>>, <<1, 200, 400>>,
   <<2, 100, 200>>, <<3, 50, 100>>, <<4, 25, 50>>, <<5, 12, 25>>, <<6, 6, 12>>, <<7, 5, 6>>,
   <<8, 1, 5>>}

\* encode_datarate; a rate beyond the steps gets code 0, like period 0.
EncodeDatarate(period) ==
  IF period = 0 THEN 0
  ELSE IF ~FasterThan(period, 1) THEN 9
  ELSE IF FasterThan(period, 2000) THEN 0
  ELSE (CHOOSE s \in Steps : FasterThan(period, s[2]) /\ ~FasterThan(period, s[3]))[1]

\* CONVERT_DATARATE_CODE.
Rate(code) ==
  CASE code = 18 -> 200000 [] code = 17 -> 160000 [] code = 16 -> 100000 [] code = 15 -> 80000
    [] code = 1 -> 40000 [] code = 2 -> 20000 [] code = 3 -> 10000 [] code = 4 -> 5000
    [] code = 5 -> 2500 [] code = 6 -> 1250 [] code = 7 -> 625 [] code = 8 -> 500
    [] code = 9 -> 100 [] OTHER -> 0

\* SMI240_convert_ODR, in Hertz.
ConvertODR(rate) ==
  CASE rate > 20000 -> 400
    [] rate > 10000 /\ rate <= 20000 -> 200
    [] rate > 5000 /\ rate <= 10000 -> 100
    [] rate > 500 /\ rate <= 5000 -> 50
    [] OTHER -> 5

\* encode_max_latency: value and unit; latencies below a microsecond are 0 here.
EncodeMaxLatency(latency) ==
  IF latency >= 1000000
  THEN IF latency \div 1000000 < 16383 THEN <<latency \div 1000000, "s">> ELSE <<16383, "s">>
  ELSE IF latency >= 1000 THEN <<latency \div 1000, "ms">>
  ELSE IF latency >= 1 THEN <<latency, "us">>
  ELSE <<0, "ns">>

\* Outcome of a division by zero.
Undefined == -1

\* fifo_data_len: 16 bits.
FifoDataLen(latency, period) == IF period = 0 THEN Undefined ELSE (latency \div period) % 65536

-----------------------------------------------------------------------------
(* References to the configurations of active sensors.                     *)

\* Where the loop of activate_configref_resort stops.
Position(refs, inx) ==
  CHOOSE i \in 1..(Len(refs) + 1) :
    /\ \A k \in 1..(i - 1) : refs[k] < inx
    /\ i <= Len(refs) => refs[i] >= inx

\* activate_configref_resort: the rest of the array is moved by one.
Resort(refs, inx, enable) ==
  LET i       == Position(refs, inx)
      present == i <= Len(refs) /\ refs[i] = inx
  IN CASE enable /\ ~present -> SubSeq(refs, 1, i - 1) \o <<inx>> \o SubSeq(refs, i, Len(refs))
       [] ~enable /\ present -> SubSeq(refs, 1, i - 1) \o SubSeq(refs, i + 1, Len(refs))
       [] OTHER -> refs

Activated(inx) == \E i \in DOMAIN active[Kind(inx)] : active[Kind(inx)][i] = inx

\* ap_send_config and ap_config_physensor: the sampling interval, which only the
\* accelerometer's rate sets.
IntervalFor(inx, conf) ==
  LET rate == IF BoschAllSensors(inx).mode = "on_change" THEN 100 * conf.delayOnChange
                                                         ELSE Rate(conf.dataRate)
  IN IF HasSupplier(inx) /\ inx = ACCELEROMETER THEN 1000000 \div ConvertODR(rate) ELSE interval

-----------------------------------------------------------------------------
(* Opening and closing.                                                    *)

\* open_sensors: the constructor of BoschSensor, with hwcntl_init, which forgets that
\* the accelerometer's file is missing, then ap_get_sensorlist, where memory may be
\* short for the first or the second array.
Open(hasPipe, hasGyroscope, memory) ==
  /\ instance = "none"
  /\ instance' = IF ~hasPipe THEN "no_pipe" ELSE IF ~hasGyroscope THEN "no_gyroscope" ELSE "running"
  /\ list' = IF hasPipe /\ list \in {"none", "abandoned"} THEN memory ELSE list
  /\ on' = FALSE
  /\ asked' = 20000
  /\ UNCHANGED statics

\* poll__close and BoschSensor::destroy.  The threads are ended by a signal wherever they
\* are, threads that were never created are sent it as well, and a list may be freed
\* twice: the process may die of this.
Close(survives) ==
  /\ instance \in {"no_pipe", "no_gyroscope", "running"}
  /\ instance' = IF survives THEN "none" ELSE "dead"
  /\ list' = IF list = "live" THEN "freed" ELSE list
  /\ UNCHANGED <<statics, on, asked>>

\* Reading the freed list may end the process.
ReadFreedList ==
  /\ instance \in {"no_gyroscope", "running"}
  /\ list = "freed"
  /\ instance' = "dead"
  /\ UNCHANGED <<list, statics, on, asked>>

FirstConfig == [inx \in Available |-> DefaultConfig(inx)]

\* The service is started again.
Restart ==
  /\ instance = "dead"
  /\ instance' = "none"
  /\ list' = "none"
  /\ config' = FirstConfig
  /\ active' = [k \in Kinds |-> <<>>]
  /\ interval' = 1000000
  /\ on' = FALSE
  /\ asked' = 20000

-----------------------------------------------------------------------------
(* Calls of the framework.                                                 *)

\* get_sensor_t: whether a handle is found.  In freed memory it may or may not be.
Finds(handle) ==
  CASE list = "live" -> {(handle \in Available)}
    [] list = "freed" -> {(handle \in Available), FALSE}
    [] OTHER -> {FALSE}

\* Without a pipe the function pointers are NULL.
Callable == instance \in {"no_gyroscope", "running"}

\* ap_activate.  Disabling a sensor leaves the sampling interval as it is.
Activate(handle, enable) ==
  /\ Callable
  /\ \E found \in Finds(handle) :
       IF handle # INVALID /\ found
       THEN /\ active' = [active EXCEPT ![Kind(handle)] = Resort(@, handle, enable)]
            /\ interval' = IF enable THEN IntervalFor(handle, config[handle]) ELSE interval
            /\ on' = IF handle = ACCELEROMETER THEN enable ELSE on
       ELSE UNCHANGED <<active, interval, on>>
  /\ UNCHANGED <<instance, list, config, asked>>

\* The period ap_batch passes on; 0 for on-change sensors, whose rate is kept apart.
Clamped(sensor, period) ==
  IF period < sensor.minDelay THEN sensor.minDelay
  ELSE IF period > sensor.maxDelay THEN sensor.maxDelay ELSE period

\* What batch_configref_resort writes.
NewConfig(inx, period, latency) ==
  LET sensor   == BoschAllSensors(inx)
      clamped  == Clamped(sensor, period)
      onChange == sensor.mode = "on_change"
      sampling == IF onChange THEN 0 ELSE clamped
      encoded  == EncodeMaxLatency(latency)
  IN Config(EncodeDatarate(sampling), encoded[1], encoded[2], FifoDataLen(latency, sampling),
            IF onChange THEN 1000000 \div clamped ELSE 0)

Batched(inx) == BoschAllSensors(inx).mode \notin {"one_shot", "special"}

\* Mistaken variant: the new rate waits for the next activation.
BatchWaits(handle, period, latency) ==
  /\ Callable
  /\ \E found \in Finds(handle) :
       IF found /\ Batched(handle)
       THEN /\ config' = [config EXCEPT ![handle] = NewConfig(handle, period, latency)]
            /\ interval' = interval
            /\ asked' = IF handle = ACCELEROMETER THEN period ELSE asked
       ELSE UNCHANGED <<config, interval, asked>>
  /\ UNCHANGED <<instance, list, active, on>>

\* ap_batch and batch_configref_resort; setDelay is batch with latency 0.
Batch(handle, period, latency) ==
  /\ Callable
  /\ \E found \in Finds(handle) :
       IF found /\ Batched(handle)
       THEN LET conf == NewConfig(handle, period, latency)
            IN /\ config' = [config EXCEPT ![handle] = conf]
               /\ interval' = IF Activated(handle) THEN IntervalFor(handle, conf) ELSE interval
               /\ asked' = IF handle = ACCELEROMETER THEN period ELSE asked
       ELSE UNCHANGED <<config, interval, asked>>
  /\ UNCHANGED <<instance, list, active, on>>

-----------------------------------------------------------------------------

Init ==
  /\ instance = "none"
  /\ list = "none"
  /\ config = FirstConfig
  /\ active = [k \in Kinds |-> <<>>]
  /\ interval = 1000000
  /\ on = FALSE
  /\ asked = 20000

Device ==
  \/ \E hasPipe, hasGyroscope \in BOOLEAN, memory \in {"none", "abandoned", "live"} :
       Open(hasPipe, hasGyroscope, memory)
  \/ \E survives \in BOOLEAN : Close(survives)
  \/ ReadFreedList
  \/ Restart

Calls ==
  \E handle \in Handles :
    \/ \E enable \in BOOLEAN : Activate(handle, enable)
    \/ \E period \in Periods, latency \in Latencies : Batch(handle, period, latency)

Next == Device \/ Calls

Spec == Init /\ [][Next]_vars

-----------------------------------------------------------------------------
(* Properties.                                                             *)

\* SAMPLING_INTERVAL_OFFSET, which IMU_hw_deliver_sensordata takes off the interval.
SamplingIntervalOffset == 600

\* The types of the fields of a configuration.
Rates == 0..18
Words == 0..65535
Units == {"ns", "us", "ms", "s"}
Configs ==
  [dataRate : Rates, maxLatency : Words, latencyUnit : Units, fifoDataLen : Words,
   delayOnChange : Nat]

\* The variables keep their types: nothing is divided by zero, the references are in
\* strictly ascending order, as both search loops need, and what is left of the sampling
\* interval for the thread's sleep is not negative.
TypeOK ==
  /\ instance \in {"none", "no_pipe", "no_gyroscope", "running", "dead"}
  /\ list \in {"none", "abandoned", "live", "freed"}
  /\ DOMAIN config = Available /\ \A inx \in Available : config[inx] \in Configs
  /\ active \in [Kinds -> Seq(Available)]
  /\ \A k \in Kinds : \A i, j \in DOMAIN active[k] : i < j => active[k][i] < active[k][j]
  /\ interval \in Nat /\ interval > SamplingIntervalOffset
  /\ on \in BOOLEAN
  /\ asked \in Nat

\* While its list is live, which it is up to the first close, the device samples the active
\* accelerometer at least as often as the framework has asked, in whatever order it was
\* batched and activated, up to the 400 Hz of the chip (activate_configref_resort,
\* batch_configref_resort and the three conversions of a rate).
RateHonoured ==
  list = "live" /\ instance = "running" /\ on => interval <= asked \/ interval <= 2500

=============================================================================
