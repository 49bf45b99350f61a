# TLA+ models of the SMI240 Android sensor HAL

This directory models the HAL for the Bosch SMI240 (accelerometer and gyroscope): the multi-HAL proxy
with its event path, wake lock, routing and AIDL front; the sensor threads that feed it; the HALs that
do without the proxy; and the legacy HAL with its two threads, its lists and its configuration. TLC
checks small instances; TLAPS proves every safety property of the passing runs for every value of the
constants.

Run TLC on one configuration with `tlc -config Delivery.cfg EventDeliveryMC.tla` and the
proofs with `tlapm EventDelivery_proof.tla`. `PROJECT.json` lists the runs, what each definition
translates, the findings, the hazards, and the theorems.

## 1. Inventory

### The parts of the system

| Part | Source | State it keeps | Operations | Modelled |
|---|---|---|---|---|
| Shared wake lock of the proxy | `multihal/2.X/HalProxy.cpp` 570-609, 641-668; `ScopedWakelock.cpp` | reference count, kernel lock, timeout start and reset time | create and destroy a `ScopedWakelock`, count the events of a batch, answers of the framework, timeout, stop and restart | `WakelockRefCounter` |
| Event delivery of the proxy | `HalProxy.cpp` 192-253, 494-566, 611-639; `HalProxyCallback.cpp` | event FMQ, pending queue and its size, `mThreadsRun`, background thread | `postEvents`, `handlePendingWrites`, `stopThreads`, `initializeCommon` | `EventDelivery` |
| The two together | the same | both, and the wake lock FMQ | the same | `EventPath` |
| Sensor of the sub-HAL | `multihal/Sensor.cpp` | `mIsEnabled`, period, time of the last sample, `mStopThread`, run thread | constructor, `run`, `batch`, `activate`, `flush`, destructor | `SensorThread` |
| Sensor of the stand-alone HALs | `2.X/Sensor.cpp`, `aidl/Sensor.cpp` | the same | the same, another destructor | `SensorThread`, `Unlocks = FALSE` |
| Sub-HAL of this repository | `multihal/SensorsSubHal.*`, `IHalProxyCallbackWrapper.h` | sensor table, constant once filled; callback | forwarding by handle, `setOperationMode`, injection, `initialize`; `postEvents` takes the `ScopedWakelock` | in `HalProxyRouting` (the libraries `Bosch`) and `EventPath` |
| Loading of sub-HALs | `HalProxy.cpp` 81-105, 408-472 | `mSubHalList`, `mSensors` | `hals.conf` line by line, then the lists | `HalProxyRouting` |
| Routing, operation mode, dynamic sensors, direct channel | `HalProxy.cpp` 109-156, 255-406, 454-472, 517-527, 670-709; `HalProxyCallback.*` | sensor tables, mode, owner of the direct channel | all calls of `ISensors`, all callbacks of sub-HALs | `HalProxyRouting` |
| AIDL front of the proxy | `multihal/aidl/` | a buffer for conversions | conversions of events and results | `EventConversion`, used in `HalProxyRouting` |
| Stand-alone HIDL and AIDL HALs | `2.X/Sensors.h`, `aidl/SensorsHalAidl.*` | outstanding wake-up events, wake lock, event queue | `initialize`, `activate`, `flush`, `postEvents`, `readWakeLockFMQ`, `updateWakeLock` | `StandaloneHal` |
| Legacy lists and alignment | `boschsimple_list.cpp`, `sensord_algo.cpp` | lists with a limit | add, mount, merge by time | `SimpleList`, `SampleAlignment` |
| Legacy threads and pipe | `legacy/hal`, `sensord.cpp`, `sensord_hwcntl_implement.cpp` 482-673 | lists of the threads, shared list, condition variable, HAL pipe | hwcntl and sensord threads, `pollEvents`, `flush` | `LegacyPipeline` |
| Legacy configuration | `sensord_hwcntl.*`, `sensord_hwcntl_implement.cpp` 121-447, `BoschSensor.cpp` | sensor tables, references to active sensors, sampling interval, the singleton | open, close, `activate`, `batch`, `setDelay` | `LegacySensorTable`, `LegacyControl` |
| IIO access, services | `hwctl/`, `*/service.cpp` | files | sysfs reads and writes, `main` | not modelled: I/O |

### How they interact

A sensor's run thread samples under `mRunMutex`, takes a `ScopedWakelock` when it is a wake-up
sensor, and calls `HalProxyCallbackBase::postEvents`. That looks at `mThreadsRun`, then writes the
events to the event FMQ or queues them, under `mEventQueueWriteMutex`, and counts the wake-up events
under `mWakelockMutex`. The background thread `handlePendingWrites` writes queued events with a
blocking write, *without* the mutex. The framework reads the FMQ and answers wake-up events with a
count on the wake lock FMQ, which `handleWakelocks` reads and subtracts. The single binder thread
calls `activate`, `batch`, `flush` and `initialize`; the latter stops both threads, disables the
sensors, empties everything and starts again.

Hard are: two writers of a single-writer queue; a mutex released in the middle of a loop
iteration; a count that several parties hold shares of, with a timeout that takes all of them away;
flags checked without the mutex and condition variables notified without it; and the restart in the
middle of all of it.

The stand-alone HALs have the same sensors and the same two FMQs, but no pending queue and no
background writer: a sensor thread, or the binder thread for a flush, writes under `mWriteLock` and then
counts under `mWakeLockLock`; the wake lock thread polls the wake lock FMQ every 500 ms and checks for
the automatic release whenever it updates the count.

A call of the framework to the proxy carries a handle whose top byte is the place of the sub-HAL in
`mSubHalList`; the proxy takes it off and passes the call on. Sub-HALs report dynamic sensors and post
events from threads of their own through a callback object that knows its place. The AIDL front turns
each event into a tagged payload and back, and each result into a status.

In the legacy HAL the hwcntl thread reads both sensors, mounts the samples on a shared list under a
mutex and signals; the sensord thread sorts the shared list into one list per sensor, merges the two by
time, and writes events to a pipe, which `poll` reads. `flush` writes the same pipe from the caller's
thread. `activate` and `batch` change static tables and the sampling interval that the hwcntl thread
sleeps for.

The sensors this repository ships have no flags (`common/BoschSensors.h:62`, `:85`), so none of them
wakes the device up. The wake lock machinery is nevertheless complete in every HAL, and modelled for
sensors that do.

What makes each part correct:

- *wake lock*: the kernel lock follows the count; no reference is given back twice or never; the
  lock is not kept for ever;
- *event delivery*: order, no duplicates, loss only where a queue is full or a write times out, an
  exact size of the pending queue, no event of an earlier session, the queue drains, `initialize`
  returns;
- *both*: the lock is held while a wake-up event is on its way;
- *sensor*: silence after `activate(false)`, samples while enabled, a destructor that returns, a
  `batch` that takes effect;
- *routing*: a handle leads to the sensor it was given for; injected data reach only sub-HALs that take
  them; the framework ends up with the right view of dynamic sensors; `initialize` quietens all;
- *AIDL front*: the two directions agree for every sensor type, and what was given out can be given back;
- *legacy pipeline*: samples in order, each at most once, lost only to newer ones, and none stuck;
- *legacy configuration*: the chip is set to the last rate that was asked for, nothing divides by zero;
- *stand-alone HAL*: the lock is held while a wake-up event waits, and given up at last; a queue that is
  replaced is no longer in use.

## 2. Modules

| Module | What it is | Models |
|---|---|---|
| `WakelockRefCounter` | component | reference count, `ScopedWakelock`, wake lock thread |
| `LossyFifo` | abstract specification | what a reader of the event FMQ may rely on; which events are lost is a set |
| `EventDelivery` | component | posting threads, background thread, framework's reader, `initializeCommon` |
| `EventDeliveryMC` | instance | batches of both kinds of events |
| `EventPath` | composition of `EventDelivery` and `WakelockRefCounter` | steps that are one step in the code are one step here |
| `EventPathMC` | instances | |
| `SensorThread` | component | run thread and callers of one sensor |
| `StandaloneHal` | component | posting threads, wake lock thread, framework and `initialize` of the HIDL (`QueueFirst = FALSE`) and AIDL (`QueueFirst = TRUE`) HAL |
| `EventConversion` | operators | the two switches of `ConvertUtils.cpp`, results to statuses |
| `HalProxyRouting` | component | constructor, calls of the framework, callbacks of sub-HALs, the AIDL front's part in them |
| `HalProxyRoutingMC` | instances | three files `hals.conf`, two threads that report dynamic sensors |
| `SimpleList`, `SampleAlignment` | operators | `BoschSimpleList`; `sort_input_samples` and the loop over its result |
| `LegacyPipeline`, `LegacyPipelineMC` | component, instance | hwcntl thread, sensord thread, pipe, `poll`, `flush` |
| `LegacySensorTable` | tables | `bosch_all_sensors`, the default configurations, `convert_BSX_ListInx` |
| `LegacyControl` | component | open, close, `activate`, `batch` and the conversions of rates and latencies |
| `*_proof` | theorems and proofs | |

### State and actions against the code

A region under a mutex is one action, as nothing that looks at the protected state can see it half
done. Where the code looks at shared state *outside* the mutex, or gives the mutex up, an action
ends:

- `EventDelivery.checked[p]`: a thread has passed `areThreadsRunning` (`HalProxyCallback.cpp:42`)
  and has not yet taken the mutex. `EnterPost` and `Commit` are separate steps.
- `EventDelivery.pwThread`: the background thread is at the head of its loop (`check`), has found
  nothing to do and still owns the mutex (`dozing`), is blocked (`asleep`), is in the blocking write
  (`writing`), or is about to take the mutex again (`retire`).
- `EventDelivery.init`: `stopThreads` clears the flag (`StopFlag`), empties the FMQ and notifies
  (`Drain`), joins (`Join`); the rest is `Restart`.
- `StandaloneHal.pc[p]`: a thread in `postEvents` waits for `mWriteLock` (`plain`, `wakeup`), is in the write
  to the FMQ it has looked up (`writePlain`, `writeWakeup`), or has written and not yet counted
  (`counting`). `step` is the position of `initialize` in `Steps`, which lists what it does in the order
  of either HAL. `left` is the time to the automatic release.
- `SensorThread.run` and `.caller` play the same role for the run thread and the thread that calls.

- `HalProxyRouting`: the constructor goes `phase` by phase, one line of `hals.conf` or one sub-HAL per
  step (`next`). A call of the framework is one action, as all come from one binder thread; only
  `initialize` goes step by step (`InitDisable`, `InitClear`, `InitCallback`, one `InitSubHal` for each,
  `InitReturns`), as sub-HALs that have a callback from an earlier session use it in between. A callback
  for dynamic sensors is two steps: the table changes under `mDynamicSensorsMutex`, and `Report` tells the
  framework after it. Each thread in `Callers` can be in one of these callbacks, for any sub-HAL, so that
  two callbacks of one sub-HAL overtake each other (`HalProxyCallback.h:42-45`). `last` is what the last
  call led to, `view` what the framework has been told. `crossed` is history: the handles two reports of
  which were under way at once, or which the framework or the table knew when the other was cleared.
- `LegacyPipeline.hw` and `.sensord` are the places of the two threads; a step ends at a read, at the end of
  a critical section, and at a write to the pipe. The loops of the sensord thread go turn by turn: over the
  shared list (`sort`, with the mutex, so that `Mount` waits) and over the positions of the alignment
  (`align`), whose events are delivered before the next position is looked at, as in `sensord_algo_process`.
  The code computes all positions first; nobody else sees the two arrays. `room` and `polled` are a call of `poll` under way: its
  loop reads until its buffer is full or nothing more is there.
- `LegacyControl.instance` is the singleton and how far its constructor came, `list` the static sensor
  list, which outlives it. `on` and `asked` are history: what the framework asked of the accelerometer.

In `EventPath`, `init` is shared: `WakelockRefCounter` sees `draining` and `joining` as `joining`.

Time is kept as far as the code compares it. In `WakelockRefCounter` an age of the timeout start and
an order between the creation of a `ScopedWakelock`, the last reset and the present; in
`SensorThread` the time since the last sample and what is left of a wait. A blocking write may fail
at any moment: nothing in the code depends on the five seconds.

Events are numbered records with a kind (wake-up or plain) and, as history, the session they were
posted in. `delivered`, `unacked`, `cutShort` and `stoppedOnce`, and `refused`, `writtenOff` and `crossed` of
`StandaloneHal`, are history variables: the code's actions do not depend on them, except that the
framework answers only what it owes.

### Abstractions to be aware of

- The check of `mThreadsRun` in increment and decrement (`HalProxy.cpp:642`, `:657`) is one step with
  the locked region that follows. A stop in between would let one more change through; the
  references stay in the count over a stop in either order.
- The wait of the wake lock thread is not split into predicate and blocking; the lost notification
  is shown for the background thread, which has the same shape.
- `Restart` waits until no thread is in `postEvents`. For the Bosch sensors that is what
  `disableAllSensors` brings about: `activate(false)` needs `mRunMutex`, which `run` owns while it
  posts (`SensorThread!QuietWhenDisabled`, proved), and `flush` runs on the binder thread itself
  (`configureRpcThreadpool(1, true)` in `multihal/2.X/service.cpp`). A sub-HAL that posts while its
  sensors are disabled is not covered.
- The FMQ and the framework are external: a bounded FIFO with one reader, and a framework that reads
  and answers in any order of its choosing, or not at all.
- `mSamplingPeriodNs` is written without a lock; a read sees the old or the new value, as on the
  64-bit targets. `mStopThread` is not initialised by the constructor: `Init` allows both values.
- `StandaloneHal` counts the events of a queue instead of ordering them, and one read of the wake lock
  FMQ may take any part of what has been answered, as an answer is a count. `acquire_wake_lock` and
  `release_wake_lock` may fail (`MaxRefusals` times). Sensors are enabled only after the first `initialize`,
  as the framework does. A write to a destroyed FMQ is lost; that it happens at all is what
  `QueueProtected` excludes.
- `HalProxyRouting`: sub-HALs of other vendors answer as they like, but know their own sensors.
  `setSubHalIndex` ors the index into whatever is in the first byte. Lists and reports turn away handles
  with a first byte of their own; `processEvents` does not, and `PostEvent` posts them like any other.
  The entry that `operator[]` makes for an unknown handle (`HalProxy.cpp:694`) stays in `sensors`, with all
  fields 0, and is in every later list. `setDirectChannelFlags` is applied to listed sensors only, as in
  the code: a dynamic sensor keeps its flags. `strayed` are sub-HALs that refused a rollback or an
  `initialize`, which the code cannot know.
- A type without a case (TEMPERATURE, the limited-axes types, HEADING) ends the process in either switch,
  and so does a payload with a tag that is not its type's; a private type goes through the default case.
  `last.op = "aborted"` is the end (`Ended`). The sub-HAL `talker` posts events of every type.
- An event reaches the framework at once in `HalProxyRouting`; what is queued, delayed or lost is in
  `EventDelivery`. The plugging of a sensor and the locked region of its callback are one step, and so are the
  loops of `disableAllSensors`. `mDynamicSensors.clear()` has no mutex: it falls before or after each
  locked region. That it, the `sp<>` of the callback and the map under `operator[]` are written
  without a lock beside readers is a data race on containers, whose outcomes are not modelled.
- The Bosch sub-HAL never stores a mode: it answers `NORMAL` with OK and anything else with BAD_VALUE.
- `EventMessageQueueWrapperAidl` converts through one buffer for all its calls. The read of `stopThreads`
  can overwrite what a blocking write has already converted; the queue is replaced right after. The
  conversions are modelled, the sharing of the buffer is not.
- `LegacyPipeline`: allocations succeed; a sample has a time and a number instead of values; a full range of
  a list is 128 in the code and `Limit` here. A second accelerometer sample never has the time of the
  first, a gyroscope sample may have that of the accelerometer's read just before.
- `LegacyControl`: times in microseconds, rates in hundredths of a Hertz, sysfs writes left out. Closing
  frees the sensor list and leaves its length: a search in freed memory finds the sensor, does not, or
  ends the process, and so does the signal sent to a thread that was never created. `Restart` is a new
  process after that.
- Two events of one instant: a `ScopedWakelock` created in the same clock tick as a reset is not
  older than it, as in the code's strict comparison (`HalProxy.cpp:663`).

## 3. What is checked

| Run | Instance | Shows |
|---|---|---|
| `wakelock` | 2 threads, batches of 1 or 2 wake-up events, timeout 1 tick, count up to 5, 3 unanswered (20353 states) | `HeldIffCounted`, `NeverUndercounted`, `NeverOvercounted`, `ReleasedOrRefreshed` |
| `delivery` | 2 threads, batches of 1 to 3 events, FMQ of 2, pending queue of 4, 3 or more events posted, 2 sessions (18404 states) | `InOrder`, `PendingCounted`, `NoStaleEvents`, `OneWriter`, `PendingDrains`, `ImplementsLossyFifo` |
| `event_path` | 2 threads, single events, FMQ and pending queue of 1, 2 posted or more, 2 sessions, timeout at once (592818 states) | `LockedUntilRead`, `ImplementsWakelock` |
| `sensor` | periods of 1 to 3 ticks (1960 states) | `QuietWhenDisabled`, `KeepsSampling`, `DestructorReturns` |
| `standalone` | HIDL; a wake-up sensor, another one and the binder thread, FMQ of 2, timeout 1 tick, 2 calls of `initialize`, 1 failure of the wake lock (367452 states) | `LockedOnceCounted`, `NeverOvercounted`, `QueueProtected`, `ReleasedAtLast` |
| `routing` | 6 libraries, two of them unusable, `hals.conf` of 4, 2 or 1 lines, HIDL 2.0 and AIDL, handles at both ends of what a sub-HAL may use and outside, events of every type, dynamic sensors reported by 2 threads, 2 sessions (1656383 states) | `RoutedHome`, `InjectionReachesInjecting`, `PayloadIntact`, `ViewMatches`, `InitializeQuiets` |
| `legacy_pipeline` | lists, pipe and poll buffer of 2, 3 samples of the accelerometer and 1 of the gyroscope, 1 flush (136452 states) | `StreamOrdered`, `SamplesAccounted`, `SamplesFlow` |
| `legacy_control` | an accelerometer, a gyroscope, a sensor that is not available and the invalid handle; periods around the steps of the encoding, latencies in all four units (65570 states) | `TypeOK` (no division by zero, references in ascending order), `RateHonoured` |

`NeverUndercounted` is stated until a timeout strikes and `NeverOvercounted` until the proxy is first
stopped. Both limits are the code's: a timeout writes references off while their owners still have
them, and `resetSharedWakelock` does nothing once `mThreadsRun` is false, so that references survive a
restart. Together they say that the lock is neither released early nor kept by a stray count in the
ordinary course of events.

`RoutedHome` is about handles as sub-HALs are to make them, with the upper byte left to the proxy
(`V2_0/SubHal.h:97-100`): a sensor with another handle is turned away, but an event with one goes on, under
a handle that may be another sensor's, and nothing is promised of it. Such events, and the empty entries
that those for unknown handles leave in the list, are in the run; the framework then calls with handle 0,
and the calls for other handles must still go home. `InjectionReachesInjecting` leaves out `strayed`
sub-HALs: what a sub-HAL does that refuses to go back is not in the proxy's hands. `PayloadIntact` is about
events that come back from the framework. An event the framework makes up may end the process, by a
type without a case or a tag that is not its type's, and so may one that a sub-HAL posts; these are in
the run, and the property is that no event that got through one switch fails in the other.
`ViewMatches` is about handles no report under way is about, and leaves out the `crossed` ones, for which
it fails (disagreement 11). It covers reports of two threads for different handles, reports for one handle
one after the other, and handles that are reported anew after they were crossed. `InitializeQuiets` holds
from `disableAllSensors` to the return of `initialize`; it is what the clearing of the queues relies on.
`StreamOrdered` says of any two samples that leave the HAL that
the first was read first, although each batch is merged anew; it holds because a sample is read later than
all that were mounted before, and because the position of the earlier time takes the accelerometer's
sample before a gyroscope's of the same time. `RateHonoured` is about the accelerometer, from the open that
makes the sensor list to the first close, which frees it and leaves its length: later opens of the same
process search freed memory. The accelerometer's rate alone sets the sampling interval (`ap_config_physensor`): the rate asked of the gyroscope has no effect, and deactivation leaves the
interval as it is. Nothing in the repository promises otherwise.

In `StandaloneHal` the same two bounds carry exceptions of their own: between write and count an event is
not covered (disagreement 8), an answer that overtakes the count is cut off at zero and leaves a count
behind (`crossed`), and so does an `initialize` that drops counted events.

`ImplementsWakelock` (the specification `WakelockRefCounter!Safe` as a property of `EventPath`) checks
what `WakelockRefCounter` assumes of its users: the counts given back when a write fails are those of
events that were counted and are gone.

### Disagreements with the documentation

Four runs check one statement of a comment each, and TLC finds a counterexample.

1. `delivery_stop`, `InitializeReturns`: `HalProxy.h:277`, "Stops all threads by setting the threads
   running flag to false and joining to them". The flag is cleared and `mEventQueueWriteCV` notified
   without the mutex; the background thread may already have evaluated its predicate and not yet be
   blocked. The notification is lost and the join does not return.
2. `event_path_long`, `LockedUntilRead`: `V2_0/SubHal.h:59-61`, the proxy holds the lock "until the
   framework has successfully processed any wakeup events". A batch is split between FMQ and pending
   queue, its entry there keeps the wake-up count of the whole batch (`HalProxy.cpp:633`), and when
   the write of the rest fails all of it is given back. The Bosch sensors post one event per batch,
   with which the property holds (run `event_path`).
3. `routing_wakeup`, `CompliantPostAccepted`: `V2_0/SubHal.h:56-58`, a `ScopedWakelock` "must be locked if the
   events are from wakeup sensors", else the proxy will crash. `getSensorInfo` knows only `mSensors`: the
   event of a *dynamic* wake-up sensor counts as none, and the proxy crashes for the compliant post.
4. `legacy_flush`, `FlushLast`: `legacy/hardware/sensors.h:631-632`, flush adds its event "to the end of the
   "batch mode" FIFO". It is written to the pipe at once and overtakes samples that wait in the lists.

Seven more were found in the same way. Their configurations are kept beside the others and can be run by
hand (`tlc -config WakelockScoped.cfg WakelockRefCounter.tla` and so on):

5. `WakelockScoped.cfg`, `WakelockRefCounter!ScopedHoldsLock`: `ScopedWakelock.h:59-60`, the lock is held "for
   the duration of a scoped block". Late answers after a timeout are subtracted from newer references.
6. `SensorBatch.cfg`, `SensorThread!BatchHeeded`: `multihal/Sensor.cpp:67`, "Wake up the 'run' thread to check
   if a new event should be generated now". Notified without the mutex, the wake-up can be lost and the
   thread sleeps for the old period.
7. `SensorStandalone.cfg`, `SensorThread!DestructorReturns`: `multihal/Sensor.cpp:48-49`, "Ensure that lock is
   unlocked before calling mRunThread.join() or a deadlock will occur". The destructors of
   `2.X/Sensor.cpp:52` and `aidl/Sensor.cpp:44` call `lock.release()`, which does not unlock.
8. `StandaloneUnsecured.cfg`, `StandaloneHal!LockedWhileUnsecured`: `2.X/Sensors.h:197-198`, "properly hold a
   wake lock until the framework has secured a wake lock". The event is written before it is counted; in
   between the device may suspend with the event unread.
9. `StandaloneAidl.cfg`, `StandaloneHal!QueueProtected`: `SensorsHalAidl.h:190`, "Lock to protect writes to the
   FMQs". `initialize` replaces the event FMQ without `mWriteLock` and before it disables the sensors.
10. `RoutingList.cfg`, `HalProxyRouting!ListNamesSensors`: `HalProxy.h:170-173`, `mSensors` "contains the sensor
   info from subhals". An event with a handle that is not listed, as every event of a dynamic sensor, has
   `operator[]` insert an entry that is all zero, and `getSensorsList` gives it to the framework.
11. `RoutingView.cfg`, `HalProxyRouting!ViewMatchesAlways`: `V2_0/SubHal.h:41-44`, "callbacks occurring at the same
   time from multiple sub-HALs are synchronized", and `HalProxy.h:224`, "The mutex protecting access to
   the dynamic sensors added and removed methods". The framework is told after the mutex: a report that
   is overtaken leaves it with a view the table does not have. Within one sub-HAL, whose callbacks may run on
   several threads (`HalProxyCallback.h:42-45`), the two reports can be of one handle; and a report that
   crosses `initialize`, which clears the table without the mutex, is of a sensor the table has lost.

Seen while modelling, and not run: a flush of an inactive sensor of the legacy HAL answers 0 where
`hardware/sensors.h` asks for `-EINVAL`; the comment in `ap_batch` (`sensord_hwcntl_implement.cpp:418`) clamps to
1 ms while the table's `minDelay` is 500 us; the answer of `ap_hwcntl_init_ACC` is overwritten (`:803`).

### Bounds

`MaxPosted` stops new calls, `MaxSessions` bounds restarts (two sessions give one complete stop and
restart around any of the other steps), `MaxRefCount` and `MaxUnacked` bound counters. The FMQ and the
pending queue are smaller than the longest batch, so that batches are split, take several blocking
writes, fit exactly, and are refused. Two posting threads are enough for any pair of steps to
interleave; threads differ in nothing but their name. A timeout of 1 tick separates "now", "not yet"
and "too late"; in `event_path`, with a timeout of 0, the timeout strikes after any tick. `MaxPeriod = 3`
lets a period change in both directions around a wait. `MaxInFlight` of `StandaloneHal` is a guard on new
events only, so that nothing under way is ever held up by it: with one event unanswered another two
can still be posted. `hals.conf` has lines that are skipped before and between usable ones, so that lines and
places differ; a dynamic sensor can come, go and come back, on two threads: two reports are what it takes to
overtake one another, and the threads differ in nothing (`SYMMETRY`). `MaxSessions = 2` puts a whole
second `initialize`, with callbacks between its steps, after a first. The sub-HAL that posts every type has a
`hals.conf` of its own, as types meet nothing else. Lists of 2 with 3 and 1 samples
overflow at each of the three places a list can, and a sample of the other sensor falls before, between
and after the rest; the pipe of 2 fills. The periods of `Control.cfg` lie below `minDelay`, on and between
the steps of `encode_datarate` and above `maxDelay`. Every cfg checks for deadlock.

### Fairness

Threads of the process are scheduled (`WF` on the steps of the background, wake lock, run and posting threads),
a call that has begun goes on (`Commit`, `DestroyScoped`, the rest of `initialize`, `activate`, `batch`),
and the clock advances. Nobody is obliged to post, to call, to answer or to read the FMQ; no
condition variable is obliged to wake up without being notified. Weak fairness is enough: a step
that is enabled stays so until it is taken, but for a mutex, and the mutexes are held for single steps
or by a thread that is itself scheduled.

In `LegacyPipeline` the hwcntl thread's turns end (a raw attribute of the driver is read once and then at its
end), the sensord thread is scheduled and gets up when it was signalled, and the framework polls in a
loop, as `hal/main.cpp` does. Without the last, a full pipe stops the sensord thread for good.

## 4. What is proved

All proofs hold for every value of the constants under the named assumptions of the modules
(`WakelockAssumption`, `DeliveryAssumption`, `PathAssumption`, `SensorAssumption`, `StandaloneAssumption`,
`RoutingAssumption`, `PipelineAssumption`, `ControlAssumption`): any set of threads, any batches, any
capacities, any timeouts, any periods. The hypotheses some theorems have beyond these are named below. A proof
has the same parts in each module: an inductive invariant that implies the property, that it holds initially,
and that each action keeps it (one lemma per action).

- `WakelockRefCounter_proof`: `TypeCorrect`; `HeldExactlyWhileCounted` (if no call of `postEvents` holds a
  locked `ScopedWakelock` and counts nothing, which an assertion at `HalProxyCallback.cpp:51` demands);
  `CountCovers` and `NoStrayCount`. `NeverUndercounted` is not inductive: it says nothing of the
  moments after a timeout, and a `ScopedWakelock` that is stale must be known to be so only because a
  timeout or a stop has been. The strengthened invariant adds what the history variables and the
  thread states imply about `scoped`; each action changes the number of live `ScopedWakelock`s by at
  most one, which lemmas on cardinality state once.
- `EventDelivery_proof`: `TypeCorrect`; `DeliveredInOrder`; `NothingStale`; `SingleWriter`. `InOrder`
  speaks of the read, the readable and the waiting events as one ordered stream; it becomes inductive
  together with the types and `WithinPosted` (no id is above the number of events posted), because new
  ids have to be above all old ones. While the background thread is between its write and the removal of
  what it wrote, the front of the queue counts as removed (`Unwritten`). `NothingStale` needs that a
  thread in `postEvents` belongs to the present session, which `Restart` upholds.
  `PendingIsCounted`: `mSizePendingWriteEventsQueue` is kept by hand, batch by batch. The number of waiting
  events is the number of pairs of a batch and a place in it (`PendingSlots`); the invariant adds that this set is
  finite, and lemmas say what an append, the removal of the front batch and the removal of its first events
  do to its cardinality.
  `IsLossyFifo`: the refinement of `LossyFifo`, where what the reader has got is the queue's history, what
  is on its way are the FMQ and the pending queue, and what is lost is a set of events. Each action is an
  append, a read, a loss of events nobody has read, or a stutter; `InOrder` makes appended events newer than
  all others.
- `EventPath_proof`, under `SingleEvents` (every batch has one event, as the Bosch sensors post them):
  `LockedWhileUnread`, `PathTypes` and `PathImplementsWakelock`. With longer batches the first is
  false (disagreement 2). `PathInv` takes the invariants of both components through the instances
  (`EP`, `WP`) and adds `Owed`: while the threads run, the wake-up events in the FMQ and the pending queue and the
  answers that are due are no more than the counter's history holds unacknowledged. A write that
  fails gives back exactly the one event of its batch, which is where longer batches go wrong.
  `PathImplementsDelivery` needs no such hypothesis: the composition restricts `EventDelivery` and adds nothing.
- `SensorThread_proof`: `TypeCorrect`; `DisabledIsQuiet`, whose invariant begins at the moment at which a
  sample is found to be due.
- `StandaloneHal_proof`: `TypeCorrect`, for both HALs; `QueueIsProtected`, `LockedFromCountOn` and `NothingOvercounted`,
  for the HIDL HAL's order. `Control` says who can be where while `initialize` is on its way: a sensor that
  posts is enabled, so once all are disabled nobody posts until the sensors are enabled again, and
  the FMQ stays empty. `Accounts` bounds the counter by the events in flight from both sides
  (`Covered`, `NeverOvercounted`), where the one thread between write and count stands in for what it is
  about to add; that there is at most one is `mWriteLock` (`OneInWrite`). `LockFollows` ties the lock to the counter.
- `HalProxyRouting_proof`: `TypeCorrect` and `EveryHandleRoutedHome`, for any files `hals.conf` of at most 128
  usable lines, any sub-HALs, sensors and handles. That what the framework *knows* is routed home follows
  from what the tables hold: `SensorsHome` and `DynamicsHome` say of every entry that its handle is the place of
  its sub-HAL in `mSubHalList` times 2^24 plus the sub-HAL's own handle; `KnownHome` says it of what was ever
  told, which stays true because `mSubHalList` only grows while nothing has been told (`Progress`); `Channel`
  and `HalsOK` tie the owner of the direct channel to the flags that are left. The arithmetic of the top
  byte is in lemmas of its own, also for handles that have one already (`OrByteFits`, `HandleFits`). Of events
  `EventHome` says the same for handles that came with a clear first byte.
  On top of that invariant stand `InjectionOnlyWhereInjecting` and
  `InitializeLeavesNoneEnabled`. For the first, `ModesAgree` says that every loaded sub-HAL is in the proxy's
  mode or has strayed; while the constructor still loads some, all are in mode NORMAL, and while `initialize`
  goes through the sub-HALs, those it has been to are. For the second, `AllKept` says
  that the tables hold an entry for every sensor with a clear handle that a sub-HAL lists or has plugged in,
  and hence for every enabled one, except between the clearing and the reset of the sub-HAL, when none is
  enabled. The hard step is a disconnection, which takes entries away: a handle belongs
  to one sensor of one sub-HAL (`OneHandleOneSensor`), so what it takes is what is disabled.

  `ViewFollowsMap`: between the change of the table and its report the framework's view lags behind, so `ViewInv`
  says of each handle that is not crossed what the table holds (`Told`): what any caller that is about to report
  on it will tell (`Names`, `Will`), and if there is none, what the framework has been told. It is what the
  theorem leaves out that makes it provable, for any number of threads; `RoutingView.cfg` shows the rest.
  `InjectedIntact`: `ConvertUtils.cpp` has one switch for each direction; the proof shows that the cases of each
  are apart, that both switches group the types alike, and that the pair of conversions gives back every word,
  case by case. `Converted` adds that an event the framework was given by the AIDL front has a case: the others
  ended the process on the way.
- `LegacyControl_proof`: `ControlTypes` and `RateIsHonoured`, for any periods and latencies. The chain from a
  period to an interval (`encode_datarate`, `CONVERT_DATARATE_CODE`, `SMI240_convert_ODR`) ends in
  one of few intervals; `RateServes` says that for any period between the table's `minDelay` and `maxDelay` the interval it ends
  in is no longer than the period, or the fastest one. The invariant says when the tables survive what:
  `Fresh` for a list that is not there yet or was abandoned, `Honoured` for a live one, whether the rate or the reference was set first.
  `ResortKeeps` is about the list of active sensors, which stays in ascending order and free of repetitions.
- `LegacyPipeline_proof`: `PipelineTypes`, `StreamIsOrdered` and `NoSampleAstray`, for any limits and any number of
  samples. Seen from the framework back to the driver, the lists are one line in the order of reading
  (`Order`: each list is `Ordered`, and each part of the line `Precedes` the rest); a step moves the first samples of a part
  to the end of the part before it, or drops them (`AddRearKeeps`, `MountRearKeeps`, `PositionFirst`). As the order is
  strict, nothing is in two places, and what is dropped is in none that is left (`Accounts`). `SampleIsNew` says
  that a sample is later than all that were read, which needs that the clock and the counts are never behind
  the samples (`Known`). `TypeOK` needs one thing more: that a call of `poll` that is over has no events (`ThreadsAt`).

Only model-checked: liveness (`ReleasedOrRefreshed`, `PendingDrains`, `KeepsSampling`, `DestructorReturns`,
`ReleasedAtLast`, `SamplesFlow`), which TLAPS does not reach. Where a definition would be recursive (sums over the
pending batches, the merge of two lists, the part of a list that belongs to a sensor), the models use sets, or one step for
each turn of the code's loop: induction over data is beyond the provers, and induction over steps is not.

## 5. Plan

Done: all modules of section 2, with the proofs of section 4.

Next: the wait of the wake lock thread split as in `EventDelivery`; `SensorThread` composed with
`EventDelivery` in place of the guard of `Restart`.

### Not modelled

- `hwctl/` and the reads and writes of sysfs in the sensors and the legacy HAL: pure I/O. What a failed
  open or a short read leads to is in `LegacyControl!Open` and `LegacyPipeline!EndOfFile`.
- The `main` functions of the services: their thread pool sizes are an assumption of `SensorThread` and
  `EventDelivery`.
- `debug` and `dump`, which change nothing; shared memory descriptions of direct channels.
- The destructors of the stand-alone HALs and of the proxy, which the services never reach.
- `axis_remap.c` and `sensord_cfg.cpp`: position 0 maps every axis to itself, the configuration is constant.
- `bsx_*.h` and `hardware/*.h`: vendored headers of which only constants are used.
