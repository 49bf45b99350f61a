---------------------------- MODULE LegacyPipeline ----------------------------
(***************************************************************************)
(* The way of a sample through the legacy HAL.  The hwcntl thread          *)
(* (sensord_hwcntl_implement.cpp, IMU_hw_deliver_sensordata) reads both    *)
(* sensors into lists of its own and mounts these on a shared list under   *)
(* shmem_hwcntl.mutex.  The sensord thread (sensord.cpp, sensord_main)     *)
(* waits for the shared list, sorts it into one list for each sensor,      *)
(* aligns the two and writes the events to the HAL pipe; the framework's   *)
(* poll reads the pipe.  flush writes to the pipe from the caller's        *)
(* thread.  activate changes nothing here: both sensors are read as long   *)
(* as the device is open.                                                  *)
(*                                                                         *)
(* A step of a thread is what it does between two points where the other   *)
(* could see it: a read, a critical section, a write to the pipe.  The     *)
(* loops of the sensord thread are taken turn by turn: over the shared     *)
(* list, with the mutex held, and over the positions of the alignment.     *)
(***************************************************************************)
EXTENDS SimpleList, SampleAlignment

CONSTANTS
  Limit,           \* uplimit of every list, 128 in the code
  PipeSize,        \* how many events the pipe holds
  Count,           \* the events a call of poll has room for
  MaxSamples,      \* bounds on the samples of the accelerometer and of the gyroscope
  MaxFlushes       \* bound on the calls of flush

ASSUME PipelineAssumption ==
  /\ Limit \in Nat \ {0} /\ PipeSize \in Nat \ {0} /\ Count \in Nat \ {0}
  /\ MaxSamples \in Nat \X Nat /\ MaxFlushes \in Nat

Sensors == {"acc", "gyr"}

SampleBound(s) == MaxSamples[IF s = "acc" THEN 1 ELSE 2]

\* The ticks that may pass before a sample is read: the two sensors may be read in one.
Passes == [s \in Sensors |-> IF s = "acc" THEN {1} ELSE {0, 1}]

VARIABLES
  clock,      \* CLOCK_MONOTONIC
  taken,      \* samples read so far, for each sensor
  hw,         \* where the hwcntl thread is: "acc", "gyr" or "mount"
  hwList,     \* tmplist_hwcntl_acclraw, tmplist_hwcntl_gyroraw
  shared,     \* shmem_hwcntl.p_list
  signalled,  \* shmem_hwcntl.cond was signalled while the sensord thread waited
  sensord,    \* where the sensord thread is: "read", "waiting", "sort" (with the mutex),
              \* "align" or "deliver"
  raw,        \* tmplist_sensord_acclraw, tmplist_sensord_gyroraw
  events,     \* events of a position of sensord_algo_process that are not yet written
  pipe,       \* HALpipe_fd
  room,       \* room left in the buffer of a call of poll; 0 outside of a call
  polled,     \* events the call of poll has read so far; 0 outside of a call
  got,        \* history: all poll has returned or is about to
  lost,       \* history: samples dropped from a full list
  flushes     \* number of calls of flush

vars == <<clock, taken, hw, hwList, shared, signalled, sensord, raw, events, pipe, room, polled, got,
          lost, flushes>>

device == <<clock, taken>>
hwThread == <<hw, hwList>>
sensordThread == <<sensord, raw, events>>
poller == <<room, polled, got>>

-----------------------------------------------------------------------------
(* The hwcntl thread.                                                      *)

\* One turn of the loops of ap_hw_poll_smi240acc and ap_hw_poll_smi240gyro: the
\* driver gives a sample, which gets the time of its reading.
ReadSample(s, passed) ==
  LET sample == [sensor |-> s, n |-> taken[s] + 1, time |-> clock + passed]
  IN /\ hw = s
     /\ taken[s] < SampleBound(s)
     /\ clock' = clock + passed
     /\ taken' = [taken EXCEPT ![s] = @ + 1]
     /\ hwList' = [hwList EXCEPT ![s] = AddRear(@, sample, Limit)]
     /\ lost' = lost \cup AddRearFrees(hwList[s], Limit)
     /\ UNCHANGED <<hw, shared, signalled, pipe, sensordThread, poller, flushes>>

\* The end of the loop.  When lseek fails the file is closed, which gives no samples from
\* then on, like a driver that has none.
EndOfFile(s) ==
  /\ hw = s
  /\ hw' = IF s = "acc" THEN "gyr" ELSE "mount"
  /\ UNCHANGED <<device, hwList, shared, signalled, lost, pipe, sensordThread, poller, flushes>>

\* Mistaken variant: the condition variable is not signalled.
MountSilently ==
  LET first == MountRear(shared, hwList["acc"], Limit)
  IN /\ hw = "mount"
     /\ sensord # "sort"
     /\ hw' = "acc"
     /\ shared' = MountRear(first, hwList["gyr"], Limit)
     /\ lost' = lost \cup MountRearFrees(shared, hwList["acc"], Limit)
                     \cup MountRearFrees(first, hwList["gyr"], Limit)
     /\ hwList' = [s \in Sensors |-> <<>>]
     /\ signalled' = signalled
     /\ UNCHANGED <<device, pipe, sensordThread, poller, flushes>>

\* The rest of IMU_hw_deliver_sensordata: one critical section for both lists, then
\* the sleep until the next turn.
Mount ==
  LET first == MountRear(shared, hwList["acc"], Limit)
  IN /\ hw = "mount"
     /\ sensord # "sort"
     /\ hw' = "acc"
     /\ shared' = MountRear(first, hwList["gyr"], Limit)
     /\ lost' = lost \cup MountRearFrees(shared, hwList["acc"], Limit)
                     \cup MountRearFrees(first, hwList["gyr"], Limit)
     /\ hwList' = [s \in Sensors |-> <<>>]
     /\ signalled' = (signalled \/ (sensord = "waiting" /\ \E s \in Sensors : hwList[s] # <<>>))
     /\ UNCHANGED <<device, pipe, sensordThread, poller, flushes>>

-----------------------------------------------------------------------------
(* The sensord thread.                                                     *)

\* sensord_read_rawdata with samples at hand.
ReadRawData ==
  /\ sensord = "read"
  /\ shared # <<>>
  /\ sensord' = "sort"
  /\ UNCHANGED <<shared, signalled, raw, events, lost, pipe, device, hwThread, poller, flushes>>

\* pthread_cond_wait gives the mutex up.
WaitForData ==
  /\ sensord = "read"
  /\ shared = <<>>
  /\ sensord' = "waiting"
  /\ UNCHANGED <<shared, signalled, raw, events, lost, pipe, device, hwThread, poller, flushes>>

\* pthread_cond_wait returns with the mutex; it may do so for no reason, and the
\* list may be empty.  Then there is nothing to align either.
Wake ==
  /\ sensord = "waiting"
  /\ sensord' = IF shared = <<>> THEN "read" ELSE "sort"
  /\ signalled' = FALSE
  /\ UNCHANGED <<shared, raw, events, lost, pipe, device, hwThread, poller, flushes>>

\* One turn of the loop of sensord_read_rawdata, which ends when the shared list is empty.
SortSample ==
  LET sample == Head(shared)
      s      == sample.sensor
  IN /\ sensord = "sort"
     /\ raw' = [raw EXCEPT ![s] = AddRear(@, sample, Limit)]
     /\ lost' = lost \cup AddRearFrees(raw[s], Limit)
     /\ shared' = Tail(shared)
     /\ sensord' = IF Tail(shared) = <<>> THEN "align" ELSE "sort"
     /\ UNCHANGED <<signalled, events, pipe, device, hwThread, poller, flushes>>

\* One position of sensord_algo_process: the accelerometer's event before the gyroscope's.
Align ==
  LET base == BaseTime(raw["acc"], raw["gyr"])
  IN /\ sensord = "align"
     /\ events' = Taken(raw["acc"], base) \o Taken(raw["gyr"], base)
     /\ raw' = [s \in Sensors |-> Left(raw[s], base)]
     /\ sensord' = "deliver"
     /\ UNCHANGED <<shared, signalled, lost, pipe, device, hwThread, poller, flushes>>

\* sensord_deliver_event; the write blocks while the pipe is full.  After the events of
\* the last position the thread reads again.
DeliverEvent ==
  /\ sensord = "deliver"
  /\ Len(pipe) < PipeSize
  /\ pipe' = Append(pipe, Head(events))
  /\ events' = Tail(events)
  /\ sensord' = IF Tail(events) # <<>> THEN "deliver"
                ELSE IF \A s \in Sensors : raw[s] = <<>> THEN "read" ELSE "align"
  /\ UNCHANGED <<shared, signalled, raw, lost, device, hwThread, poller, flushes>>

-----------------------------------------------------------------------------
(* Calls of the framework.                                                 *)

\* poll__poll, with room for Count events.
Poll ==
  /\ room = 0
  /\ room' = Count
  /\ UNCHANGED <<shared, signalled, polled, got, lost, pipe, device, hwThread, sensordThread, flushes>>

\* read_events, when poll has found data in the pipe; pollEvents returns as soon as
\* its buffer is full.
ReadEvents ==
  LET n == IF Len(pipe) < room THEN Len(pipe) ELSE room
  IN /\ room > 0
     /\ pipe # <<>>
     /\ got' = got \o SubSeq(pipe, 1, n)
     /\ pipe' = SubSeq(pipe, n + 1, Len(pipe))
     /\ room' = room - n
     /\ polled' = IF room = n THEN 0 ELSE polled + n
     /\ UNCHANGED <<shared, signalled, lost, device, hwThread, sensordThread, flushes>>

\* pollEvents has events, and its second poll found no more.
PollReturns ==
  /\ room > 0
  /\ polled > 0
  /\ pipe = <<>>
  /\ room' = 0
  /\ polled' = 0
  /\ UNCHANGED <<shared, signalled, got, lost, pipe, device, hwThread, sensordThread, flushes>>

\* ap_flush: send_flush_event writes to the pipe at once.
Flush(s) ==
  /\ flushes < MaxFlushes
  /\ Len(pipe) < PipeSize
  /\ flushes' = flushes + 1
  /\ pipe' = Append(pipe, [sensor |-> "meta", of |-> s])
  /\ UNCHANGED <<shared, signalled, lost, device, hwThread, sensordThread, poller>>

-----------------------------------------------------------------------------

Init ==
  /\ clock = 1
  /\ taken = [s \in Sensors |-> 0]
  /\ hw = "acc" /\ hwList = [s \in Sensors |-> <<>>]
  /\ shared = <<>> /\ signalled = FALSE
  /\ sensord = "read" /\ raw = [s \in Sensors |-> <<>>] /\ events = <<>>
  /\ pipe = <<>> /\ room = 0 /\ polled = 0
  /\ got = <<>> /\ lost = {}
  /\ flushes = 0

HwcntlStep ==
  \/ \E s \in Sensors : \E passed \in Passes[s] : ReadSample(s, passed)
  \/ \E s \in Sensors : EndOfFile(s)
  \/ Mount

SensordStep == ReadRawData \/ WaitForData \/ SortSample \/ Align \/ DeliverEvent

Framework ==
  \/ Poll \/ ReadEvents \/ PollReturns
  \/ \E s \in Sensors : Flush(s)

Next == HwcntlStep \/ SensordStep \/ Wake \/ Framework

\* A raw attribute of the driver gives its text once and then its end, so a turn of
\* the hwcntl thread ends.  The sensord thread is scheduled, and gets up from its wait
\* when it was signalled.  The framework polls in a loop, as hal/main.cpp does.
Fairness ==
  /\ \A s \in Sensors : WF_vars(EndOfFile(s))
  /\ WF_vars(Mount)
  /\ WF_vars(SensordStep)
  /\ WF_vars(signalled /\ Wake)
  /\ WF_vars(Poll) /\ WF_vars(ReadEvents) /\ WF_vars(PollReturns)

Spec == Init /\ [][Next]_vars /\ Fairness

-----------------------------------------------------------------------------
(* Properties.                                                             *)

Times == 1..(MaxSamples[1] + MaxSamples[2] + 1)
SamplesOf(s) == [sensor : {s}, n : 1..SampleBound(s), time : Times]
Samples == SamplesOf("acc") \cup SamplesOf("gyr")
Events == Samples \cup [sensor : {"meta"}, of : Sensors]

\* The variables keep their types, no list grows beyond its limit, and the pipe and
\* the buffer of poll hold no more than they can.
TypeOK ==
  /\ clock \in Times
  /\ taken \in [Sensors -> Nat] /\ \A s \in Sensors : taken[s] <= SampleBound(s)
  /\ hw \in {"acc", "gyr", "mount"}
  /\ hwList \in [Sensors -> Seq(Samples)] /\ \A s \in Sensors : Len(hwList[s]) <= Limit
  /\ shared \in Seq(Samples) /\ Len(shared) <= Limit
  /\ signalled \in BOOLEAN
  /\ sensord \in {"read", "waiting", "sort", "align", "deliver"}
  /\ raw \in [Sensors -> Seq(Samples)] /\ \A s \in Sensors : Len(raw[s]) <= Limit
  /\ events \in Seq(Samples)
  /\ pipe \in Seq(Events) /\ Len(pipe) <= PipeSize
  /\ room \in 0..Count /\ polled \in 0..Count /\ polled + room <= Count
  /\ got \in Seq(Events)
  /\ lost \subseteq Samples
  /\ flushes \in 0..MaxFlushes

InList(list) == {list[i] : i \in DOMAIN list}

\* What has left, or is about to leave, the sensord thread.
Line == got \o pipe \o events
Stream == InList(Line) \cap Samples

\* x was read before y: the accelerometer's turn comes first, and its samples have
\* times of their own.
Before(x, y) ==
  \/ x.time < y.time
  \/ x.time = y.time /\ y.sensor = "gyr" /\ (x.sensor = "acc" \/ x.n < y.n)

\* The framework gets the samples of both sensors in the order in which they were read,
\* although they wait in lists that drop their oldest, are sorted into a list for each
\* sensor and are merged anew for each batch (sort_input_samples).
StreamOrdered ==
  \A i, j \in DOMAIN Line :
    i < j /\ Line[i] \in Samples /\ Line[j] \in Samples => Before(Line[i], Line[j])

\* The places a sample may be in.
Places ==
  <<InList(hwList["acc"]), InList(hwList["gyr"]), InList(shared), InList(raw["acc"]),
    InList(raw["gyr"]), Stream, lost>>

\* A sample that was read is in one place, and it is lost only when a full list gave it
\* up for newer ones (list_add_rear, list_mount_rear, sensord_read_rawdata).
SamplesAccounted ==
  /\ \A i, j \in DOMAIN Places : i # j => Places[i] \cap Places[j] = {}
  /\ \A s \in Sensors : \A n \in 1..SampleBound(s) :
       n <= taken[s] <=> \E i \in DOMAIN Places : \E x \in Places[i] : x.sensor = s /\ x.n = n

\* While the framework polls, every sample that was read is delivered or given up for
\* newer ones: no signal is lost between the two threads.
SamplesFlow ==
  \A s \in Sensors : \A n \in 1..SampleBound(s) :
    n <= taken[s] ~> \E x \in lost \cup InList(got) : x.sensor = s /\ x.n = n

\* What hardware/sensors.h says of flush: its event goes to the end of the queue of the
\* sensor's events.
FlushLast ==
  [][\A s \in Sensors : Flush(s) =>
       \A i \in DOMAIN Places : \A x \in Places[i] \ lost : x.sensor = s => x \in InList(got \o pipe)]_vars

=============================================================================
