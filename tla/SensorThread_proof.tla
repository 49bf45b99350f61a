------------------------- MODULE SensorThread_proof -------------------------
(***************************************************************************)
(* Proofs about SensorThread for every MaxPeriod, and for both kinds of    *)
(* destructor.                                                             *)
(***************************************************************************)
EXTENDS SensorThread, TLAPS

\* A step of any action keeps every variable in its type, although Tick and
\* LookAtClock calculate with times.
LEMMA TypeStep == TypeOK /\ [Next]_vars => TypeOK'
<1> USE SensorAssumption DEF TypeOK, Holding
<1> SUFFICES ASSUME TypeOK, [Next]_vars PROVE TypeOK'
    OBVIOUS
<1>1. CASE Run
  <2>1. CASE LookAtClock
    <3>1. CASE sinceSample >= period
          BY <2>1, <3>1 DEF LookAtClock
    <3>2. CASE ~ sinceSample >= period
      <4>1. period - sinceSample \in 0..MaxPeriod
            BY <3>2
      <4> QED BY <2>1, <3>2, <4>1 DEF LookAtClock
    <3> QED BY <3>1, <3>2
  <2>2. CASE TakeSample
        BY <2>2 DEF TakeSample
  <2>3. CASE Lock \/ Exit \/ Rest \/ PostReturns \/ Sleep \/ WaitEnds
        BY <2>3 DEF Lock, Exit, Rest, PostReturns, Sleep, WaitEnds
  <2> QED BY <1>1, <2>1, <2>2, <2>3 DEF Run
<1>2. CASE SpuriousWake
      BY <1>2 DEF SpuriousWake
<1>3. CASE \E p \in 1..MaxPeriod : BatchWrite(p)
      BY <1>3 DEF BatchWrite, runVars
<1>4. CASE \E enable \in BOOLEAN : ActivateCheck(enable)
      BY <1>4 DEF ActivateCheck, runVars
<1>5. CASE Flush
      BY <1>5 DEF Flush, runVars
<1>6. CASE Destroy
      BY <1>6 DEF Destroy, Notified
<1>7. CASE Return
      BY <1>7 DEF Return, BatchNotify, ActivateSet, FlushReturns, Joined, Notified, runVars
<1>8. CASE Tick
  <2>1. sinceSample' \in 0..MaxPeriod /\ wakeIn' \in 0..MaxPeriod
        BY <1>8 DEF Tick
  <2> QED BY <1>8, <2>1 DEF Tick
<1>9. CASE UNCHANGED vars
      BY <1>9 DEF vars
<1> QED BY <1>1, <1>2, <1>3, <1>4, <1>5, <1>6, <1>7, <1>8, <1>9 DEF Next

\* The variables of a sensor keep their types, whatever is called and however
\* the calls meet the run thread (multihal/Sensor.cpp:47-125).
THEOREM TypeCorrect == Spec => []TypeOK
<1>1. MaxPeriod \in 0..MaxPeriod /\ 0 \in 0..MaxPeriod
      BY SensorAssumption
<1>2. Init => TypeOK
      BY <1>1 DEF Init, TypeOK, Holding
<1> QED BY <1>2, TypeStep, PTL DEF Spec, Safe

-----------------------------------------------------------------------------
(* A sample is posted only while the sensor is enabled.  The invariant has *)
(* to hold from the moment at which the sample is found to be due.         *)

Quiet == run \in {"due", "posting"} => enabled

LEMMA QuietStep == Quiet /\ [Next]_vars => Quiet'
<1> USE DEF Quiet
<1> SUFFICES ASSUME Quiet, [Next]_vars PROVE Quiet'
    OBVIOUS
<1>1. CASE Run
      BY <1>1 DEF Run, Lock, Exit, Rest, LookAtClock, TakeSample, PostReturns, Sleep, WaitEnds
<1>2. CASE SpuriousWake
      BY <1>2 DEF SpuriousWake
<1>3. CASE \/ \E p \in 1..MaxPeriod : BatchWrite(p)
           \/ \E enable \in BOOLEAN : ActivateCheck(enable)
           \/ Flush \/ Tick \/ UNCHANGED vars
      BY <1>3 DEF BatchWrite, ActivateCheck, Flush, Tick, vars, runVars
<1>4. CASE Destroy \/ ActivateSet
  \* Both change mIsEnabled, with the mutex, hence not during a sample.
  <2>1. run \notin Holding
        BY <1>4 DEF Destroy, ActivateSet, MutexFree
  <2>2. run' \notin {"due", "posting"}
        BY <1>4, <2>1 DEF Destroy, ActivateSet, Notified, Holding
  <2> QED BY <2>2
<1>5. CASE BatchNotify \/ FlushReturns \/ Joined
      BY <1>5 DEF BatchNotify, FlushReturns, Joined, Notified, runVars
<1> QED BY <1>1, <1>2, <1>3, <1>4, <1>5 DEF Next, Return

\* When activate(false) has returned, no call of postEvents by the run thread is
\* under way and none begins (multihal/Sensor.cpp:72-79, 103-125).
THEOREM DisabledIsQuiet == Spec => []QuietWhenDisabled
<1>1. Init => Quiet
      BY DEF Init, Quiet
<1>2. Quiet => QuietWhenDisabled
      BY DEF Quiet, QuietWhenDisabled
<1> QED BY <1>1, <1>2, QuietStep, PTL DEF Spec, Safe

=============================================================================
