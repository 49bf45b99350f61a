---------------------------- MODULE SampleAlignment ----------------------------
(***************************************************************************)
(* How the sensord thread of the legacy HAL merges the samples of the two  *)
(* sensors (legacy/sensord/sensord_algo.cpp, sort_input_samples and the    *)
(* loop over its result in sensord_algo_process).  A sample has a time and *)
(* both lists are in the order of their times.  The code works on arrays   *)
(* with an index each; a list here is what is left of one.                 *)
(***************************************************************************)
EXTENDS Integers, Sequences

\* Mistaken variant: the gyroscope's time is the base whenever there is one.
GyroBase(acc, gyr) ==
  IF gyr # <<>> THEN Head(gyr).time ELSE IF acc # <<>> THEN Head(acc).time ELSE 0

\* cur_base_tm for what is left of the two lists; 0 stands for "no gyroscope sample".
BaseTime(acc, gyr) ==
  LET base == IF gyr # <<>> THEN Head(gyr).time ELSE 0
  IN IF acc # <<>> /\ (base = 0 \/ Head(acc).time < base) THEN Head(acc).time ELSE base

\* HAS_ACC, HAS_GYR: the next sample of the list is delivered at this position.
Takes(list, base) == list # <<>> /\ Head(list).time = base

\* What the position takes of a list, and what it leaves.
Taken(list, base) == IF Takes(list, base) THEN <<Head(list)>> ELSE <<>>
Left(list, base) == IF Takes(list, base) THEN Tail(list) ELSE list

=============================================================================
