----------------------------- MODULE EventPathMC -----------------------------
(***************************************************************************)
(* Instances of EventPath for TLC.                                         *)
(***************************************************************************)
EXTENDS EventPath

\* What the sensors of the Bosch sub-HAL post (multihal/Sensor.cpp:95, 119, 139).
SingleBatches == {<<"plain">>, <<"wake">>}

\* What the interface of a sub-HAL allows.
LongBatches == {<<"wake", "plain">>}

=============================================================================
