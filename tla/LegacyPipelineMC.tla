--------------------------- MODULE LegacyPipelineMC ---------------------------
(***************************************************************************)
(* An instance of LegacyPipeline for TLC: one sample of the gyroscope      *)
(* before, between or after three of the accelerometer, with lists of two. *)
(***************************************************************************)
EXTENDS LegacyPipeline

TheBounds == <<3, 1>>

=============================================================================
