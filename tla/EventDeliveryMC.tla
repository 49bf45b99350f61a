--------------------------- MODULE EventDeliveryMC ---------------------------
(***************************************************************************)
(* Instances of EventDelivery for TLC.                                     *)
(***************************************************************************)
EXTENDS EventDelivery

\* Batches that fit, that are split between FMQ and pending queue, that take
\* several blocking writes, and that can be refused.
MixedBatches == {<<"plain">>, <<"plain", "wake">>, <<"wake", "plain", "plain">>}

=============================================================================
