------------------------------ MODULE LossyFifo ------------------------------
(***************************************************************************)
(* What the event path promises a framework that reads the event queue:    *)
(* what arrives was posted, arrives once, and arrives in the order in      *)
(* which it was posted.  Events may be lost: the tail of a batch when it   *)
(* is posted, or a run of consecutive events later, never by thinning out  *)
(* the stream.  Events are numbered in the order in which they are posted. *)
(***************************************************************************)
EXTENDS Naturals, Sequences

VARIABLES
  sent,      \* number of events posted
  chan,      \* accepted and neither delivered nor lost
  delivered  \* what the reader has got so far

vars == <<sent, chan, delivered>>

Init ==
  /\ sent = 0
  /\ chan = {}
  /\ delivered = <<>>

\* A batch is posted; its first k events are accepted.
Post ==
  /\ sent' > sent
  /\ \E k \in 0..(sent' - sent) : chan' = chan \cup (sent + 1)..(sent + k)
  /\ UNCHANGED delivered

\* The accepted events from number i to number j are lost, all of them.
Lose ==
  /\ \E i, j \in 0..sent : chan' = {n \in chan : n < i \/ j < n}
  /\ UNCHANGED <<sent, delivered>>

\* The reader gets the oldest event.
Deliver ==
  /\ \E n \in chan : /\ \A m \in chan : n <= m
                     /\ delivered' = Append(delivered, n)
                     /\ chan' = chan \ {n}
  /\ UNCHANGED sent

Next == Post \/ Lose \/ Deliver

Spec == Init /\ [][Next]_vars

=============================================================================
