------------------------------ MODULE SimpleList ------------------------------
(***************************************************************************)
(* BoschSimpleList (legacy/sensord/boschsimple_list.cpp): a list with a    *)
(* limit, which gives up its oldest data for new data.                     *)
(***************************************************************************)
EXTENDS Integers, Sequences

\* The last limit elements.
Newest(list, limit) ==
  IF Len(list) <= limit THEN list ELSE SubSeq(list, Len(list) - limit + 1, Len(list))

\* What Newest leaves out.
Oldest(list, limit) == IF Len(list) <= limit THEN <<>> ELSE SubSeq(list, 1, Len(list) - limit)

\* list_add_rear, and what it frees.
AddRear(list, data, limit) == Append(IF Len(list) = limit THEN Tail(list) ELSE list, data)
AddRearFrees(list, limit) == IF Len(list) = limit THEN {Head(list)} ELSE {}

\* Mistaken variant: the nodes are linked in, and the limit forgotten.
MountUnlimited(list, more, limit) == list \o more

\* Mistaken variant: a list that has nodes is taken for an empty one.
MountOverwrites(list, more, limit) == IF more = <<>> THEN list ELSE Newest(more, limit)

\* list_mount_rear moves all nodes of another list to the rear and then truncates.
MountRear(list, more, limit) == IF more = <<>> THEN list ELSE Newest(list \o more, limit)
MountRearFrees(list, more, limit) ==
  LET gone == Oldest(list \o more, limit) IN {gone[i] : i \in DOMAIN gone}

=============================================================================
