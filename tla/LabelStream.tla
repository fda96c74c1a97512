----------------------------- MODULE LabelStream -----------------------------
(***************************************************************************)
(* What the fault injector promises to whoever records its labels: the     *)
(* broker receives them one at a time, and each either continues the       *)
(* experiment of the previous label, which must not have been closed, or   *)
(* belongs to a new experiment that began after that label's stamp.        *)
(*                                                                         *)
(* It does not promise that an experiment's opening or closing label ever  *)
(* arrives: a broker outage loses either (see FaultInjector).              *)
(***************************************************************************)
EXTENDS FaultLabels

VARIABLE wire             \* labels received by the broker, oldest first

Init == wire = <<>>

Receive(l) ==
  /\ l \in Label
  /\ Admissible(wire, l)
  /\ wire' = Append(wire, l)

\* The label received is the one that now ends the stream.
Next == Len(wire') > 0 /\ Receive(wire'[Len(wire')])

Spec == Init /\ [][Next]_wire
=============================================================================
