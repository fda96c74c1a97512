--------------------------- MODULE MCFaultInjector ---------------------------
(***************************************************************************)
(* Instances of FaultInjector for TLC: a fault of two clock units and one  *)
(* of a single unit, with a heartbeat every unit, so that one fault lives  *)
(* long enough to be heartbeated and the other expires at its first beat.  *)
(***************************************************************************)
EXTENDS FaultInjector

CONSTANTS long, short

MCCommands == {long, short}
MCDuration == [c \in {long, short} |-> IF c = long THEN 2 ELSE 1]
=============================================================================
