---------------------------- MODULE MCSignalPath ----------------------------
(***************************************************************************)
(* Instances of SignalPath for TLC.                                        *)
(***************************************************************************)
EXTENDS SignalPath

MCSamples == 1..4
MCFaults == 1..2
MCKind == <<"dropout", "friction">>
MCBreaks == <<{}, {2}>>
=============================================================================
