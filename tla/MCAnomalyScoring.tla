-------------------------- MODULE MCAnomalyScoring --------------------------
(***************************************************************************)
(* Instances of AnomalyScoring for TLC: samples of two channels.           *)
(***************************************************************************)
EXTENDS AnomalyScoring

MCChannels == 1..2
MCStamps == 1..3
=============================================================================
