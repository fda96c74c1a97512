------------------------------ MODULE MCViewer ------------------------------
(***************************************************************************)
(* Instances of Viewer for TLC: samples of two channels, a page and a      *)
(* client.                                                                 *)
(***************************************************************************)
EXTENDS Viewer

MCChannels == 1..2
MCStamps == 1..2
MCSubscribers == Pages \union Clients
=============================================================================
