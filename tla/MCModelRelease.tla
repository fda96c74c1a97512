--------------------------- MODULE MCModelRelease ---------------------------
(***************************************************************************)
(* Instances of ModelRelease for TLC: the last five segments of the demo,  *)
(* a stuck encoder and a drop-out between normal stretches, in its own     *)
(* times; datasets of all of the run, and of spans that end in either fault.  *)
(***************************************************************************)
EXTENDS ModelRelease

MCSchedule == SubSeq(DemoSchedule, 5, 9)
MCCommands == {i \in DOMAIN MCSchedule : MCSchedule[i].kind # "none"}
MCDuration == [c \in MCCommands |-> 2 * MCSchedule[c].secs]
MCSpans == {25, 45, 67}

\* Tables in the order of their tags: the closing labels' after the drop-out's
\* and before the stuck encoder's, which is of one joint.
MCRank ==
  [tags \in Archive!AllTags |-> IF tags.joint # "all" THEN 3 ELSE IF tags.kind = "none" THEN 2 ELSE 1]

\* The instance is one that the theorems speak of.
ASSUME InstanceIsSpaced ==
  /\ WellSpaced(MCSchedule) /\ Roomy(MCSchedule) /\ Length >= 2
  /\ \A span \in MCSpans \union {SensorEnd} : Settle + Length < span
=============================================================================
