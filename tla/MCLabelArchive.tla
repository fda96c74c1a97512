--------------------------- MODULE MCLabelArchive ---------------------------
(***************************************************************************)
(* Instances of LabelArchive for TLC: a fault of one joint and one of all  *)
(* joints, so that a query's answer has three tables.                      *)
(***************************************************************************)
EXTENDS LabelArchive

CONSTANTS encoder, stuck, elbow, all, none, one, two

MCCommands == {one, two}
MCKind == [c \in {one, two} |-> IF c = one THEN encoder ELSE stuck]
MCJoint == [c \in {one, two} |-> IF c = one THEN elbow ELSE all]
MCTimes == 0..2

\* A clock read in twos: the odd times lose their last digit.
MCToNs(t) == 2 * (t \div 2)
=============================================================================
