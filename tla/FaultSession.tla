---------------------------- MODULE FaultSession ----------------------------
(***************************************************************************)
(* fault_injector/session.py: the cell that says which fault is active.    *)
(* A session is a record; the operators are FaultSession's methods, with   *)
(* the clock reading passed in.  They run on the asyncio thread without a  *)
(* suspension point, so each is a single step for the injector's tasks.    *)
(***************************************************************************)
EXTENDS FaultLabels

CONSTANTS Duration,       \* a command's duration_s, in clock units
          None            \* no command

ASSUME DurationType == Duration \in [Commands -> Nat]
ASSUME NoneIsNoCommand == None \notin Commands

Session == [command: Commands \union {None}, started: Nat, deadline: Nat]

NewSession == [command |-> None, started |-> 0, deadline |-> 0]

Active(s) == s.command # None

\* Mutant: activate() keeps the time of an earlier injection.
ActivatedSinceBefore(s, c, t) ==
  [command |-> c, started |-> s.started, deadline |-> t + Duration[c]]

\* activate(): the new session.  The previous one, if any, is overwritten.
Activated(s, c, t) == [command |-> c, started |-> t, deadline |-> t + Duration[c]]

\* heartbeat() and the label activate() returns: the active fault, as of t.
ActiveLabel(s, t) ==
  [id |-> s.command, active |-> TRUE, started |-> s.started, stamp |-> t]

\* Mutant: clear() forgets to drop the command.
Uncleared(s) == s

\* clear(): the new session; _started_ns and _deadline_ns keep their values.
Cleared(s) == [s EXCEPT !.command = None]

\* clear(): the label it returns for an active session s.
ClosingLabel(s, t) ==
  [id |-> s.command, active |-> FALSE, started |-> s.started, stamp |-> t]

\* expire_if_due(): is there something to clear?
Due(s, t) == Active(s) /\ t >= s.deadline
=============================================================================
