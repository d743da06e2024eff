---------------------------- MODULE MCTurnServer ----------------------------
(***************************************************************************)
(* The stand-alone TURN programs, for TLC.                                 *)
(***************************************************************************)
EXTENDS TurnServer

(* With a right name and a right password of one character: the right      *)
(* login; one whose password is longer, one with a wrong name, one with a  *)
(* wrong password; and one whose name is longer than the first is in all.  *)
SomeLogins ==
  { [name |-> <<TRUE>>,  pass |-> <<TRUE>>],
    [name |-> <<TRUE>>,  pass |-> <<TRUE, FALSE>>],
    [name |-> <<FALSE>>, pass |-> <<TRUE>>],
    [name |-> <<TRUE>>,  pass |-> <<FALSE>>],
    [name |-> <<TRUE, FALSE, FALSE, FALSE>>, pass |-> <<TRUE, FALSE, FALSE>>] }
=============================================================================
