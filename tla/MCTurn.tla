------------------------------- MODULE MCTurn -------------------------------
(***************************************************************************)
(* The TURN relay, for TLC.                                                *)
(***************************************************************************)
EXTENDS TurnRelay, TLC

(* Neither the slaves nor the identities of threads are told apart.        *)
Alike == Permutations(Slaves) \cup Permutations(Thread)

(* When the list has grown, the last datagram is not waited for.           *)
Followed == size = 1 \/ taken < MaxDatagrams
=============================================================================
