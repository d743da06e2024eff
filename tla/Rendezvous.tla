----------------------------- MODULE Rendezvous -----------------------------
(***************************************************************************)
(* What a connection attempt promises, without messages: one master hosts; *)
(* it learns of a slave before anybody tries to connect; a client settles  *)
(* for the direct path only after a probe was answered on it, otherwise    *)
(* for the relay; and what is settled stays.                               *)
(***************************************************************************)
EXTENDS Naturals

CONSTANTS Masters, Slaves, None

VARIABLES
  host,        \* the registered master
  introduced,  \* the host has a slave's address
  attempted,   \* the server has begun to connect the two
  contact,     \* <<c, d>>: c answered d's probe, directly
  settled      \* the path each client has settled for

absVars == <<host, introduced, attempted, contact, settled>>

Parties == Masters \cup Slaves
Pairs   == (Masters \X Slaves) \cup (Slaves \X Masters)

AbsInit ==
  /\ host = None
  /\ introduced = FALSE
  /\ attempted = FALSE
  /\ contact = {}
  /\ settled = [c \in Parties |-> "FAIL"]

Register ==
  /\ host = None
  /\ host' \in Masters
  /\ UNCHANGED <<introduced, attempted, contact, settled>>

Introduce ==
  /\ host # None
  /\ introduced' = TRUE
  /\ UNCHANGED <<host, attempted, contact, settled>>

Attempt ==
  /\ introduced
  /\ attempted' = TRUE
  /\ UNCHANGED <<host, introduced, contact, settled>>

(* Both may answer a probe before the server asks for one: the slave opens *)
(* its hole as soon as it knows the master.                                *)
Contact ==
  /\ \E pair \in Pairs : contact' = contact \cup {pair}
  /\ UNCHANGED <<host, introduced, attempted, settled>>

Settle(c) ==
  /\ attempted
  /\ settled[c] = "FAIL"
  /\ \/ contact # {} /\ settled' = [settled EXCEPT ![c] = "P2P"]
     \/ settled' = [settled EXCEPT ![c] = "TURN"]
  /\ UNCHANGED <<host, introduced, attempted, contact>>

AbsNext ==
  Register \/ Introduce \/ Attempt \/ Contact \/ \E c \in Parties : Settle(c)

AbsSpec == AbsInit /\ [][AbsNext]_absVars
=============================================================================
