----------------------------- MODULE MCSession ------------------------------
(***************************************************************************)
(* Small instances of Session.  The bounds are state constraints: a state  *)
(* outside them is checked, but its successors are not.                    *)
(***************************************************************************)
EXTENDS Session

CONSTANTS m1, m2, s1, s2

(* Every client has an IP of its own ...                                   *)
OwnSites == [c \in Clients |-> c]

(* ... or m1 and s1 are behind the same NAT.                               *)
SharedSite == [c \in Clients |-> IF c \in {m1, s1} THEN 1 ELSE 2]

(* Nothing the code looks for in uninitialised memory, or the worst case.  *)
CleanStack == {Blank}
DirtyStack == {Blank, [op |-> "GET_REQ", arg |-> "0x04"],
                      [op |-> "V_RESP", arg |-> "0x01"]}

UntilVerdict == \A c \in Clients : cpc[c] \notin {"turn", "cmd", "up"}

(* Every client may take its verdict, and no relay is asked for.           *)
BothVerdicts ==
  /\ \A c \in Clients : mode[c] # "FAIL" =>
       /\ cpc[c] = (IF mode[c] = "P2P" THEN "clean cmd" ELSE "turn")
       /\ ctry[c] = 0
  /\ ~turnSign /\ ~cmdThreadRunning

(* One client at most goes on from its verdict, to the end of its run.     *)
OneOpens == \A c, d \in Clients : mode[c] # "FAIL" /\ mode[d] # "FAIL" => c = d

(* The relay is asked for, and nothing after it.                           *)
NoCommands == \A c \in Clients : cpc[c] \notin {"clean cmd", "cmd", "up"}

OneAttempt   == polRuns <= 1
NoKeepAlive  == \A p \in msgs : p.op # "KEEP_CON"

(* No client is at a second try.                                           *)
FirstTries == \A c \in Clients : ctry[c] = 0

(* Any number of attempts as far as their verdicts, or one attempt and a   *)
(* relay thread, which leads lookups astray, beside it.                    *)
VerdictsOrRelay ==
  \/ BothVerdicts
  \/ OneOpens /\ NoCommands /\ OneAttempt /\ NoKeepAlive /\ FirstTries
=============================================================================
