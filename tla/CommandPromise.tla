--------------------------- MODULE CommandPromise ---------------------------
(***************************************************************************)
(* What the queue of node actions promises of a command: it is settled     *)
(* once, as a success only after an execution of it succeeded, and nothing *)
(* more is begun for it on the host afterwards.  It may be executed        *)
(* several times before.  An execution whose agent was killed before the   *)
(* settlement is left behind: it ends whenever it does, once.              *)
(***************************************************************************)
CONSTANTS
  Cmd,        \* commands
  Trusted,    \* those whose success is the success of the execution
  Execution   \* executions of them: records with a field cmd

VARIABLES
  verdict,  \* "open", "ok" or "failed", for each command
  achieved, \* commands of which an execution succeeded
  left      \* executions left behind by a killed agent

vars == <<verdict, achieved, left>>

Init ==
  /\ verdict = [c \in Cmd |-> "open"]
  /\ achieved = {}
  /\ left = {}

Achieve(c) ==
  /\ verdict[c] = "open"
  /\ achieved' = achieved \cup {c}
  /\ UNCHANGED <<verdict, left>>

LeaveBehind(e) ==
  /\ verdict[e.cmd] = "open"
  /\ left' = left \cup {e}
  /\ UNCHANGED <<verdict, achieved>>

LeftEnds(e) ==
  /\ e \in left
  /\ left' = left \ {e}
  /\ achieved' \in {achieved, achieved \cup {e.cmd}}
  /\ UNCHANGED verdict

Settle(c, v) ==
  /\ verdict[c] = "open"
  /\ v = "ok" /\ c \in Trusted => c \in achieved
  /\ verdict' = [verdict EXCEPT ![c] = v]
  /\ UNCHANGED <<achieved, left>>

Next ==
  \/ \E c \in Cmd : Achieve(c) \/ Settle(c, "ok") \/ Settle(c, "failed")
  \/ \E e \in Execution : LeaveBehind(e) \/ LeftEnds(e)

Spec == Init /\ [][Next]_vars
=============================================================================
