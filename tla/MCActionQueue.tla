--------------------------- MODULE MCActionQueue ---------------------------
(***************************************************************************)
(* ActionQueue with four commands: a deploy that needs the extension of    *)
(* its lease, a templated_exec that may outlive its lease, a health check  *)
(* whose failure text cannot be clipped, and a command of another node.    *)
(***************************************************************************)
EXTENDS ActionQueue, TLC

CONSTANTS deploy, exec, health, stray

MCKindOf ==
  (deploy :> "deploy" @@ exec :> "templated_exec" @@ health :> "health_check"
   @@ stray :> "teardown_handoff")
MCMaxRun == [c \in Cmd |-> IF c \in {deploy, exec} THEN 2 ELSE 0]
=============================================================================
