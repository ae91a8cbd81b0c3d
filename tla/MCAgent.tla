------------------------------- MODULE MCAgent -------------------------------
(***************************************************************************)
(* The agent with one command at control plane a, a directive that moves   *)
(* it to b, a revoke, and a directive that cannot be opened.               *)
(***************************************************************************)
EXTENDS Agent, TLC

CONSTANTS a, b, keyA, tokA, tokB, deploy, health

EnvA == [endpoint |-> a, enroll |-> tokA, vkey |-> keyA]

move ==
  [kind |-> "ReEnroll", signer |-> keyA, opens |-> TRUE,
   env |-> [endpoint |-> b, enroll |-> tokB, vkey |-> keyA],
   notBefore |-> 0, notAfter |-> 0]
revoke == [move EXCEPT !.kind = "Revoke"]
sealed == [move EXCEPT !.opens = FALSE]

MCDirective == {move, revoke, sealed}
MCResponses == {<< >>, <<revoke, move>>, <<move>>, <<sealed>>}
MCInitialEnv == {EnvA}
MCKindOf ==
  (deploy :> "deploy" @@ health :> "health_check")
MCMaxRun == [c \in Cmd |-> IF c = deploy THEN 1 ELSE 0]
=============================================================================
