---------------------------- MODULE MCAgentLoop ----------------------------
(***************************************************************************)
(* AgentLoop with an agent installed at control plane a, a directive that  *)
(* moves it from a to b, one that moves it on from b, one that a issues    *)
(* after the move, a revoke, a forgery and a ciphertext for another box    *)
(* key.  Mutants of the model's definitions follow the constants.          *)
(***************************************************************************)
EXTENDS AgentLoop

CONSTANTS a, b, keyA, keyB, keyX, tokA, tokB, tokC

MCEnv == [endpoint |-> a, enroll |-> tokA, vkey |-> keyA]
MCBareEnv == [MCEnv EXCEPT !.endpoint = None]

ReEnroll(signer, env, opens, notAfter) ==
  [kind |-> "ReEnroll", signer |-> signer, opens |-> opens, env |-> env,
   notBefore |-> 0, notAfter |-> notAfter]

EnvB == [endpoint |-> b, enroll |-> tokB, vkey |-> keyB]
EnvC == [endpoint |-> a, enroll |-> tokC, vkey |-> keyX]

moveAB == ReEnroll(keyA, EnvB, TRUE, 1)
moveBC == ReEnroll(keyB, EnvC, TRUE, 1)
late   == ReEnroll(keyA, EnvC, TRUE, 0)
forged == ReEnroll(keyX, EnvC, TRUE, 1)
sealed == ReEnroll(keyX, EnvB, FALSE, 1)
revoke == [moveAB EXCEPT !.kind = "Revoke"]

MCDirective == {moveAB, moveBC, late, forged, sealed, revoke}
MCResponses ==
  {<< >>, <<moveAB>>, <<moveBC>>, <<forged>>, <<sealed>>, <<revoke, moveAB>>,
   <<late, moveAB>>}
MCInitialEnv == {MCEnv, MCBareEnv}
=============================================================================
