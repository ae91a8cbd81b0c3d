-------------------------- MODULE MCDockerActions --------------------------
(***************************************************************************)
(* DockerActions with three containers: the expected one, a newer one of   *)
(* the same name, and the one a deploy starts.                             *)
(***************************************************************************)
EXTENDS DockerActions, TLC

CONSTANTS c1, c2, c3

MCSymmetry == Permutations(Id)
=============================================================================
