------------------------- MODULE DockerActionsProofs -------------------------
(***************************************************************************)
(* Proofs about DockerActions, for any set of container ids: the types,    *)
(* then one inductive invariant, IInv, from which the properties of the    *)
(* replies follow.                                                         *)
(***************************************************************************)
EXTENDS DockerActions, TLAPS

\* The commands of a deploy up to docker run.
BeforeRun == {"preclean", "cleanstop", "cleanrm", "secret", "args", "run"}

\* Which request is at which command, and that docker run was not called yet.
Stage ==
  /\ pc \in BeforeRun \cup {"unlink"} => req.action = "deploy"
  /\ pc \in {"guard", "act", "rmv"} => req.action # "deploy"
  /\ pc = "rmv" => req.action = "teardown"
  /\ pc = "guard" => Guarded(req)
  /\ pc \in BeforeRun \cup {"guard", "act", "rmv"} => ~ran /\ started = None
  /\ pc = "down" => reply = "none"

\* Between the inspect and the command the name stands for the container that
\* was inspected, or for none.
NameChecked ==
  req.expected # None /\ ~stale
  /\ (pc \in {"cleanstop", "cleanrm"} \/ (pc = "act" /\ req.action # "start"))
    => holder \in {req.expected, None}

\* After the stop of a teardown, done or skipped, the expected container is stopped.
StopDone ==
  pc = "rmv" /\ req.expected # None /\ ~stale /\ ~misread => req.expected \notin running

\* The container that docker run started has the name.
RunDone == pc = "unlink" /\ started # None => stale \/ holder = started

\* The safety properties, each with what makes it inductive.
Safety ==
  /\ Stage
  /\ NameChecked /\ GuardedHitsExpected
  /\ StopDone /\ StopAnswerTrue
  /\ RunDone /\ DeployAnswerTrue
  /\ SecretsGoWithRun

IInv == TypeOK /\ Safety

-----------------------------------------------------------------------------
(* The types.                                                              *)

LEMMA RequestType ==
  ASSUME NEW r \in Request
  PROVE  /\ r.action \in {"start", "stop", "restart", "deploy", "teardown"}
         /\ r.expected \in Id \cup {None}
         /\ r.secrets \in BOOLEAN /\ r.badArgs \in BOOLEAN /\ r.volumes \in BOOLEAN
         /\ r.volumes => r.action = "teardown"
BY DEF Request

LEMMA NoRequestType == NoRequest \in Request
BY DEF NoRequest, Request

\* A request is only stopped or removed by name while the name is held.
LEMMA HitsType ==
  ASSUME holder \in Id, stale \in BOOLEAN, NEW by \in {"stop", "restart", "clean", "rmv"},
         Hits(by)
  PROVE  hit' \in HitType /\ hit' = [id |-> holder, by |-> by, stale |-> stale]
BY DEF Hits, HitType

LEMMA InitTypeOK == Init => TypeOK
BY NoRequestType, IdAssumption DEF Init, TypeOK

LEMMA NextTypeOK == TypeOK /\ [Next]_vars => TypeOK'
<1> SUFFICES ASSUME TypeOK, [Next]_vars PROVE TypeOK'
  OBVIOUS
<1> USE IdAssumption DEF TypeOK
<1>1. CASE Accept
  BY <1>1 DEF Accept, daemonVars
<1>2. CASE Guard
  BY <1>2 DEF Guard, Inspect, AfterStop, Done, daemonVars
<1>3. CASE Preclean
  BY <1>3 DEF Preclean, Inspect, Done, daemonVars
<1>4. CASE CommandFails
  BY <1>4 DEF CommandFails, Done, daemonVars, histVars
<1>5. CASE Act
  <2>1. CASE StartContainer
    BY <2>1 DEF StartContainer, Done, histVars
  <2>2. CASE StopContainer
    BY <2>2, HitsType DEF StopContainer, AfterStop, Done
  <2>3. CASE RestartContainer
    BY <2>3, HitsType DEF RestartContainer, Done
  <2>4. CASE RemoveVolumes
    BY <2>4, HitsType DEF RemoveVolumes, Done
  <2> QED BY <1>5, <2>1, <2>2, <2>3, <2>4 DEF Act
<1>6. CASE Deploy
  <2>1. CASE CleanStop
    BY <2>1, HitsType DEF CleanStop
  <2>2. CASE CleanRm
    BY <2>2, HitsType DEF CleanRm
  <2>3. CASE WriteSecret
    BY <2>3 DEF WriteSecret, Done, daemonVars, histVars
  <2>4. CASE BuildArgs
    BY <2>4 DEF BuildArgs, Done, daemonVars, histVars
  <2>5. CASE RunContainer
    BY <2>5 DEF RunContainer, histVars
  <2>6. CASE RunFails
    BY <2>6 DEF RunFails, daemonVars, histVars
  <2>7. CASE Unlink
    BY <2>7 DEF Unlink, Done, daemonVars, histVars
  <2> QED BY <1>6, <2>1, <2>2, <2>3, <2>4, <2>5, <2>6, <2>7 DEF Deploy
<1>7. CASE Kill
  BY <1>7 DEF Kill, daemonVars, histVars
<1>8. CASE Restart
  BY <1>8 DEF Restart, daemonVars, histVars
<1>9. CASE Other
  BY <1>9 DEF Other, OtherCreates, OtherRemoves, OtherStartsOrStops, agentVars
<1>10. CASE UNCHANGED vars
  BY <1>10 DEF vars
<1> QED
  BY <1>1, <1>2, <1>3, <1>4, <1>5, <1>6, <1>7, <1>8, <1>9, <1>10 DEF Next

\* The daemon and the agent keep their types, for any set of ids: the name
\* always stands for a container that was created, and nothing but the holder
\* of the name runs under it (all of docker_exec.rs).
THEOREM TypeCorrect == Spec => []TypeOK
<1>1. Init => TypeOK
  BY InitTypeOK
<1>2. TypeOK /\ [Next]_vars => TypeOK'
  BY NextTypeOK
<1> QED BY <1>1, <1>2, PTL DEF Spec

-----------------------------------------------------------------------------
(* The inductive invariant.                                                *)

LEMMA InitIInv == Init => IInv
<1> SUFFICES ASSUME Init PROVE IInv
  OBVIOUS
<1>1. TypeOK
  BY InitTypeOK
<1>2. Stage /\ NameChecked /\ StopDone /\ RunDone
  BY DEF Init, Stage, NameChecked, StopDone, RunDone, BeforeRun
<1>3. GuardedHitsExpected /\ StopAnswerTrue /\ DeployAnswerTrue /\ SecretsGoWithRun
  BY DEF Init, GuardedHitsExpected, StopAnswerTrue, DeployAnswerTrue, SecretsGoWithRun,
         Answered
<1> QED BY <1>1, <1>2, <1>3 DEF IInv, Safety

\* Every action of the agent and of the other users keeps them.
LEMMA NextSafety == IInv /\ [Next]_vars => Safety'
<1> SUFFICES ASSUME TypeOK, Safety, [Next]_vars PROVE Safety'
  BY DEF IInv
<1> USE DEF Safety, Stage, NameChecked, GuardedHitsExpected, StopDone, StopAnswerTrue, RunDone,
            DeployAnswerTrue, SecretsGoWithRun, Answered, BeforeRun
<1>1. CASE Accept
  BY <1>1 DEF Accept, Guarded, daemonVars, TypeOK, Request
<1>2. CASE Guard
  <2>1. PICK seen \in {holder, None} :
          /\ misread' = (seen # holder)
          /\ IF seen = req.expected THEN pc' = "act" /\ UNCHANGED reply
                                    ELSE AfterStop("skipped")
    BY <1>2 DEF Guard, Inspect, GuardMatches
  <2>2. /\ pc = "guard" /\ UNCHANGED <<req, envFile, ran, started, hit>>
        /\ UNCHANGED <<holder, running, used>>
    BY <1>2 DEF Guard, Inspect, daemonVars
  <2>3. CASE seen = req.expected
    BY <2>1, <2>2, <2>3 DEF Guarded
  <2>4. CASE seen # req.expected
    <3>1. \/ pc' = "rmv" /\ req.action = "teardown"
          \/ pc' = "idle" /\ reply' = "skipped"
      BY <2>1, <2>4 DEF AfterStop, Done
    <3>2. ~misread' => req.expected \notin running
      BY <2>1, <2>4 DEF TypeOK
    <3> QED BY <2>2, <3>1, <3>2 DEF Guarded
  <2> QED BY <2>3, <2>4
<1>3. CASE Preclean
  BY <1>3 DEF Preclean, Inspect, Done, GuardMatches, Guarded, daemonVars
<1>4. CASE CommandFails
  BY <1>4 DEF CommandFails, Done, daemonVars, histVars
<1>5. CASE StartContainer
  BY <1>5 DEF StartContainer, Done, histVars
<1>6. CASE StopContainer
  BY <1>6 DEF StopContainer, AfterStop, Hits, Done, TypeOK
<1>7. CASE RestartContainer
  BY <1>7 DEF RestartContainer, Hits, Done
<1>8. CASE RemoveVolumes
  BY <1>8 DEF RemoveVolumes, Hits, Done
<1>9. CASE CleanStop
  BY <1>9 DEF CleanStop, Hits
<1>10. CASE CleanRm
  BY <1>10 DEF CleanRm, Hits
<1>11. CASE WriteSecret
  BY <1>11 DEF WriteSecret, Done, daemonVars, histVars
<1>12. CASE BuildArgs
  BY <1>12 DEF BuildArgs, Done, daemonVars, histVars
<1>13. CASE RunContainer
  BY <1>13 DEF RunContainer, histVars
<1>14. CASE RunFails
  BY <1>14 DEF RunFails, daemonVars, histVars
<1>15. CASE Unlink
  BY <1>15 DEF Unlink, Done, daemonVars, histVars
<1>16. CASE Kill
  BY <1>16 DEF Kill, daemonVars, histVars
<1>17. CASE Restart
  BY <1>17 DEF Restart, daemonVars, histVars
<1>18. CASE Other
  BY <1>18 DEF Other, OtherCreates, OtherRemoves, OtherStartsOrStops, agentVars
<1>19. CASE UNCHANGED vars
  BY <1>19 DEF vars
<1> QED
  BY <1>1, <1>2, <1>3, <1>4, <1>5, <1>6, <1>7, <1>8, <1>9, <1>10, <1>11, <1>12,
     <1>13, <1>14, <1>15, <1>16, <1>17, <1>18, <1>19 DEF Next, Act, Deploy

THEOREM Invariance == Spec => []IInv
<1>1. Init => IInv
  BY InitIInv
<1>2. IInv /\ [Next]_vars => IInv'
  BY NextTypeOK, NextSafety DEF IInv
<1> QED BY <1>1, <1>2, PTL DEF Spec

-----------------------------------------------------------------------------
(* What follows from it.                                                   *)

\* A guarded stop, restart or clean-up reaches no container but the expected
\* one, unless the name changes hands between the inspect and the command
\* (maybe_identity_skip_stop_restart, guarded_deploy_precleanup).
THEOREM GuardsHold == Spec => []GuardedHitsExpected
<1>1. IInv => GuardedHitsExpected
  BY DEF IInv, Safety
<1> QED BY <1>1, Invariance, PTL

\* A stop or teardown answered as done or skipped leaves the expected container
\* stopped, as long as nobody interferes and the inspect did not fail
\* (identity_skip_response).
THEOREM StopAnswersAreTrue == Spec => []StopAnswerTrue
<1>1. IInv => StopAnswerTrue
  BY DEF IInv, Safety
<1> QED BY <1>1, Invariance, PTL

\* A deploy answered as a success started the container that has the name, though
\* the results of its clean-up are ignored (run_general_action).
THEOREM DeployAnswersAreTrue == Spec => []DeployAnswerTrue
<1>1. IInv => DeployAnswerTrue
  BY DEF IInv, Safety
<1> QED BY <1>1, Invariance, PTL

\* No answer that follows a docker run leaves the secret env file on disk
\* (run_general_action).
THEOREM SecretsGo == Spec => []SecretsGoWithRun
<1>1. IInv => SecretsGoWithRun
  BY DEF IInv, Safety
<1> QED BY <1>1, Invariance, PTL
=============================================================================
