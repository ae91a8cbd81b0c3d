---------------------------- MODULE DockerActions ----------------------------
(***************************************************************************)
(* The docker actions that name a container (start, stop, restart, deploy) *)
(* and teardown_handoff, as the docker commands they run one after another *)
(* while other users of the docker daemon go on.                           *)
(*                                                                         *)
(* One container name is modelled, and the containers that hold it in      *)
(* turn.  The daemon is external: any command may fail, and docker inspect *)
(* may fail for a container that is there.  A command the daemon still     *)
(* carries out after the agent was killed counts among the other users'.   *)
(* A file just written can be removed.  Left out: images, networks, the    *)
(* arguments of docker run, and the texts of the replies.                  *)
(***************************************************************************)
EXTENDS Naturals

CONSTANTS
  Id,     \* bound: ids for the containers of one behaviour
  None

ASSUME IdAssumption == None \notin Id

\* expected: expected_container_id; secrets: secret_env_vars is not empty;
\* badArgs: a command argument is not a string; volumes: remove_volumes.
Request ==
  {r \in [action : {"start", "stop", "restart", "deploy", "teardown"},
          expected : Id \cup {None},
          secrets : BOOLEAN, badArgs : BOOLEAN, volumes : BOOLEAN] :
     /\ r.secrets \/ r.badArgs => r.action = "deploy"
     /\ r.volumes => r.action = "teardown"}

\* A container that was stopped, restarted or removed: by which command, and
\* whether the name had changed hands or state since the agent's inspect.
HitType ==
  [id : Id, by : {"stop", "restart", "clean", "rmv"}, stale : BOOLEAN]

VARIABLES
  pc,        \* the docker command that is next
  req,       \* the request being executed
  reply,     \* its reply: "none", "ok", "skipped" (a success too), "rejected", "error"
  envFile,   \* the secret env file of the request exists
  holder,    \* the container the name stands for, or None
  running,   \* the containers that run
  used,      \* the ids given out so far
  ran,       \* docker run was called for the request
  started,   \* the container it started, or None
  stale,     \* history: holder or running changed since the agent's inspect
  misread,   \* history: that inspect failed for a container
  hit        \* history: the last container the request stopped or removed

vars == <<pc, req, reply, envFile, holder, running, used, ran, started, stale,
          misread, hit>>

agentVars  == <<pc, req, reply, envFile, ran, started>>
daemonVars == <<holder, running, used>>
histVars   == <<stale, misread, hit>>

NoRequest == [action |-> "start", expected |-> None, secrets |-> FALSE,
              badArgs |-> FALSE, volumes |-> FALSE]

Init ==
  /\ pc = "idle" /\ req = NoRequest /\ reply = "none" /\ envFile = FALSE
  /\ holder \in Id \cup {None}
  /\ running \in SUBSET (IF holder = None THEN {} ELSE {holder})
  /\ used = IF holder = None THEN {} ELSE {holder}
  /\ ran = FALSE /\ started = None
  /\ stale = FALSE /\ misread = FALSE /\ hit = None

-----------------------------------------------------------------------------
(* Other users of the daemon, and containers that exit on their own.       *)

OtherCreates ==
  /\ holder = None
  /\ \E id \in Id \ used :
       /\ holder' = id
       /\ used' = used \cup {id}
       /\ running' \in {running, running \cup {id}}
  /\ stale' = TRUE
  /\ UNCHANGED <<agentVars, misread, hit>>

OtherRemoves ==
  /\ holder # None
  /\ holder' = None
  /\ running' = running \ {holder}
  /\ stale' = TRUE
  /\ UNCHANGED <<agentVars, used, misread, hit>>

OtherStartsOrStops ==
  /\ holder # None
  /\ running' = IF holder \in running THEN running \ {holder} ELSE running \cup {holder}
  /\ stale' = TRUE
  /\ UNCHANGED <<agentVars, holder, used, misread, hit>>

Other == OtherCreates \/ OtherRemoves \/ OtherStartsOrStops

-----------------------------------------------------------------------------
(* The identity guards.                                                    *)

Done(r) == pc' = "idle" /\ reply' = r

Guarded(r) == r.action # "start" /\ r.expected # None

\* A validated request.  Every deploy writes an env file of its own name.
Accept ==
  /\ pc = "idle"
  /\ req' \in Request
  /\ pc' = IF req'.action = "deploy" THEN "preclean"
           ELSE IF Guarded(req') THEN "guard" ELSE "act"
  /\ reply' = "none" /\ envFile' = FALSE /\ ran' = FALSE /\ started' = None
  /\ stale' = FALSE /\ misread' = FALSE /\ hit' = None
  /\ UNCHANGED daemonVars

\* docker_inspect_container_id: any failure reads as an absent container.
Inspect(seen) ==
  /\ seen \in {holder, None}
  /\ misread' = (seen # holder)
  /\ stale' = FALSE
  /\ UNCHANGED <<req, envFile, ran, started, daemonVars, hit>>

\* Variants of GuardMatches: any container will do; ids are not normalised
\* and never compare equal.
GuardMatchesAny(seen) == seen # None
GuardMatchesRaw(seen) == FALSE

GuardMatches(seen) == seen = req.expected

\* A teardown that asked for its volumes to be removed goes on to that even
\* when the stop was skipped.
AfterStop(r) ==
  IF req.action = "teardown" /\ req.volumes
  THEN pc' = "rmv" /\ reply' = r
  ELSE Done(r)

\* maybe_identity_skip_stop_restart.
Guard ==
  /\ pc = "guard"
  /\ \E seen \in Id \cup {None} :
       /\ Inspect(seen)
       /\ IF GuardMatches(seen) THEN pc' = "act" /\ UNCHANGED reply
                                ELSE AfterStop("skipped")

\* guarded_deploy_precleanup, up to its decision.
Preclean ==
  /\ pc = "preclean"
  /\ \E seen \in Id \cup {None} :
       /\ Inspect(seen)
       /\ IF seen = None THEN pc' = "secret" /\ UNCHANGED reply
          ELSE IF req.expected = None \/ GuardMatches(seen)
          THEN pc' = "cleanstop" /\ UNCHANGED reply
          ELSE Done("error")

\* docker cannot be run, or it refuses the command.
CommandFails ==
  /\ pc \in {"guard", "preclean", "act", "rmv"}
  /\ Done("error")
  /\ UNCHANGED <<req, envFile, ran, started, daemonVars, histVars>>

-----------------------------------------------------------------------------
(* The commands themselves: they name the container, not its id.           *)

Hits(by) == hit' = [id |-> holder, by |-> by, stale |-> stale]

StartContainer ==
  /\ pc = "act" /\ req.action = "start"
  /\ holder # None
  /\ running' = running \cup {holder}
  /\ Done("ok")
  /\ UNCHANGED <<req, envFile, ran, started, holder, used, histVars>>

\* Variant of StopContainer: a container that is not there counts as stopped.
StopAbsent ==
  /\ pc = "act" /\ req.action \in {"stop", "teardown"}
  /\ running' = running \ {holder}
  /\ Hits("stop")
  /\ AfterStop("ok")
  /\ UNCHANGED <<req, envFile, ran, started, holder, used, stale, misread>>

StopContainer ==
  /\ pc = "act" /\ req.action \in {"stop", "teardown"}
  /\ holder # None
  /\ running' = running \ {holder}
  /\ Hits("stop")
  /\ AfterStop("ok")
  /\ UNCHANGED <<req, envFile, ran, started, holder, used, stale, misread>>

RestartContainer ==
  /\ pc = "act" /\ req.action = "restart"
  /\ holder # None
  /\ running' = running \cup {holder}
  /\ Hits("restart")
  /\ Done("ok")
  /\ UNCHANGED <<req, envFile, ran, started, holder, used, stale, misread>>

\* docker rm -v refuses a running container.
RemoveVolumes ==
  /\ pc = "rmv"
  /\ holder # None /\ holder \notin running
  /\ holder' = None
  /\ Hits("rmv")
  /\ Done("ok")
  /\ UNCHANGED <<req, envFile, ran, started, running, used, stale, misread>>

-----------------------------------------------------------------------------
(* deploy after its inspect.                                               *)

\* The results of docker stop and docker rm are not looked at.
CleanStop ==
  /\ pc = "cleanstop"
  /\ pc' = "cleanrm"
  /\ \/ holder # None /\ running' = running \ {holder} /\ Hits("clean")
     \/ UNCHANGED <<running, hit>>
  /\ UNCHANGED <<req, reply, envFile, ran, started, holder, used, stale, misread>>

CleanRm ==
  /\ pc = "cleanrm"
  /\ pc' = "secret"
  /\ \/ holder # None /\ holder \notin running /\ holder' = None /\ Hits("clean")
     \/ UNCHANGED <<holder, hit>>
  /\ UNCHANGED <<req, reply, envFile, ran, started, running, used, stale, misread>>

\* A write that fails halfway leaves the file behind.
WriteSecret ==
  /\ pc = "secret"
  /\ \/ ~req.secrets /\ pc' = "args" /\ UNCHANGED <<reply, envFile>>
     \/ req.secrets /\ envFile' = TRUE /\ pc' = "args" /\ UNCHANGED reply
     \/ req.secrets /\ envFile' \in BOOLEAN /\ Done("error")
  /\ UNCHANGED <<req, ran, started, daemonVars, histVars>>

\* An argument that is not a string is found here, after the clean-up and
\* with the env file on disk.
BuildArgs ==
  /\ pc = "args"
  /\ IF req.badArgs THEN Done("rejected") ELSE pc' = "run" /\ UNCHANGED reply
  /\ UNCHANGED <<req, envFile, ran, started, daemonVars, histVars>>

RunContainer ==
  /\ pc = "run"
  /\ holder = None
  /\ \E id \in Id \ used :
       /\ holder' = id
       /\ used' = used \cup {id}
       /\ running' = running \cup {id}
       /\ started' = id
  /\ ran' = TRUE
  /\ pc' = "unlink"
  /\ UNCHANGED <<req, reply, envFile, histVars>>

\* The name is taken, there is no image, or the new container does not start
\* and stays behind.
RunFails ==
  /\ pc = "run"
  /\ \/ UNCHANGED daemonVars
     \/ /\ holder = None
        /\ \E id \in Id \ used : holder' = id /\ used' = used \cup {id}
        /\ UNCHANGED running
  /\ ran' = TRUE
  /\ pc' = "unlink"
  /\ UNCHANGED <<req, reply, envFile, started, histVars>>

\* Variant of Unlink: the error of docker run returns before the removal.
UnlinkOnSuccess ==
  /\ pc = "unlink"
  /\ envFile' = (envFile /\ started = None)
  /\ Done(IF started # None THEN "ok" ELSE "error")
  /\ UNCHANGED <<req, ran, started, daemonVars, histVars>>

\* Variant of Unlink: the error of docker run is dropped.
UnlinkDropsError ==
  /\ pc = "unlink"
  /\ envFile' = FALSE
  /\ Done("ok")
  /\ UNCHANGED <<req, ran, started, daemonVars, histVars>>

\* The env file goes first, then the result of docker run is looked at.
Unlink ==
  /\ pc = "unlink"
  /\ envFile' = FALSE
  /\ Done(IF started # None THEN "ok" ELSE "error")
  /\ UNCHANGED <<req, ran, started, daemonVars, histVars>>

-----------------------------------------------------------------------------
(* The agent may be killed between two commands.                           *)

Kill ==
  /\ pc # "down"
  /\ pc' = "down" /\ reply' = "none"
  /\ UNCHANGED <<req, envFile, ran, started, daemonVars, histVars>>

Restart ==
  /\ pc = "down"
  /\ pc' = "idle"
  /\ UNCHANGED <<req, reply, envFile, ran, started, daemonVars, histVars>>

-----------------------------------------------------------------------------
(* The specification.                                                      *)

Act == StartContainer \/ StopContainer \/ RestartContainer \/ RemoveVolumes

Deploy ==
  CleanStop \/ CleanRm \/ WriteSecret \/ BuildArgs \/ RunContainer \/ RunFails \/ Unlink

Next ==
  \/ Accept \/ Guard \/ Preclean \/ CommandFails \/ Act \/ Deploy
  \/ Kill \/ Restart \/ Other

Spec == Init /\ [][Next]_vars

-----------------------------------------------------------------------------
(* Properties.                                                             *)

\* Every variable keeps its type, and the name stands for a known container.
TypeOK ==
  /\ pc \in {"idle", "guard", "preclean", "act", "rmv", "cleanstop", "cleanrm",
             "secret", "args", "run", "unlink", "down"}
  /\ req \in Request
  /\ reply \in {"none", "ok", "skipped", "rejected", "error"}
  /\ envFile \in BOOLEAN
  /\ holder \in Id \cup {None}
  /\ running \subseteq {holder} \ {None}
  /\ used \subseteq Id
  /\ ran \in BOOLEAN
  /\ started \in Id \cup {None}
  /\ stale \in BOOLEAN
  /\ misread \in BOOLEAN
  /\ hit \in HitType \cup {None}

\* A guarded stop, restart or clean-up of a deploy reaches no container but
\* the expected one, unless the name changes hands between the inspect and
\* the command (maybe_identity_skip_stop_restart, guarded_deploy_precleanup).
GuardedHitsExpected ==
  hit # None /\ req.expected # None /\ ~hit.stale /\ hit.by # "rmv"
    => hit.id = req.expected

Answered == pc = "idle" /\ reply # "none"

\* A guarded stop or teardown that is answered as a success, done or skipped,
\* leaves the expected container stopped, as long as nobody else interferes
\* and the inspect did not fail (identity_skip_response: success is true).
StopAnswerTrue ==
  Answered /\ reply # "error" /\ req.action \in {"stop", "teardown"}
  /\ req.expected # None /\ ~stale /\ ~misread
    => req.expected \notin running

\* A deploy is answered as a success only if the name stands for the
\* container it started, though the results of its clean-up are ignored and
\* the result of docker run waits for the removal of the env file
\* (run_general_action).
DeployAnswerTrue ==
  Answered /\ reply = "ok" /\ req.action = "deploy"
    => started # None /\ (stale \/ holder = started)

\* Once docker run has returned, whatever it returned, the answer goes out
\* without the secret env file on disk (run_general_action).
SecretsGoWithRun == Answered /\ ran => ~envFile

-----------------------------------------------------------------------------
(* What the documentation says and the code does not do.                   *)

\* The secret env file is short-lived: unless writing it failed, no answered
\* request leaves it behind (the doc of ContainerActionRequest.secret_env_vars),
\* also not one with an argument that is not a string, which is rejected when
\* it is executed (the doc of ContainerActionRequest.command).
SecretFileShortLived == Answered /\ reply # "error" => ~envFile

\* A stale stop does not cost a newer container of the same name its life,
\* nor does the removal of volumes that follows the stop of a teardown (the
\* doc of ContainerActionRequest.expected_container_id).
NewerContainerSpared ==
  hit # None /\ req.expected # None /\ ~hit.stale => hit.id = req.expected
=============================================================================
