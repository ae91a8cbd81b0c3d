------------------------------ MODULE HostImages ------------------------------
(***************************************************************************)
(* ensure_docker_image and ensure_network, and the admission of these and  *)
(* of deploy (execute_container_action): policies, then cosign, then the   *)
(* first docker command.  One image reference per request and one network; *)
(* what else deploy does is in DockerActions.  The registry, cosign and    *)
(* the other users of the daemon are external.                             *)
(***************************************************************************)
EXTENDS ExecFrame

CONSTANT Policy  \* the environments the agent is started in

\* What can be wrong with a request, and what the environment can waive.
Flaw == {"digest", "network", "mount", "sensitive_mount", "ports", "secrets"}
Waivable == {"digest", "network", "mount"}

PolicyType == [waived : SUBSET Waivable, cosign : {"off", "on", "unset"}]

ASSUME PolicyAssumption == Policy \subseteq PolicyType

VARIABLES
  policy,    \* the PARTON_ variables; cosign "unset": on, but without its key or identity
  tarball,   \* where PARTON_IMAGE_TARBALL[_DIR] leads, and whether it holds the image
  pinned,    \* the image reference of the request has a digest
  local,     \* the image is on the host
  net,       \* the network is there
  verified,  \* history: cosign verified the image during this execution
  fetched,   \* history: the request made docker fetch or run the image
  had        \* history: what is ensured was there when the execution began

imageVars == <<policy, tarball, pinned, local, net, verified, fetched, had>>
imageEnv == <<policy, tarball, pinned, had>>

TarballType == [at : {"none", "file", "dir"}, holds : BOOLEAN]

ImageInit ==
  /\ policy \in Policy
  /\ tarball \in TarballType
  /\ tarball.at = "none" => ~tarball.holds
  /\ pinned = FALSE /\ local \in BOOLEAN /\ net \in BOOLEAN
  /\ verified = FALSE /\ fetched = FALSE /\ had = FALSE

AtImage(s) == engine = "images" /\ step = s

-----------------------------------------------------------------------------
(* Admission.                                                              *)

\* The checks a deploy goes through and those of ensure_docker_image.
Checked(t) == CASE t = "deploy" -> Flaw [] t = "ensure_docker_image" -> {"digest"} [] OTHER -> {}

\* build_cosign_verify_args: a digest whatever was waived, and the key.
CosignArgs(flaws) == "digest" \notin flaws /\ policy.cosign = "on"

Denied(t, flaws) ==
  \/ (flaws \cap Checked(t)) \ policy.waived # {}
  \/ t # "ensure_network" /\ policy.cosign # "off" /\ ~CosignArgs(flaws)

\* The first docker command of an admitted request about an image.
Admits(t) == IF t = "deploy" THEN "docker_run" ELSE "image_inspect"

AcceptHost ==
  /\ engine = "images" /\ step = "idle"
  /\ template' \in {"deploy", "ensure_docker_image", "ensure_network"}
  /\ goal' = None
  /\ \E flaws \in SUBSET Flaw :
       /\ pinned' = ("digest" \notin flaws)
       /\ IF Denied(template', flaws) THEN Done("rejected")
          ELSE /\ reply' = "none"
               /\ step' = IF template' = "ensure_network" THEN "net_inspect"
                          ELSE IF policy.cosign = "on" THEN "verify" ELSE Admits(template')
  /\ had' = IF template' = "ensure_network" THEN net ELSE local
  /\ verified' = FALSE /\ fetched' = FALSE /\ faulted' = FALSE /\ dirty' = FALSE
  /\ UNCHANGED <<engine, faults, policy, tarball, local, net>>

\* Variant of verify_image_signature: a verification that fails is only logged.
VerifyFailsOpen ==
  /\ AtImage("verify")
  /\ Proceed(Admits(template))
  /\ verified' \in BOOLEAN
  /\ NoFault /\ Keep /\ UNCHANGED <<dirty, imageEnv, local, net, fetched>>

\* cosign verify succeeds, or its exit status denies the request.
verify_image_signature ==
  /\ AtImage("verify")
  /\ \/ verified' = TRUE /\ Proceed(Admits(template))
     \/ UNCHANGED verified /\ Done("rejected")
  /\ NoFault /\ Keep /\ UNCHANGED <<dirty, imageEnv, local, net, fetched>>

\* docker run pulls an image that is not there; if it can, or the container
\* does not start, depends on others.
DockerRun ==
  /\ AtImage("docker_run")
  /\ fetched' = TRUE
  /\ \/ local' = TRUE /\ Done("ok")
     \/ local' \in {local, TRUE} /\ Done("error")
  /\ NoFault /\ Keep /\ UNCHANGED <<dirty, imageEnv, net, verified>>

-----------------------------------------------------------------------------
(* ensure_docker_image_with_runner: inspect, pull, load, inspect again.    *)

\* Any failure of docker image inspect reads as a missing image.
InspectImage ==
  /\ AtImage("image_inspect")
  /\ \/ local /\ Done("ok") /\ NoFault
     \/ ~local /\ Proceed("pull") /\ NoFault
     \/ local /\ Proceed("pull") /\ Fault
  /\ Keep /\ UNCHANGED <<dirty, imageEnv, local, net, verified, fetched>>

\* The one file goes before the directory, which is for pinned references only.
resolve_image_tarball_path == tarball.at = "file" \/ (tarball.at = "dir" /\ pinned)

PullImage ==
  /\ AtImage("pull")
  /\ fetched' = TRUE
  /\ \/ local' = TRUE /\ Done("ok")
     \/ /\ UNCHANGED local
        /\ IF resolve_image_tarball_path THEN Proceed("load") ELSE Done("error")
  /\ NoFault /\ Keep /\ UNCHANGED <<dirty, imageEnv, net, verified>>

\* Variant of LoadImage: a load that succeeds is the end of it.
LoadIsEnough ==
  /\ AtImage("load")
  /\ local' = (local \/ tarball.holds)
  /\ Done("ok")
  /\ NoFault /\ Keep /\ UNCHANGED <<dirty, imageEnv, net, verified, fetched>>

LoadImage ==
  /\ AtImage("load")
  /\ \/ local' = (local \/ tarball.holds) /\ Proceed("reinspect") /\ NoFault
     \/ UNCHANGED local /\ Done("error") /\ Fault
  /\ Keep /\ UNCHANGED <<dirty, imageEnv, net, verified, fetched>>

InspectLoaded ==
  /\ AtImage("reinspect")
  /\ \/ local /\ Done("ok") /\ NoFault
     \/ ~local /\ Done("error") /\ NoFault
     \/ local /\ Done("error") /\ Fault
  /\ Keep /\ UNCHANGED <<dirty, imageEnv, local, net, verified, fetched>>

-----------------------------------------------------------------------------
(* ensure_network_response: inspect, then create.                          *)

\* Variant of InspectNetwork: the network is created whether it is there or not.
CreateAlways ==
  /\ AtImage("net_inspect")
  /\ Proceed("net_create") /\ NoFault
  /\ Keep /\ UNCHANGED <<dirty, imageEnv, local, net, verified, fetched>>

InspectNetwork ==
  /\ AtImage("net_inspect")
  /\ \/ net /\ Done("ok") /\ NoFault
     \/ ~net /\ Proceed("net_create") /\ NoFault
     \/ net /\ Proceed("net_create") /\ Fault
  /\ Keep /\ UNCHANGED <<dirty, imageEnv, local, net, verified, fetched>>

\* docker refuses a name that is taken, also by whoever was faster.
CreateNetwork ==
  /\ AtImage("net_create")
  /\ \/ ~net /\ net' = TRUE /\ Done("ok") /\ NoFault
     \/ net /\ UNCHANGED net /\ Done("error") /\ NoFault
     \/ ~net /\ net' \in BOOLEAN /\ Done("error") /\ Fault
  /\ Keep /\ UNCHANGED <<dirty, imageEnv, local, verified, fetched>>

\* Other users of the daemon.
OthersChange ==
  /\ engine = "images"
  /\ \/ local' = ~local /\ UNCHANGED net
     \/ net' = ~net /\ UNCHANGED local
  /\ dirty' = TRUE
  /\ UNCHANGED <<engine, template, goal, step, reply, faults, faulted, imageEnv,
                 verified, fetched>>

ImageNext ==
  \/ AcceptHost \/ verify_image_signature \/ DockerRun
  \/ InspectImage \/ PullImage \/ LoadImage \/ InspectLoaded
  \/ InspectNetwork \/ CreateNetwork \/ OthersChange

-----------------------------------------------------------------------------

ImageTypeOK ==
  /\ policy \in PolicyType /\ tarball \in TarballType
  /\ pinned \in BOOLEAN /\ local \in BOOLEAN /\ net \in BOOLEAN
  /\ verified \in BOOLEAN /\ fetched \in BOOLEAN /\ had \in BOOLEAN

\* An image or a network answered as ensured is there, unless somebody else
\* changed the daemon meanwhile: also after a docker load that succeeded with an
\* archive of something else (try_load_image_tarball, ensure_network_response).
EnsureAnswerTrue ==
  Answered /\ reply = "ok" /\ ~dirty =>
    /\ template = "ensure_docker_image" => local
    /\ template = "ensure_network" => net

\* To ensure what is there already succeeds, and an image that is there is not
\* asked of the registry again, as long as nobody interferes and no command
\* fails: an action that is executed again after its lease ran out is harmless
\* (ensure_docker_image_with_runner, ensure_network_response).
EnsureRepeats ==
  Answered /\ had /\ ~dirty /\ ~faulted
  /\ template \in {"ensure_docker_image", "ensure_network"} /\ reply # "rejected"
    => reply = "ok" /\ ~fetched

\* docker is not asked to pull or to run an image the policies deny, nor, with
\* cosign on, one that was not verified by this very request; waiving the digest
\* does not waive it for cosign (validate_deploy_request,
\* validate_ensure_image_request, verify_image_signature).
NothingUnadmitted ==
  fetched =>
    /\ pinned \/ "digest" \in policy.waived
    /\ policy.cosign # "off" => policy.cosign = "on" /\ pinned /\ verified
=============================================================================
