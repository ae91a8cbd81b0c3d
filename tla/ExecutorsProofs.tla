---------------------------- MODULE ExecutorsProofs ----------------------------
(***************************************************************************)
(* Proofs about Executors, for every value of its constants: what is       *)
(* demanded of a request against what its command splices; the admission   *)
(* of images; the answers of ensure_docker_image, ensure_network, grow_fs; *)
(* the rows of the container report.  Most of them rest on Owner: which    *)
(* commands a step belongs to.                                             *)
(***************************************************************************)
EXTENDS Executors, FiniteSetTheorems, TLAPS

-----------------------------------------------------------------------------
(* The parameters of an execution.                                         *)

\* The parameters being executed are those of an accepted request, completed.
GoalAccepted ==
  goal # None =>
    /\ template \in TemplatedExecId
    /\ \E p \in Params : Accepted(p, template) /\ goal = validate_for(p, template)

\* No command changes the template or the parameters under way.
LEMMA PgKeeps == PgNext => UNCHANGED <<engine, template, goal>>
BY DEF PgNext, PgAgent, PgStop, PgRewind, PgClear, PgBackup, PgCopyEnds, PgStart, PgPromote,
   PgPromotionCompletes, PgStrayEnds, Keep, frameVars

LEMMA CopyKeeps == CopyNext => UNCHANGED <<engine, template, goal>>
BY DEF CopyNext, CreateSrc, CreateDst, Dump, Apply, Insert, RowWritten, Keep, frameVars

LEMMA RedisKeeps == RedisNext => UNCHANGED <<engine, template, goal>>
BY DEF RedisNext, RedisCommand, ListKeys, MigrateKeys, KeyWritten, Keep, frameVars

LEMMA ChKeeps == ChNext => UNCHANGED <<engine, template, goal>>
BY DEF ChNext, ChReady, ChWriteXml, ChReload, ChCreateLocal, ChCreateDistributed, ChServer,
   Keep, frameVars

LEMMA MongoKeeps == MongoNext => UNCHANGED <<engine, template, goal>>
BY DEF MongoNext, MongoCommand, Election, Keep, frameVars

\* The actions of the host are not templated execs.
LEMMA HostKeeps ==
  GrowNext \/ ImageNext \/ ProbeNext =>
    engine' = engine /\ (goal' = None \/ UNCHANGED <<template, goal>>)
BY DEF GrowNext, AcceptGrow, try_growpart, Resize, ExpandVolume,
   ImageNext, AcceptHost, verify_image_signature, DockerRun, InspectImage, PullImage, LoadImage,
   InspectLoaded, InspectNetwork, CreateNetwork, OthersChange,
   ProbeNext, StartProbe, EnrichContainer, Summarize, DockerChanges, Keep, frameVars

LEMMA InitGoal == Init => GoalAccepted
BY DEF Init, FrameInit, GoalAccepted

LEMMA NextGoal == GoalAccepted /\ [Next]_vars => GoalAccepted'
<1> SUFFICES ASSUME GoalAccepted, [Next]_vars PROVE GoalAccepted'
  OBVIOUS
<1>1. CASE Accept
  <2>1. CASE goal' = None
    BY <2>1 DEF GoalAccepted
  <2>2. CASE goal' # None
    <3>1. PICK p \in Params :
            Accepted(p, template') /\ goal' = validate_for(p, template')
      BY <1>1, <2>2 DEF Accept
    <3>2. template' \in TemplatedExecId
      BY <1>1 DEF Accept, TemplatesOf, TemplatedExecId, PgTemplate, ChTemplate
    <3> QED BY <3>1, <3>2 DEF GoalAccepted
  <2> QED BY <2>1, <2>2
<1>2. CASE SpawnFails \/ KilledBetween \/ Restart
  BY <1>2 DEF SpawnFails, KilledBetween, Restart, Keep, GoalAccepted
<1>3. CASE PgNext \/ CopyNext \/ RedisNext \/ ChNext \/ MongoNext
  BY <1>3, PgKeeps, CopyKeeps, RedisKeeps, ChKeeps, MongoKeeps DEF GoalAccepted
<1>4. CASE GrowNext \/ ImageNext \/ ProbeNext
  BY <1>4, HostKeeps DEF GoalAccepted
<1>5. CASE UNCHANGED vars
  BY <1>5 DEF vars, frameVars, GoalAccepted
<1> QED BY <1>1, <1>2, <1>3, <1>4, <1>5 DEF Next, FrameNext

\* The port filled in where a connection is spliced is that of the engine.
LEMMA DefaultPort == \A t \in SplicesHost : default_primary_port(t) = EnginePort(t)
BY DEF SplicesHost, default_primary_port, EnginePort, PgStandby, RedisReplicaTemplate,
   RedisClusterTemplate, ChTemplate, ChReadiness, MongoTemplate

\* An accepted request has what its template splices, field by field.
LEMMA AcceptedConn ==
  ASSUME NEW p \in Params, NEW t \in SplicesHost, Accepted(p, t)
  PROVE  /\ validate_for(p, t).primary_host \in Text
         /\ validate_for(p, t).primary_port \in RequestedPorts \cup {EnginePort(t)}
<1>1. t \in requires_primary_conn
  BY DEF SplicesHost, requires_primary_conn
<1>2. p.primary_host \in Text
  BY <1>1 DEF Accepted
<1>3. p.primary_port # 0 => p.primary_port \in RequestedPorts
  BY DEF RequestedPorts
<1> QED BY <1>1, <1>2, <1>3, DefaultPort DEF validate_for

LEMMA AcceptedUser ==
  ASSUME NEW t \in TemplatedExecId, NEW p \in TemplatedExecParams, Accepted(p, t),
         t \in SplicesUser
  PROVE  validate_for(p, t).user \in Text
<1>1. t \in UserDefaults \cup UserRequired
  BY DEF SplicesUser, UserDefaults, UserRequired, requires_mongo_rs_name,
     requires_ch_cluster_name
<1>2. DefaultUser(t) \in Text
  BY CatalogAssumption DEF DefaultUser
<1> QED BY <1>1, <1>2 DEF Accepted, validate_for

LEMMA AcceptedNode ==
  ASSUME NEW t \in TemplatedExecId, NEW p \in TemplatedExecParams, Accepted(p, t),
         t \in SplicesNodeId
  PROVE  validate_for(p, t).cluster_node_id \in Text
BY DEF SplicesNodeId, requires_cluster_node_id, Accepted, validate_for

LEMMA AcceptedSlots ==
  ASSUME NEW t \in TemplatedExecId, NEW p \in TemplatedExecParams, Accepted(p, t),
         t \in requires_slot_range
  PROVE  LET v == validate_for(p, t) IN
         /\ v.slot_start \in Nat /\ v.slot_end \in 0..MaxSlot /\ v.slot_start <= v.slot_end
         /\ t \in OneSlot => v.slot_end = v.slot_start
         /\ t \notin OneSlot => v.slot_end < v.slot_start + TEMPLATED_EXEC_MAX_SLOT_BATCH
<1>1. slot_range_valid(p, t) /\ p.slot_start \in Nat /\ p.slot_end \in Nat
  BY DEF Accepted, TemplatedExecParams
<1>2. validate_for(p, t).slot_start = p.slot_start /\ validate_for(p, t).slot_end = p.slot_end
  BY DEF validate_for
<1> QED BY <1>1, <1>2, CatalogAssumption DEF slot_range_valid

LEMMA AcceptedTopology ==
  ASSUME NEW t \in TemplatedExecId, NEW p \in TemplatedExecParams, Accepted(p, t),
         t \in SplicesTopology
  PROVE  LET peers == validate_for(p, t).topology_peers IN
         /\ peers # << >>
         /\ \A i \in 1..Len(peers) : peers[i].host \in Text /\ peers[i].shard \in Text
<1>1. validate_for(p, t).topology_peers = p.topology_peers /\ topology_peers_valid(p, t)
  BY DEF SplicesTopology, requires_topology_peers, Accepted, validate_for
<1>2. Len(p.topology_peers) >= 1 /\ t = "ch_remote_servers_apply"
  BY <1>1, CatalogAssumption DEF topology_peers_valid, SplicesTopology
<1>3. p.topology_peers # << >>
  BY <1>2
<1> QED BY <1>1, <1>2, <1>3 DEF topology_peers_valid

LEMMA GoalComplete == GoalAccepted => ArgvIsComplete
<1> SUFFICES ASSUME GoalAccepted, goal # None
             PROVE  ArgvIsComplete
  BY DEF ArgvIsComplete
<1>1. PICK p \in Params : Accepted(p, template) /\ goal = validate_for(p, template)
  BY DEF GoalAccepted
<1>2. p \in TemplatedExecParams /\ template \in TemplatedExecId
  BY FrameAssumption DEF GoalAccepted
<1>3. template \in SplicesHost =>
        /\ goal.primary_host \in Text
        /\ goal.primary_port \in RequestedPorts \cup {EnginePort(template)}
  BY <1>1, AcceptedConn
<1>4. template \in SplicesUser => goal.user \in Text
  BY <1>1, <1>2, AcceptedUser
<1>5. template \in SplicesNodeId => goal.cluster_node_id \in Text
  BY <1>1, <1>2, AcceptedNode
<1>6. ASSUME template \in requires_slot_range
      PROVE  /\ goal.slot_start \in Nat /\ goal.slot_end \in 0..MaxSlot
             /\ goal.slot_start <= goal.slot_end
             /\ template \in OneSlot => goal.slot_end = goal.slot_start
             /\ template \notin OneSlot =>
                  goal.slot_end < goal.slot_start + TEMPLATED_EXEC_MAX_SLOT_BATCH
  BY <1>1, <1>2, <1>6, AcceptedSlots
<1>7. ASSUME template \in requires_slot_range
      PROVE  SplicedSlots(goal, template) = goal.slot_start..goal.slot_end
  <2>1. CASE template \in OneSlot
    <3>1. SplicedSlots(goal, template) = {goal.slot_start}
      BY <2>1 DEF SplicedSlots, OneSlot
    <3> QED BY <1>6, <1>7, <2>1, <3>1
  <2>2. CASE template \notin OneSlot
    BY <1>7, <2>2 DEF SplicedSlots, requires_slot_range
  <2> QED BY <2>1, <2>2
<1>8. template \in requires_slot_range =>
        /\ SplicedSlots(goal, template) = goal.slot_start..goal.slot_end
        /\ goal.slot_start \in SplicedSlots(goal, template)
        /\ SplicedSlots(goal, template) \subseteq 0..MaxSlot
        /\ \A s \in SplicedSlots(goal, template) :
             s < goal.slot_start + TEMPLATED_EXEC_MAX_SLOT_BATCH
  BY <1>6, <1>7, CatalogAssumption
<1>9. template \in SplicesTopology =>
        /\ goal.topology_peers # << >>
        /\ \A i \in 1..Len(goal.topology_peers) :
             goal.topology_peers[i].host \in Text /\ goal.topology_peers[i].shard \in Text
  BY <1>1, <1>2, AcceptedTopology
<1> QED BY <1>3, <1>4, <1>5, <1>8, <1>9 DEF ArgvIsComplete

\* Whatever the requests, no templated exec runs with a parameter its argv
\* builder splices missing, unchecked or out of range (validate_for against the
\* argv builders).
THEOREM ArgvsAreComplete == Spec => []ArgvIsComplete
BY InitGoal, NextGoal, GoalComplete, PTL DEF Spec

-----------------------------------------------------------------------------
(* The parts of the host: which steps and templates are whose.             *)

HostEngine == {"host", "images", "ps"}
ImageStep ==
  {"verify", "docker_run", "image_inspect", "pull", "load", "reinspect", "net_inspect",
   "net_create"}
StepsOf(e) ==
  CASE e = "host" -> {"growpart", "resize"} [] e = "images" -> ImageStep [] OTHER -> {"inspect"}
HostTemplates(e) ==
  CASE e = "host" -> {"grow_fs"}
    [] e = "images" -> {"deploy", "ensure_docker_image", "ensure_network"}
    [] OTHER -> {"status"}

\* On the host only its own actions are under way, and an answer is given at
\* the end only; elsewhere none of them is.
Owner ==
  /\ engine \in HostEngine =>
       /\ step \in StepsOf(engine) \cup {"idle", "down"}
       /\ step # "idle" => reply = "none"
       /\ step # "idle" \/ reply # "none" => template \in HostTemplates(engine)
  /\ engine \notin HostEngine =>
       (step # "idle" \/ reply # "none" => template \in TemplatedExecId)

LEMMA InitOwner == Init => Owner
BY DEF Init, FrameInit, Owner, HostEngine, StepsOf

\* The commands of the databases do nothing on the host.
LEMMA DatabasesApart ==
  ASSUME Owner, engine \in HostEngine
  PROVE  /\ ~Accept
         /\ PgNext \/ CopyNext \/ RedisNext \/ ChNext \/ MongoNext => UNCHANGED frameVars
<1> USE DEF HostEngine, Owner, StepsOf, HostTemplates, ImageStep
<1>1. ~Accept
  BY DEF Accept, TemplatesOf
<1>2. PgNext => UNCHANGED frameVars
  BY DEF PgNext, PgAgent, PgStop, PgRewind, PgClear, PgBackup, PgCopyEnds, PgStart, PgPromote,
     PgPromotionCompletes, PgStrayEnds, InStandby, PgStandby
<1>3. CopyNext => UNCHANGED frameVars
  BY DEF CopyNext, CreateSrc, CreateDst, Dump, Apply, Insert, RowWritten, At
<1>4. RedisNext => UNCHANGED frameVars
  BY DEF RedisNext, RedisCommand, ListKeys, MigrateKeys, KeyWritten, RedisEngine
<1>5. ChNext => UNCHANGED frameVars
  BY DEF ChNext, ChReady, ChWriteXml, ChReload, ChCreateLocal, ChCreateDistributed, ChServer,
     ChCommand
<1>6. MongoNext => UNCHANGED frameVars
  BY DEF MongoNext, MongoCommand, Election
<1> QED BY <1>1, <1>2, <1>3, <1>4, <1>5, <1>6

\* The actions of the host do nothing elsewhere, or to each other.
LEMMA HostApart ==
  ASSUME Owner
  PROVE  /\ GrowNext => engine = "host"
         /\ ImageNext => engine = "images"
         /\ ProbeNext => engine = "ps"
<1> USE DEF HostEngine, Owner, StepsOf, HostTemplates, ImageStep
<1>1. ImageNext => engine = "images"
  BY DEF ImageNext, AcceptHost, verify_image_signature, DockerRun, InspectImage, PullImage,
     LoadImage, InspectLoaded, InspectNetwork, CreateNetwork, OthersChange, AtImage
<1>2. ProbeNext => engine = "ps"
  BY DEF ProbeNext, StartProbe, EnrichContainer, Summarize, DockerChanges, AtProbe
<1>3. "grow_fs" \notin TemplatedExecId
  BY DEF TemplatedExecId, PgTemplate, PgStandby, RedisReplicaTemplate, RedisClusterTemplate,
     ChTemplate, ChReadiness, MongoTemplate
<1>4. GrowNext => engine = "host"
  BY <1>3 DEF GrowNext, AcceptGrow, try_growpart, Resize, ExpandVolume, AtGrow
<1> QED BY <1>1, <1>2, <1>4

FrameFails == SpawnFails \/ KilledBetween \/ Restart

\* What a step can be on the host.
LEMMA HostMoves ==
  ASSUME Owner, engine \in HostEngine, [Next]_vars
  PROVE  \/ FrameFails /\ UNCHANGED <<growVars, imageVars, probeVars>>
         \/ engine = "host" /\ GrowNext /\ UNCHANGED <<imageVars, probeVars>>
         \/ engine = "images" /\ ImageNext /\ UNCHANGED <<growVars, probeVars>>
         \/ engine = "ps" /\ ProbeNext /\ UNCHANGED <<growVars, imageVars>>
         \/ UNCHANGED <<frameVars, growVars, imageVars, probeVars>>
BY DatabasesApart, HostApart DEF Next, FrameNext, FrameFails, vars

\* What a step leaves alone elsewhere.
LEMMA ElsewhereMoves ==
  ASSUME Owner, engine \notin HostEngine, [Next]_vars
  PROVE  UNCHANGED <<engine, growVars, imageVars, probeVars>>
<1>1. ~GrowNext /\ ~ImageNext /\ ~ProbeNext
  BY HostApart DEF HostEngine
<1>2. FrameNext => UNCHANGED engine
  BY DEF FrameNext, Accept, SpawnFails, KilledBetween, Restart, Keep
<1>3. CASE UNCHANGED vars
  BY <1>3 DEF vars, frameVars
<1> QED BY <1>1, <1>2, <1>3, PgKeeps, CopyKeeps, RedisKeeps, ChKeeps, MongoKeeps DEF Next

LEMMA NextOwner == Owner /\ [Next]_vars => Owner'
<1> SUFFICES ASSUME Owner, [Next]_vars PROVE Owner'
  OBVIOUS
<1>1. CASE engine \in HostEngine
  <2> USE DEF Owner, HostEngine, StepsOf, HostTemplates, ImageStep, Done, Proceed, Dies, Keep
  <2>1. CASE FrameFails
    BY <1>1, <2>1 DEF FrameFails, SpawnFails, KilledBetween, Restart, AtCommand
  <2>2. CASE engine = "host" /\ GrowNext
    BY <2>2 DEF GrowNext, AcceptGrow, try_growpart, Resize, ExpandVolume, AtGrow, Fails,
       frameVars
  <2>3. CASE engine = "images" /\ ImageNext
    BY <2>3 DEF ImageNext, AcceptHost, verify_image_signature, DockerRun, InspectImage,
       PullImage, LoadImage, InspectLoaded, InspectNetwork, CreateNetwork, OthersChange, AtImage,
       Admits
  <2>4. CASE engine = "ps" /\ ProbeNext
    BY <2>4 DEF ProbeNext, StartProbe, EnrichContainer, Summarize, DockerChanges, AtProbe,
       frameVars
  <2>5. CASE UNCHANGED frameVars
    BY <1>1, <2>5 DEF frameVars
  <2> QED BY <1>1, <2>1, <2>2, <2>3, <2>4, <2>5, HostMoves
<1>2. CASE engine \notin HostEngine
  <2>1. engine' = engine
    BY <1>2, ElsewhereMoves
  <2>2. CASE Accept
    <3>1. template' \in TemplatedExecId
      BY <1>2, <2>2 DEF Accept, TemplatesOf, TemplatedExecId, PgTemplate, ChTemplate, HostEngine
    <3> QED BY <1>2, <2>1, <3>1 DEF Owner
  <2>3. CASE SpawnFails \/ KilledBetween \/ Restart
    BY <1>2, <2>1, <2>3 DEF SpawnFails, KilledBetween, Restart, AtCommand, Keep, Done, Dies, Owner
  <2>4. ASSUME UNCHANGED template, step # "idle" \/ reply # "none" \/ UNCHANGED <<step, reply>>
        PROVE  Owner'
    BY <1>2, <2>1, <2>4 DEF Owner
  <2>5. CASE PgNext
    BY <2>4, <2>5, PgKeeps DEF PgNext, PgAgent, PgStop, PgRewind, PgClear, PgBackup, PgCopyEnds,
       PgStart, PgPromote, PgPromotionCompletes, PgStrayEnds, InStandby, frameVars
  <2>6. CASE CopyNext
    BY <2>4, <2>6, CopyKeeps DEF CopyNext, CreateSrc, CreateDst, Dump, Apply, Insert, RowWritten,
       At, frameVars
  <2>7. CASE RedisNext
    BY <2>4, <2>7, RedisKeeps DEF RedisNext, RedisCommand, ListKeys, MigrateKeys, KeyWritten,
       frameVars
  <2>8. CASE ChNext
    BY <2>4, <2>8, ChKeeps DEF ChNext, ChReady, ChWriteXml, ChReload, ChCreateLocal,
       ChCreateDistributed, ChServer, ChCommand, frameVars
  <2>9. CASE MongoNext
    BY <2>4, <2>9, MongoKeeps DEF MongoNext, MongoCommand, Election, frameVars
  <2>10. CASE UNCHANGED vars
    BY <2>4, <2>10 DEF vars, frameVars
  <2>11. ~GrowNext /\ ~ImageNext /\ ~ProbeNext
    BY <1>2, HostApart DEF HostEngine
  <2> QED BY <2>2, <2>3, <2>5, <2>6, <2>7, <2>8, <2>9, <2>10, <2>11 DEF Next, FrameNext
<1> QED BY <1>1, <1>2

-----------------------------------------------------------------------------
(* Images and networks.                                                    *)

DigestAdmitted == pinned \/ "digest" \in policy.waived
CosignAdmitted == policy.cosign # "off" => policy.cosign = "on" /\ pinned

\* Where an action on images stands, what it has been through.
ImageStage ==
  /\ engine # "images" => ~fetched
  /\ engine = "images" =>
       /\ step \in {"net_inspect", "net_create"} => template = "ensure_network"
       /\ step \in {"image_inspect", "pull", "load", "reinspect"} =>
            template = "ensure_docker_image"
       /\ step = "docker_run" => template = "deploy"
       /\ step = "verify" => template \in {"deploy", "ensure_docker_image"}
       /\ fetched \/ step \in ImageStep \ {"net_inspect", "net_create"} =>
            DigestAdmitted /\ CosignAdmitted
       /\ fetched \/ step \in {"docker_run", "image_inspect", "pull", "load", "reinspect"} =>
            policy.cosign = "off" \/ verified

\* What was there when the execution began is there still, and not asked for.
StillThere ==
  /\ step \in {"verify", "image_inspect", "net_inspect"} /\ ~fetched
  /\ IF template = "ensure_network" THEN net ELSE local

HadStage ==
  engine = "images" /\ had /\ ~dirty /\ ~faulted
  /\ template \in {"ensure_docker_image", "ensure_network"}
    => /\ step \in ImageStep => StillThere
       /\ step # "down"

ImageInv == Owner /\ ImageStage /\ HadStage /\ EnsureAnswerTrue /\ EnsureRepeats

LEMMA InitImage == Init => ImageInv
BY InitOwner DEF Init, FrameInit, ImageInit, ImageInv, ImageStage, HadStage, ImageStep,
   EnsureAnswerTrue, EnsureRepeats, Answered

\* The properties of this part say nothing where there are no images.
LEMMA NotTemplated ==
  /\ {"ensure_docker_image", "ensure_network"} \cap TemplatedExecId = {}
  /\ "grow_fs" \notin TemplatedExecId /\ "status" \notin TemplatedExecId
BY DEF TemplatedExecId, PgTemplate, PgStandby, RedisReplicaTemplate, RedisClusterTemplate,
   ChTemplate, ChReadiness, MongoTemplate

LEMMA NextImage == ImageInv /\ [Next]_vars => ImageInv'
<1> SUFFICES ASSUME ImageInv, [Next]_vars PROVE ImageInv'
  OBVIOUS
<1>o. Owner /\ Owner'
  BY NextOwner DEF ImageInv
<1>1. CASE engine # "images"
  <2>1. engine' = engine
    BY <1>o, <1>1, HostMoves, ElsewhereMoves, HostKeeps DEF FrameFails, SpawnFails,
       KilledBetween, Restart, Keep, frameVars
  <2>2. UNCHANGED imageVars
    BY <1>o, <1>1, HostMoves, ElsewhereMoves
  <2>3. HadStage' /\ EnsureAnswerTrue' /\ EnsureRepeats'
    BY <1>o, <1>1, <2>1, NotTemplated DEF Owner, HostEngine, HostTemplates, Answered,
       HadStage, EnsureAnswerTrue, EnsureRepeats
  <2> QED BY <1>o, <1>1, <2>1, <2>2, <2>3 DEF ImageInv, ImageStage, imageVars
<1>2. CASE engine = "images"
  <2> USE DEF ImageInv, Owner, HostEngine, StepsOf, HostTemplates, ImageStep, ImageStage,
          HadStage, StillThere, EnsureAnswerTrue, EnsureRepeats, Answered, DigestAdmitted,
          CosignAdmitted, Done, Proceed, Dies, Keep, NoFault, Fault, imageVars, imageEnv, AtImage
  <2>1. CASE FrameFails /\ UNCHANGED imageVars
    BY <1>o, <1>2, <2>1 DEF FrameFails, SpawnFails, KilledBetween, Restart, AtCommand
  <2>2. CASE AcceptHost
    <3>1. PICK flaws \in SUBSET Flaw :
            /\ pinned' = ("digest" \notin flaws)
            /\ IF Denied(template', flaws) THEN Done("rejected")
               ELSE /\ reply' = "none"
                    /\ step' = IF template' = "ensure_network" THEN "net_inspect"
                               ELSE IF policy.cosign = "on" THEN "verify" ELSE Admits(template')
      BY <2>2 DEF AcceptHost
    <3>2. /\ engine' = "images" /\ policy' = policy /\ local' = local /\ net' = net
          /\ had' = IF template' = "ensure_network" THEN net ELSE local
          /\ template' \in {"deploy", "ensure_docker_image", "ensure_network"}
          /\ fetched' = FALSE /\ faulted' = FALSE /\ dirty' = FALSE
      BY <2>2 DEF AcceptHost
    <3>3. CASE Denied(template', flaws)
      <4>1. step' = "idle" /\ reply' = "rejected"
        BY <3>1, <3>3
      <4> QED BY <1>o, <3>2, <4>1
    <3>4. CASE ~Denied(template', flaws) /\ template' = "ensure_network"
      BY <1>o, <3>1, <3>2, <3>4
    <3>5. CASE ~Denied(template', flaws) /\ template' \in {"deploy", "ensure_docker_image"}
      <4>1. "digest" \in Checked(template')
        BY <3>5 DEF Checked, Flaw
      <4>2. pinned' \/ "digest" \in policy.waived
        BY <3>1, <3>5, <4>1 DEF Denied
      <4>3. policy.cosign # "off" => policy.cosign = "on" /\ pinned'
        <5>1. policy.cosign # "off" => CosignArgs(flaws)
          BY <3>5 DEF Denied
        <5> QED BY <3>1, <5>1 DEF CosignArgs
      <4>4. /\ reply' = "none"
            /\ step' = IF policy.cosign = "on" THEN "verify"
                       ELSE IF template' = "deploy" THEN "docker_run" ELSE "image_inspect"
        BY <3>1, <3>5 DEF Admits
      <4> QED BY <1>o, <3>2, <3>5, <4>2, <4>3, <4>4
    <3> QED BY <3>2, <3>3, <3>4, <3>5
  <2>3. CASE verify_image_signature
    BY <1>o, <1>2, <2>3 DEF verify_image_signature, Admits
  <2>4. CASE DockerRun
    BY <1>o, <1>2, <2>4 DEF DockerRun
  <2>5. CASE InspectImage
    BY <1>o, <1>2, <2>5 DEF InspectImage
  <2>6. CASE PullImage
    BY <1>o, <1>2, <2>6 DEF PullImage
  <2>7. CASE LoadImage
    BY <1>o, <1>2, <2>7 DEF LoadImage
  <2>8. CASE InspectLoaded
    BY <1>o, <1>2, <2>8 DEF InspectLoaded
  <2>9. CASE InspectNetwork
    BY <1>o, <1>2, <2>9 DEF InspectNetwork
  <2>10. CASE CreateNetwork
    BY <1>o, <1>2, <2>10 DEF CreateNetwork
  <2>11. CASE OthersChange
    BY <1>o, <1>2, <2>11 DEF OthersChange
  <2>12. CASE UNCHANGED <<frameVars, imageVars>>
    BY <1>o, <1>2, <2>12 DEF frameVars
  <2> QED BY <1>o, <1>2, <2>1, <2>2, <2>3, <2>4, <2>5, <2>6, <2>7, <2>8, <2>9, <2>10, <2>11,
             <2>12, HostMoves DEF ImageNext
<1> QED BY <1>1, <1>2

LEMMA ImageInvariance == Spec => []ImageInv
BY InitImage, NextImage, PTL DEF Spec

\* Whatever the policies, the requests and the other users of the daemon do,
\* docker does not fetch or run an image the policies deny, nor with cosign on
\* one that this request has not verified (validate_deploy_request,
\* validate_ensure_image_request, verify_image_signature).
THEOREM NothingIsUnadmitted == Spec => []NothingUnadmitted
<1>1. ImageInv => NothingUnadmitted
  BY DEF ImageInv, ImageStage, NothingUnadmitted, DigestAdmitted, CosignAdmitted
<1> QED BY <1>1, ImageInvariance, PTL

\* What is answered as ensured is there, unless somebody else changed the daemon
\* (ensure_docker_image_with_runner, ensure_network_response).
THEOREM EnsureAnswersAreTrue == Spec => []EnsureAnswerTrue
BY ImageInvariance, PTL DEF ImageInv

\* To ensure again what is there succeeds and asks no registry, as long as
\* nobody interferes and no command fails.
THEOREM EnsuringAgainIsHarmless == Spec => []EnsureRepeats
BY ImageInvariance, PTL DEF ImageInv

-----------------------------------------------------------------------------
(* grow_fs.                                                                *)

GrowStage ==
  engine = "host" =>
    /\ filesystem \in Nat /\ partition \in Nat /\ volume \in Nat /\ asked \in Nat
    /\ filesystem <= partition /\ partition <= volume /\ asked <= volume
    /\ step = "resize" /\ ~dirty => asked <= partition

GrowInv == Owner /\ GrowStage /\ GrowAnswerTrue

LEMMA InitGrow == Init => GrowInv
BY InitOwner DEF Init, FrameInit, GrowInit, GrowInv, GrowStage, GrowAnswerTrue, Answered

LEMMA NextGrow == GrowInv /\ [Next]_vars => GrowInv'
<1> SUFFICES ASSUME GrowInv, [Next]_vars PROVE GrowInv'
  OBVIOUS
<1>o. Owner /\ Owner'
  BY NextOwner DEF GrowInv
<1>1. CASE engine # "host"
  <2>1. engine' = engine
    BY <1>o, <1>1, HostMoves, ElsewhereMoves, HostKeeps DEF FrameFails, SpawnFails,
       KilledBetween, Restart, Keep, frameVars
  <2>2. GrowAnswerTrue'
    BY <1>o, <1>1, <2>1, NotTemplated DEF Owner, HostEngine, HostTemplates, Answered,
       GrowAnswerTrue
  <2> QED BY <1>o, <1>1, <2>1, <2>2 DEF GrowInv, GrowStage
<1>2. CASE engine = "host"
  <2> USE DEF GrowInv, Owner, HostEngine, StepsOf, HostTemplates, GrowStage, GrowAnswerTrue,
          Answered, Done, Proceed, Dies, Keep, NoFault, Fault, Fails, growVars, AtGrow
  <2>1. CASE FrameFails /\ UNCHANGED growVars
    BY <1>o, <1>2, <2>1 DEF FrameFails, SpawnFails, KilledBetween, Restart, AtCommand
  <2>2. CASE AcceptGrow
    BY <1>o, <1>2, <2>2 DEF AcceptGrow
  <2>3. CASE try_growpart
    BY <1>o, <1>2, <2>3 DEF try_growpart
  <2>4. CASE Resize
    BY <1>o, <1>2, <2>4 DEF Resize
  <2>5. CASE ExpandVolume
    BY <1>o, <1>2, <2>5 DEF ExpandVolume, frameVars
  <2>6. CASE UNCHANGED <<frameVars, growVars>>
    BY <1>o, <1>2, <2>6 DEF frameVars
  <2> QED BY <1>o, <1>2, <2>1, <2>2, <2>3, <2>4, <2>5, <2>6, HostMoves DEF GrowNext
<1> QED BY <1>1, <1>2

\* Whatever the cloud, the tools and the kills do, a filesystem answered as grown
\* covers the volume as it was when the action began, unless growpart failed or
\* took the wrong name apart (grow_filesystem).
THEOREM GrowAnswersAreTrue == Spec => []GrowAnswerTrue
BY InitGrow, NextGrow, PTL DEF Spec, GrowInv

-----------------------------------------------------------------------------
(* The container report.                                                   *)

ProbeStage ==
  engine = "ps" =>
    /\ docker \in [Ctr -> Docker \cup {Gone}]
    /\ rows \in [Ctr -> ContainerStatus \cup {None}]
    /\ todo \subseteq Listed
    /\ \A c \in todo : ~rows[c].exit_code
    /\ \A c \in Listed :
         /\ rows[c].health \in {"starting", "healthy", "unhealthy"} =>
              rows[c].state = "running" /\ ~rows[c].exit_code
         /\ ~faulted /\ c \notin todo =>
              rows[c].exit_code \/ rows[c].probe_error \/ rows[c].state \in RunningState
    /\ Answered /\ template = "status" =>
         summary = summarize_from_containers(rows) /\ (~faulted => todo = {})

ProbeInv == Owner /\ ProbeStage

LEMMA InitProbe == Init => ProbeInv
<1> SUFFICES ASSUME Init, engine = "ps" PROVE ProbeStage
  BY InitOwner DEF ProbeInv, ProbeStage
<1>1. docker \in [Ctr -> Docker \cup {Gone}] /\ rows = NoRows /\ todo = {} /\ reply = "none"
  BY DEF Init, FrameInit, ProbeInit
<1> QED BY <1>1 DEF ProbeStage, NoRows, Listed, Answered

\* A row of docker ps is typed, and has a health only if it is running.
LEMMA PsRow ==
  ASSUME NEW d \in Docker
  PROVE  /\ DockerPsRow(d) \in ContainerStatus /\ DockerPsRow(d) # None
         /\ ~DockerPsRow(d).exit_code
         /\ DockerPsRow(d).health \in {"starting", "healthy", "unhealthy"} =>
              DockerPsRow(d).state = "running"
<1>1. \/ d.health = "none"
      \/ d.state = "running" /\ d.health \in {"starting", "unhealthy"}
  BY DEF Docker
<1>2. map_docker_state(d.state) \in ContainerState
  BY DEF map_docker_state, ContainerState
<1>3. map_health_from_status(d) \in ContainerHealth
  BY <1>1 DEF map_health_from_status, ContainerHealth
<1>4. DockerPsRow(d) \in ContainerStatus
  BY <1>2, <1>3 DEF DockerPsRow, ContainerStatus
<1>5. DockerPsRow(d).health \in {"starting", "healthy", "unhealthy"} =>
        DockerPsRow(d).state = "running"
  BY <1>1 DEF DockerPsRow, map_health_from_status, map_docker_state, ContainerState
<1> QED BY <1>4, <1>5, ProbeSentinel DEF DockerPsRow

LEMMA EnrichProbe ==
  ASSUME ProbeInv, engine = "ps", EnrichContainer, Owner'
  PROVE  ProbeInv'
<1>1. PICK c \in Ctr : Enrich(c)
  BY DEF EnrichContainer
<1>2. /\ UNCHANGED <<engine, template, goal, step, reply, dirty, docker, summary>>
      /\ step = "inspect"
  BY DEF EnrichContainer, AtProbe, Keep
<1>3. /\ c \in todo /\ todo' = todo \ {c} /\ c \in Listed
      /\ rows[c] \in ContainerStatus /\ rows[c] # None /\ ~rows[c].exit_code
      /\ todo \subseteq Listed /\ rows \in [Ctr -> ContainerStatus \cup {None}]
  BY <1>1 DEF Enrich, ProbeInv, ProbeStage, Listed
<1>4. faulted' = TRUE \/ faulted' = faulted
  BY <1>1 DEF Enrich, NoFault, Fault
<1>5. \A d \in Docker \cup {Gone} : map_docker_state(d.state) \in ContainerState
  BY DEF map_docker_state, ContainerState
<1>6. docker[c] \in Docker \cup {Gone}
  BY DEF ProbeInv, ProbeStage
\* The row is left alone, ...
<1>7. CASE /\ UNCHANGED rows
           /\ rows[c].state \in RunningState \/ faulted' = TRUE
  BY <1>2, <1>3, <1>4, <1>7 DEF ProbeInv, ProbeStage, Listed, Answered
\* ... or takes the answer of docker inspect, or its failure.
<1>8. ASSUME NEW s \in ContainerState, NEW x \in BOOLEAN, NEW e \in BOOLEAN, x \/ e,
             rows' = [rows EXCEPT ![c] = [rows[c] EXCEPT !.state = s, !.exit_code = x,
                                                         !.probe_error = e]],
             rows[c].state \notin RunningState
      PROVE  ProbeInv'
  <2>1. rows[c].health \notin {"starting", "healthy", "unhealthy"}
    BY <1>2, <1>3, <1>8 DEF ProbeInv, ProbeStage, RunningState
  <2>2. /\ rows'[c] \in ContainerStatus /\ rows'[c].health = rows[c].health
        /\ rows'[c].exit_code \/ rows'[c].probe_error
        /\ \A d \in Ctr : d # c => rows'[d] = rows[d]
        /\ rows' \in [Ctr -> ContainerStatus \cup {None}]
    BY <1>3, <1>8 DEF ContainerStatus
  <2>3. Listed' = Listed /\ Listed \subseteq Ctr
    BY <1>3, <2>2, ProbeSentinel DEF Listed
  <2> QED BY <1>2, <1>3, <1>4, <2>1, <2>2, <2>3 DEF ProbeInv, ProbeStage, Answered
<1>9. CASE ~NeedsInspect(c)
  BY <1>1, <1>7, <1>9 DEF Enrich, NeedsInspect
<1>10. CASE NeedsInspect(c) /\ rows' = [rows EXCEPT ![c].state = map_docker_state(docker[c].state),
                                                   ![c].exit_code = TRUE]
  <2>1. rows' = [rows EXCEPT ![c] = [rows[c] EXCEPT !.state = map_docker_state(docker[c].state),
                                                    !.exit_code = TRUE,
                                                    !.probe_error = rows[c].probe_error]]
    BY <1>3, <1>10 DEF ContainerStatus
  <2> QED BY <1>3, <1>5, <1>6, <1>8, <1>10, <2>1 DEF ContainerStatus, NeedsInspect
<1>11. CASE NeedsInspect(c) /\ rows' = [rows EXCEPT ![c].probe_error = TRUE]
  <2>1. rows' = [rows EXCEPT ![c] = [rows[c] EXCEPT !.state = rows[c].state,
                                                    !.exit_code = rows[c].exit_code,
                                                    !.probe_error = TRUE]]
    BY <1>3, <1>11 DEF ContainerStatus
  <2> QED BY <1>3, <1>8, <1>11, <2>1 DEF ContainerStatus, NeedsInspect
<1>12. CASE UNCHANGED rows /\ faulted' = TRUE
  BY <1>7, <1>12
<1> QED BY <1>1, <1>9, <1>10, <1>11, <1>12 DEF Enrich, Fault

LEMMA NextProbe == ProbeInv /\ [Next]_vars => ProbeInv'
<1> SUFFICES ASSUME ProbeInv, [Next]_vars PROVE ProbeInv'
  OBVIOUS
<1>o. Owner /\ Owner'
  BY NextOwner DEF ProbeInv
<1>1. CASE engine # "ps"
  <2>1. engine' = engine
    BY <1>o, <1>1, HostMoves, ElsewhereMoves, HostKeeps DEF FrameFails, SpawnFails,
       KilledBetween, Restart, Keep, frameVars
  <2> QED BY <1>o, <1>1, <2>1 DEF ProbeInv, ProbeStage
<1>2. CASE engine = "ps"
  <2>1. CASE FrameFails /\ UNCHANGED probeVars
    <3>1. ~Answered' /\ (faulted' = faulted \/ faulted' = TRUE)
      BY <1>o, <1>2, <2>1 DEF FrameFails, SpawnFails, KilledBetween, Restart, AtCommand, Dies,
         Owner, HostEngine, HostTemplates, StepsOf, Answered, Fault, Keep
    <3> QED BY <1>o, <1>2, <2>1, <3>1 DEF ProbeInv, ProbeStage, probeVars, Listed
  <2>2. CASE StartProbe
    <3>1. docker' = docker /\ docker \in [Ctr -> Docker \cup {Gone}]
      BY <1>2, <2>2 DEF StartProbe, ProbeInv, ProbeStage
    <3>2. CASE rows' = NoRows /\ todo' = {} /\ summary' = summarize_from_containers(NoRows)
      BY <1>o, <3>1, <3>2 DEF ProbeInv, ProbeStage, NoRows, Listed
    <3>3. ASSUME NEW read \in SUBSET {c \in Ctr : docker[c] # Gone},
                 rows' = [c \in Ctr |-> IF c \in read THEN DockerPsRow(docker[c]) ELSE None],
                 todo' = read, step' = "inspect"
          PROVE  ProbeInv'
      <4>1. \A c \in read : /\ rows'[c] \in ContainerStatus /\ rows'[c] # None
                            /\ ~rows'[c].exit_code
                            /\ rows'[c].health \in {"starting", "healthy", "unhealthy"} =>
                                 rows'[c].state = "running"
        BY <3>1, <3>3, PsRow
      <4>2. Listed' = read
        BY <3>3, <4>1 DEF Listed
      <4>3. rows' \in [Ctr -> ContainerStatus \cup {None}]
        BY <3>3, <4>1
      <4> QED BY <1>o, <3>1, <3>3, <4>1, <4>2, <4>3 DEF ProbeInv, ProbeStage, Answered
    <3> QED BY <2>2, <3>2, <3>3 DEF StartProbe
  <2>3. CASE EnrichContainer
    BY <1>o, <1>2, <2>3, EnrichProbe
  <2>4. CASE Summarize
    BY <1>o, <1>2, <2>4 DEF Summarize, ProbeInv, ProbeStage, Listed, NoFault, Done, Keep
  <2>5. CASE DockerChanges
    BY <1>o, <1>2, <2>5 DEF DockerChanges, ProbeInv, ProbeStage, Listed, Answered, frameVars
  <2>6. CASE UNCHANGED <<frameVars, probeVars>>
    BY <1>o, <1>2, <2>6 DEF frameVars, probeVars, ProbeInv, ProbeStage, Listed, Answered
  <2> QED BY <1>o, <1>2, <2>1, <2>2, <2>3, <2>4, <2>5, <2>6, HostMoves DEF ProbeNext, HostEngine
<1> QED BY <1>1, <1>2

LEMMA ProbeInvariance == Spec => []ProbeInv
BY InitProbe, NextProbe, PTL DEF Spec

\* However the containers change while they are listed and inspected, no row of a
\* report puts the health of one moment beside the end of another
\* (enrich_non_running_with_inspect).
THEOREM RowsAreOfOneMoment == Spec => []RowOfOneMoment
<1>1. ProbeInv => RowOfOneMoment
  BY NotTemplated DEF ProbeInv, ProbeStage, RowOfOneMoment, Owner, HostEngine, HostTemplates,
     Answered
<1> QED BY <1>1, ProbeInvariance, PTL

\* The counts of a report are those of its rows (summarize_from_containers).
THEOREM SummariesMatchRows == Spec => []SummaryMatchesRows
<1>1. ASSUME ProbeInv, Answered, template = "status"
      PROVE  SummaryMatchesRows
  <2> DEFINE in(S) == {c \in Ctr : rows[c] # None /\ rows[c].state \in S}
  <2>1. engine = "ps"
    BY <1>1, NotTemplated DEF ProbeInv, Owner, HostEngine, HostTemplates, Answered
  <2>2. /\ summary = summarize_from_containers(rows)
        /\ rows \in [Ctr -> ContainerStatus \cup {None}]
        /\ \A c \in Listed : rows[c].health \in {"starting", "healthy", "unhealthy"} =>
             rows[c].state = "running"
    BY <1>1, <2>1 DEF ProbeInv, ProbeStage
  <2>3. /\ summary.running = Cardinality(in(RunningState))
        /\ summary.exited = Cardinality(in(ContainerState \ RunningState))
        /\ summary.unhealthy = Cardinality({c \in in(RunningState) : rows[c].health = "unhealthy"})
    BY <2>2 DEF summarize_from_containers
  <2>4. /\ in(RunningState) \cup in(ContainerState \ RunningState) = Listed
        /\ in(RunningState) \cap in(ContainerState \ RunningState) = {}
    BY <2>2 DEF Listed, ContainerStatus
  <2>5. IsFiniteSet(in(RunningState)) /\ IsFiniteSet(in(ContainerState \ RunningState))
    BY FS_Subset, ProbeAssumption
  <2>6. summary.running + summary.exited = Cardinality(Listed)
    <3>1. /\ Cardinality(Listed) = Cardinality(in(RunningState))
                + Cardinality(in(ContainerState \ RunningState)) - Cardinality({})
          /\ Cardinality({}) = 0
      BY <2>4, <2>5, FS_Union, FS_EmptySet
    <3>2. /\ Cardinality(in(RunningState)) \in Nat
          /\ Cardinality(in(ContainerState \ RunningState)) \in Nat
      BY <2>5, FS_CardinalityType
    <3> HIDE DEF in
    <3> QED BY <2>3, <3>1, <3>2
  <2>7. in(RunningState) = {c \in Listed : rows[c].state \in RunningState}
    BY DEF Listed
  <2>8. {c \in in(RunningState) : rows[c].health = "unhealthy"}
          = {c \in Listed : rows[c].health = "unhealthy"}
    BY <2>2 DEF Listed, RunningState
  <2> QED BY <2>3, <2>6, <2>7, <2>8 DEF SummaryMatchesRows
<1>2. ProbeInv => SummaryMatchesRows
  BY <1>1 DEF SummaryMatchesRows
<1> QED BY <1>2, ProbeInvariance, PTL

-----------------------------------------------------------------------------
(* A standby's data directory.                                             *)

StandbyStep == {"stop", "rewind", "clear", "backup", "copying", "start"}

\* Where a bootstrap or a follow stands, unless the stop failed on a running
\* server or a stray helper was at work.
StandbyStage ==
  /\ template \in PgStandby /\ step # "idle" => step \in StandbyStep \cup {"down"}
  /\ template \in PgStandby /\ step # "idle" => reply = "none"
  /\ template \in PgStandby /\ step = "rewind" => template = "pg_standby_follow"
  /\ template \in PgStandby /\ step \in {"rewind", "clear", "backup", "copying"} => ~rewindTook
  /\ template \in PgStandby /\ ~dirty =>
       /\ step \in StandbyStep \ {"stop"} => pgStray = None /\ ~pgUp
       /\ Answered /\ reply = "ok" => pgStray = None
       /\ step = "copying" => pgdata.kind = "partial"
       /\ step = "start" =>
            IF rewindTook
            THEN pgdata = PgOf("rewound", Host) \/ pgdata.kind = "standby"
            ELSE pgdata = PgOf("standby", Host)

StandbyInv == StandbyStage /\ StandbyAnswerTrue

LEMMA InitStandby == Init => StandbyInv
BY DEF Init, FrameInit, StandbyInv, StandbyStage, StandbyAnswerTrue, Answered, StandbyStep

\* The other commands leave a bootstrap and a follow alone.
LEMMA StandbyApart ==
  ASSUME StandbyInv, template \in PgStandby
  PROVE  /\ CopyNext \/ RedisNext \/ ChNext \/ MongoNext => UNCHANGED frameVars
         /\ GrowNext \/ ImageNext \/ ProbeNext =>
              \/ UNCHANGED frameVars
              \/ template' \notin PgStandby
              \/ dirty' = TRUE /\ UNCHANGED <<template, step, reply>>
<1> USE DEF StandbyInv, StandbyStage, StandbyStep, PgStandby
<1>1. CopyNext => UNCHANGED frameVars
  BY DEF CopyNext, CreateSrc, CreateDst, Dump, Apply, Insert, RowWritten, At
<1>2. RedisNext => UNCHANGED frameVars
  BY DEF RedisNext, RedisCommand, ListKeys, MigrateKeys, KeyWritten
<1>3. ChNext => UNCHANGED frameVars
  BY DEF ChNext, ChReady, ChWriteXml, ChReload, ChCreateLocal, ChCreateDistributed, ChServer,
     ChCommand
<1>4. MongoNext => UNCHANGED frameVars
  BY DEF MongoNext, MongoCommand, Election
<1>5. GrowNext => UNCHANGED frameVars \/ template' \notin PgStandby
  BY DEF GrowNext, AcceptGrow, try_growpart, Resize, ExpandVolume, AtGrow
<1>6. ImageNext => \/ template' \notin PgStandby
                   \/ (dirty' = TRUE /\ UNCHANGED <<template, step, reply>>)
  BY DEF ImageNext, AcceptHost, verify_image_signature, DockerRun, InspectImage, PullImage,
     LoadImage, InspectLoaded, InspectNetwork, CreateNetwork, OthersChange, AtImage
<1>7. ProbeNext => UNCHANGED frameVars \/ template' \notin PgStandby
  BY DEF ProbeNext, StartProbe, EnrichContainer, Summarize, DockerChanges, AtProbe
<1> QED BY <1>1, <1>2, <1>3, <1>4, <1>5, <1>6, <1>7

\* A failure of the last command is never read as a success.
LEMMA StandbyFailures ==
  ASSUME template \in PgStandby
  PROVE  \A said : classify_promote_outcome(template, FALSE, said) = "failed"
BY DEF PgStandby, classify_promote_outcome, IdempotentPhrase

LEMMA PgStandbyStep == StandbyInv /\ template \in PgStandby /\ PgNext => StandbyInv'
<1> SUFFICES ASSUME StandbyInv, template \in PgStandby, PgNext PROVE StandbyInv'
  OBVIOUS
<1> USE DEF StandbyInv, StandbyStage, StandbyStep, StandbyAnswerTrue, Answered, InStandby,
        Done, Proceed, Dies, Keep, NoFault, Fault, Fails, LeavesStray, PgOf, Pg, Host, PgStandby,
        Undisturbed
<1>1. CASE PgStop
  <2>1. /\ step' = AfterStop /\ reply' = reply /\ reply = "none"
        /\ UNCHANGED <<template, goal, pgStray>> /\ rewindTook' = FALSE
    BY <1>1 DEF PgStop
  <2>2. ~dirty' => pgStray = None /\ ~pgUp'
    BY <1>1 DEF PgStop
  <2> QED BY <2>1, <2>2 DEF AfterStop
<1>2. CASE PgRewind
  <2>1. /\ step = "rewind" /\ UNCHANGED <<template, goal, pgUp, dirty>> /\ reply = "none"
        /\ \/ /\ step' = "start" /\ reply' = reply /\ UNCHANGED pgStray /\ rewindTook' = TRUE
              /\ pgdata' = PgOf("rewound", Host) \/ (pgdata' = pgdata /\ pgdata.kind = "standby")
           \/ step' = "clear" /\ reply' = reply /\ UNCHANGED <<pgStray, rewindTook>>
           \/ step' = "down" /\ reply' = "none"
    BY <1>2 DEF PgRewind
  <2>2. ~dirty => pgStray = None /\ ~pgUp
    BY <2>1
  <2>3. step' = "start" => template = "pg_standby_follow"
    BY <2>1
  <2> QED BY <2>1, <2>2, <2>3
<1>3. CASE PgClear
  <2>1. /\ step = "clear" /\ UNCHANGED <<template, goal, pgUp, rewindTook, dirty>> /\ reply = "none"
        /\ \/ step' = "backup" /\ reply' = reply /\ pgStray' = StrayCleared
           \/ step' = "idle" /\ reply' = "failed"
           \/ step' = "down" /\ reply' = "none"
    BY <1>3 DEF PgClear
  <2>2. ~dirty => pgStray = None /\ ~pgUp
    BY <2>1
  <2>3. pgStray = None => StrayCleared = None
    BY DEF StrayCleared
  <2> QED BY <2>1, <2>2, <2>3
<1>4. CASE PgBackup
  BY <1>4 DEF PgBackup
<1>5. CASE PgCopyEnds
  BY <1>5 DEF PgCopyEnds
<1>6. CASE PgStart
  <2>1. /\ step = "start" /\ UNCHANGED <<template, goal, pgdata, pgStray, rewindTook, dirty>>
        /\ \/ pgUp' = (pgUp \/ pgdata.kind \in PgComplete) /\ step' = "idle"
           \/ step' = "idle" /\ reply' = "failed"
           \/ step' = "down" /\ reply' = "none"
    BY <1>6, StandbyFailures DEF PgStart, Breaks
  <2>2. ~dirty => pgdata.kind \in PgComplete /\ pgStray = None
    BY <2>1 DEF PgComplete
  <2> QED BY <2>1, <2>2
<1>7. CASE PgPromote
  BY <1>7 DEF PgPromote
<1>8. CASE PgPromotionCompletes
  BY <1>8 DEF PgPromotionCompletes, frameVars
<1>9. CASE PgStrayEnds
  BY <1>9 DEF PgStrayEnds, frameVars
<1> QED BY <1>1, <1>2, <1>3, <1>4, <1>5, <1>6, <1>7, <1>8, <1>9 DEF PgNext, PgAgent

LEMMA NextStandby == StandbyInv /\ [Next]_vars => StandbyInv'
<1> SUFFICES ASSUME StandbyInv, [Next]_vars PROVE StandbyInv'
  OBVIOUS
<1> USE DEF StandbyInv, StandbyStage, StandbyStep, StandbyAnswerTrue, Answered, Undisturbed
<1>1. CASE template' \notin PgStandby
  BY <1>1
<1>2. CASE Accept /\ template' \in PgStandby
  <2>1. \/ step' = "stop" /\ reply' = "none"
        \/ step' = "idle" /\ reply' = "rejected"
    BY <1>2 DEF Accept, dispatch_templated_exec, Done, PgStandby
  <2> QED BY <2>1
<1>3. CASE FrameFails /\ template' \in PgStandby /\ UNCHANGED pgVars
  BY <1>3 DEF FrameFails, SpawnFails, KilledBetween, Restart, Keep, Done, Dies, Host, PgOf, pgVars
<1>4. CASE UNCHANGED <<frameVars, pgVars>>
  BY <1>4 DEF frameVars, pgVars, Host, PgOf
<1>5. CASE dirty' = TRUE /\ UNCHANGED <<template, step, reply, pgVars>>
  BY <1>5 DEF pgVars
<1>6. CASE template' \in PgStandby /\ template \notin PgStandby /\ ~Accept
  BY <1>6, PgKeeps, CopyKeeps, RedisKeeps, ChKeeps, MongoKeeps DEF Next, FrameNext, vars,
     frameVars, SpawnFails, KilledBetween, Restart, Keep,
     GrowNext, AcceptGrow, try_growpart, Resize, ExpandVolume,
     ImageNext, AcceptHost, verify_image_signature, DockerRun, InspectImage, PullImage,
     LoadImage, InspectLoaded, InspectNetwork, CreateNetwork, OthersChange,
     ProbeNext, StartProbe, EnrichContainer, Summarize, DockerChanges, PgStandby
<1>7. CASE template \in PgStandby /\ PgNext
  BY <1>7, PgStandbyStep
<1>8. CASE /\ template \in PgStandby /\ UNCHANGED pgVars
           /\ CopyNext \/ RedisNext \/ ChNext \/ MongoNext \/ GrowNext \/ ImageNext \/ ProbeNext
  BY <1>1, <1>4, <1>5, <1>8, StandbyApart
<1>9. CASE UNCHANGED vars
  BY <1>4, <1>9 DEF vars
<1> QED BY <1>1, <1>2, <1>3, <1>6, <1>7, <1>8, <1>9 DEF Next, FrameNext, FrameFails

\* Whatever fails and whoever is killed, a bootstrap, or a follow that came to
\* the full copy, answered as a success leaves a running standby of the server
\* it named; a follow whose pg_rewind succeeded leaves the server running, set
\* back to that one or the standby it was, which is less than the doc of
\* pg_standby_follow says (FollowIsStandby).  Left out are executions in which
\* the ignored stop or a stray helper had a part (run_standby_bootstrap,
\* run_standby_follow).
THEOREM StandbyAnswersAreTrue == Spec => []StandbyAnswerTrue
BY InitStandby, NextStandby, PTL DEF Spec, StandbyInv

\* No server's data directory is rewound, cleared or copied into under it, with
\* the same exceptions.
THEOREM NoRunningServerIsWiped == Spec => []RunningNotWiped
<1>1. StandbyInv => RunningNotWiped
  BY DEF StandbyInv, StandbyStage, RunningNotWiped, InStandby, StandbyStep
<1> QED BY <1>1, InitStandby, NextStandby, PTL DEF Spec

-----------------------------------------------------------------------------
(* The scripts of MongoDB, executed again.                                 *)

PrimaryKnown == primary \in BOOLEAN

LEMMA InitPrimary == Init => PrimaryKnown
BY DEF Init, MongoInit, PrimaryKnown

LEMMA NextPrimary == PrimaryKnown /\ [Next]_vars => PrimaryKnown'
BY DEF PrimaryKnown, Next, vars, MongoNext, MongoCommand, Election, Script, InitiateScript,
   AddScript, StepDownScript, ShardsvrScript, AddShardScript, MoveChunkScript, Unchanged, mongoVars

\* Only a script ends at "exec" where a MongoDB template is under way.
LEMMA ScriptsAlone ==
  ASSUME [Next]_vars, engine = "mongo", step = "exec", step' = "idle", ~faulted', InPlace
  PROVE  MongoCommand
<1>1. template \in MongoTemplate
  BY DEF InPlace, Initiate, AddMember, MongoTemplate
<1>2. ~FrameNext
  BY DEF FrameNext, Accept, SpawnFails, KilledBetween, Restart, Fault
<1>3. ~(PgNext /\ step' = "idle")
  BY <1>1 DEF PgNext, PgAgent, PgStop, PgRewind, PgClear, PgBackup, PgCopyEnds, PgStart,
     PgPromote, PgPromotionCompletes, PgStrayEnds, InStandby, MongoTemplate, frameVars
<1>4. ~(CopyNext /\ step' = "idle")
  BY DEF CopyNext, CreateSrc, CreateDst, Dump, Apply, Insert, RowWritten, At, frameVars
<1>5. ~(RedisNext /\ step' = "idle")
  BY DEF RedisNext, RedisCommand, ListKeys, MigrateKeys, KeyWritten, RedisEngine, frameVars
<1>6. ~(ChNext /\ step' = "idle")
  BY DEF ChNext, ChReady, ChWriteXml, ChReload, ChCreateLocal, ChCreateDistributed, ChServer,
     ChCommand, frameVars
<1>7. ~(GrowNext /\ step' = "idle")
  BY DEF GrowNext, AcceptGrow, try_growpart, Resize, ExpandVolume, AtGrow, frameVars
<1>8. ~ImageNext
  BY DEF ImageNext, AcceptHost, verify_image_signature, DockerRun, InspectImage, PullImage,
     LoadImage, InspectLoaded, InspectNetwork, CreateNetwork, OthersChange, AtImage
<1>9. ~ProbeNext
  BY DEF ProbeNext, StartProbe, EnrichContainer, Summarize, DockerChanges, AtProbe
<1> QED BY <1>2, <1>3, <1>4, <1>5, <1>6, <1>7, <1>8, <1>9
           DEF Next, MongoNext, Election, vars, frameVars

LEMMA ScriptRepeats ==
  ASSUME PrimaryKnown, MongoCommand, ~faulted', InPlace
  PROVE  reply' = "ok" /\ UNCHANGED mongoVars
<1> USE DEF InPlace, Initiate, AddMember
<1>1. ~Breaks
  BY DEF Breaks, Fault
<1>2. Script
  BY <1>1 DEF MongoCommand
<1>3. \A ok \in BOOLEAN : ok /\ Ends(ok) => reply' = "ok"
  BY <1>1 DEF Ends, Done, classify_promote_outcome
<1>4. CASE InitiateScript
  BY <1>3, <1>4 DEF InitiateScript, mongoVars
<1>5. CASE AddScript
  <2>1. primary = TRUE /\ members' = members
    BY <1>5 DEF AddScript, PrimaryKnown
  <2> QED BY <1>3, <1>5, <2>1 DEF AddScript, mongoVars
<1>6. CASE StepDownScript
  <2>1. primary = FALSE /\ members # {}
    BY <1>6 DEF StepDownScript, PrimaryKnown
  <2> QED BY <1>3, <1>6, <2>1 DEF StepDownScript, mongoVars
<1>7. CASE ShardsvrScript
  BY <1>1, <1>7 DEF ShardsvrScript, Unchanged, Ends, Done, classify_promote_outcome
<1>8. CASE AddShardScript
  BY <1>3, <1>8 DEF AddShardScript, mongoVars
<1>9. CASE MoveChunkScript
  <2>1. Len(shards) >= 2 /\ ChunkTarget(goal.user) = chunk /\ Placed = {chunk}
    BY <1>9 DEF MoveChunkScript, ChunkTarget, Placed
  <2>2. Ends(TRUE) => reply' = "ok"
    BY <1>3
  <2>3. /\ chunk' \in {chunk} /\ Ends(TRUE)
        /\ UNCHANGED <<members, primary, shardsvr, shards>>
    BY <1>1, <1>9, <2>1 DEF MoveChunkScript
  <2> QED BY <2>2, <2>3 DEF mongoVars
<1> QED BY <1>2, <1>4, <1>5, <1>6, <1>7, <1>8, <1>9 DEF Script

\* A MongoDB template that is executed again, for what is there already, changes
\* nothing and succeeds (the try and catch of the scripts).
THEOREM RepeatsAreHarmless == Spec => MongoRepeatIsOk
<1>1. PrimaryKnown /\ [Next]_vars =>
        [engine = "mongo" /\ step = "exec" /\ step' = "idle" /\ ~faulted' /\ InPlace
           => reply' = "ok" /\ UNCHANGED mongoVars]_<<frameVars, mongoVars>>
  BY ScriptsAlone, ScriptRepeats
<1> QED BY <1>1, InitPrimary, NextPrimary, PTL DEF Spec, MongoRepeatIsOk
=============================================================================
