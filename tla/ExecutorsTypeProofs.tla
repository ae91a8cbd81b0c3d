------------------------- MODULE ExecutorsTypeProofs -------------------------
(***************************************************************************)
(* Proofs about Executors: ExecutorsTypeOK.  Types are not inductive by    *)
(* themselves: what a command writes into a database is typed because the  *)
(* request it was built from was accepted (GoalChosen), and because a      *)
(* command belongs to its engine (DbInv); the types that the other proofs  *)
(* needed already are parts of their invariants and taken from there.      *)
(***************************************************************************)
EXTENDS TopologyProofs

-----------------------------------------------------------------------------
(* What commands are built from.                                           *)

\* A request that is accepted and completed is a request.
LEMMA ValidatedType ==
  ASSUME NEW t \in TemplatedExecId, NEW p \in TemplatedExecParams, Accepted(p, t)
  PROVE  validate_for(p, t) \in TemplatedExecParams
<1>1. /\ p.primary_host \in Field /\ p.primary_port \in Nat /\ p.user \in Field
      /\ p.cluster_node_id \in Field /\ p.slot_start \in Nat /\ p.slot_end \in Nat
      /\ p.topology_peers \in Seq(Part)
  BY DEF TemplatedExecParams
<1>2. DefaultUser(t) \in Field /\ Blank \in Field
  BY CatalogAssumption DEF DefaultUser, Field
<1>3. default_primary_port(t) \in Nat
  BY DEF default_primary_port
<1>4. \A S : << >> \in Seq(S)
  OBVIOUS
<1>5. << >> \in Seq(Part)
  BY <1>4
<1> QED BY <1>1, <1>2, <1>3, <1>5 DEF validate_for, TemplatedExecParams

\* A template under way was accepted, and what it splices are checked texts.
LEMMA GoalTyped ==
  ASSUME DbInv, GoalChosen, step # "idle", template \in TemplatedExecId
  PROVE  /\ engine \notin HostEngine
         /\ template \in SplicesHost => goal.primary_host \in Text
         /\ template \in SplicesUser => goal.user \in Text
         /\ template \in SplicesNodeId => goal.cluster_node_id \in Text
<1>1. engine \notin HostEngine
  <2>1. {"grow_fs", "deploy", "ensure_docker_image", "ensure_network", "status"}
          \cap TemplatedExecId = {}
    BY DEF TemplatedExecId, PgTemplate, PgStandby, RedisReplicaTemplate, RedisClusterTemplate,
       ChTemplate, ChReadiness, MongoTemplate
  <2> QED BY <2>1 DEF DbInv, Owner, HostTemplates, HostEngine
<1>2. PICK p \in Params : Accepted(p, template) /\ goal = validate_for(p, template)
  BY <1>1 DEF GoalChosen
<1>3. p \in TemplatedExecParams
  BY FrameAssumption
<1> QED BY <1>1, <1>2, <1>3, AcceptedConn, AcceptedUser, AcceptedNode

-----------------------------------------------------------------------------
(* The frame.                                                              *)

\* What every command may change of the frame besides the step.
Scalars ==
  /\ reply \in {"none", "ok", "failed", "rejected", "error"}
  /\ faults \in 0..MaxFault /\ faulted \in BOOLEAN /\ dirty \in BOOLEAN

LEMMA Classified ==
  \A t, b, said : classify_promote_outcome(t, b, said) \in {"ok", "failed"}
BY DEF classify_promote_outcome

LEMMA FaultTyped == Scalars /\ (NoFault \/ Fault) => faults' \in 0..MaxFault /\ faulted' \in BOOLEAN
<1> SUFFICES ASSUME Scalars, NoFault \/ Fault
             PROVE  faults' \in 0..MaxFault /\ faulted' \in BOOLEAN
  OBVIOUS
<1>1. MaxFault \in Nat /\ faults \in 0..MaxFault /\ faulted \in BOOLEAN
  BY FrameAssumption DEF Scalars
<1>2. CASE NoFault
  BY <1>1, <1>2 DEF NoFault
<1>3. CASE Fault
  BY <1>1, <1>3 DEF Fault
<1> QED BY <1>2, <1>3

\* The steps that do not set dirty by a formula of their own.
LEMMA CommandScalars ==
  ASSUME Scalars, NoFault \/ Fault, dirty' \in BOOLEAN,
         \/ UNCHANGED reply
         \/ reply' \in {"none", "ok", "failed", "rejected", "error"}
  PROVE  Scalars'
BY FaultTyped DEF Scalars

\* Steps of an action, whether it ends its execution or not.
LEMMA Moves ==
  ASSUME Scalars, dirty' \in BOOLEAN
  PROVE  /\ \A s : Proceed(s) /\ (NoFault \/ Fault) => Scalars'
         /\ \A t, b, said :
              Done(classify_promote_outcome(t, b, said)) /\ (NoFault \/ Fault) => Scalars'
         /\ \A r \in {"ok", "failed", "rejected", "error"} :
              Done(r) /\ (NoFault \/ Fault) => Scalars'
         /\ Dies /\ Fault => Scalars'
         /\ Fails => Scalars'
         /\ Breaks => Scalars'
<1>1. ASSUME NoFault \/ Fault,
             reply' = reply \/ reply' \in {"none", "ok", "failed", "rejected", "error"}
      PROVE  Scalars'
  BY <1>1, CommandScalars
<1>2. \A t, b, said : Done(classify_promote_outcome(t, b, said)) => reply' \in {"ok", "failed"}
  BY Classified DEF Done
<1>3. /\ \A s : Proceed(s) => reply' = reply
      /\ \A r : Done(r) => reply' = r
      /\ Dies => reply' = "none"
  BY DEF Proceed, Done, Dies
<1>4. /\ Fails => Fault /\ reply' \in {"failed", "none"}
      /\ Breaks => Fault /\ reply' \in {"ok", "failed", "none"}
  BY <1>2, <1>3 DEF Fails, Breaks
<1>5. \A s : Proceed(s) /\ (NoFault \/ Fault) => Scalars'
  BY <1>1, <1>3
<1>6. \A t, b, said :
        Done(classify_promote_outcome(t, b, said)) /\ (NoFault \/ Fault) => Scalars'
  BY <1>1, <1>2
<1>7. \A r \in {"ok", "failed", "rejected", "error"} : Done(r) /\ (NoFault \/ Fault) => Scalars'
  BY <1>1, <1>3
<1>8. (Dies /\ Fault => Scalars') /\ (Fails => Scalars') /\ (Breaks => Scalars')
  BY <1>1, <1>3, <1>4
<1> QED BY <1>5, <1>6, <1>7, <1>8

LEMMA PgScalars ==
  ASSUME Scalars, PgNext, pgUp \in BOOLEAN
  PROVE  Scalars'
<1>1. CASE PgStop
  <2>1. dirty' \in BOOLEAN
    BY <1>1 DEF PgStop
  <2> QED BY <1>1, <2>1, Moves DEF PgStop
<1>2. CASE ~PgStop
  <2>1. dirty' \in BOOLEAN
    BY <1>2 DEF PgNext, PgAgent, PgRewind, PgClear, PgBackup, PgCopyEnds, PgStart, PgPromote,
       PgPromotionCompletes, PgStrayEnds, frameVars, Scalars
  <2>2. CASE PgRewind \/ PgClear \/ PgBackup \/ PgCopyEnds
    BY <2>1, <2>2, Moves DEF PgRewind, PgClear, PgBackup, PgCopyEnds, LeavesStray
  <2>3. CASE PgStart \/ PgPromote
    BY <2>1, <2>3, Moves DEF PgStart, PgPromote
  <2>4. CASE PgPromotionCompletes \/ PgStrayEnds
    BY <2>4 DEF PgPromotionCompletes, PgStrayEnds, frameVars, Scalars
  <2> QED BY <1>2, <2>2, <2>3, <2>4 DEF PgNext, PgAgent
<1> QED BY <1>1, <1>2

LEMMA CopyScalars ==
  ASSUME Scalars, CopyNext
  PROVE  Scalars'
<1>1. CASE UNCHANGED frameVars
  BY <1>1 DEF frameVars, Scalars
<1>2. CASE ~UNCHANGED frameVars
  <2>1. dirty' \in BOOLEAN
    BY <1>2 DEF CopyNext, CreateSrc, CreateDst, Dump, Apply, Insert, RowWritten, Scalars
  <2> QED BY <1>2, <2>1, Moves DEF CopyNext, CreateSrc, CreateDst, Dump, Apply, Insert, RowWritten
<1> QED BY <1>1, <1>2

LEMMA RedisScalars ==
  ASSUME Scalars, RedisNext
  PROVE  Scalars'
<1>1. CASE UNCHANGED frameVars
  BY <1>1 DEF frameVars, Scalars
<1>2. CASE ~UNCHANGED frameVars
  <2>1. dirty' \in BOOLEAN
    BY <1>2 DEF RedisNext, RedisCommand, ListKeys, MigrateKeys, KeyWritten, Refused, Scalars
  <2>2. \A keys : AfterListing(keys) /\ NoFault => Scalars'
    BY <2>1, Moves DEF AfterListing
  <2>3. Refused /\ (NoFault \/ Fault) => Scalars'
    BY <2>1, Moves DEF Refused
  <2> QED
    BY <1>2, <2>1, <2>2, <2>3, Moves DEF RedisNext, RedisCommand, ListKeys, MigrateKeys, KeyWritten
<1> QED BY <1>1, <1>2

LEMMA ChScalars ==
  ASSUME Scalars, ChNext
  PROVE  Scalars'
<1>1. CASE ChServer
  BY <1>1 DEF ChServer, frameVars, Scalars
<1>2. CASE ~ChServer
  <2>1. dirty' \in BOOLEAN
    BY <1>2 DEF ChNext, ChReady, ChWriteXml, ChReload, ChCreateLocal, ChCreateDistributed, Scalars
  <2> QED
    BY <1>2, <2>1, Moves
    DEF ChNext, ChReady, ChWriteXml, ChReload, ChCreateLocal, ChCreateDistributed
<1> QED BY <1>1, <1>2

LEMMA MongoScalars ==
  ASSUME Scalars, MongoNext
  PROVE  Scalars'
<1>1. CASE Election
  BY <1>1 DEF Election, frameVars, Scalars
<1>2. CASE MongoCommand
  <2>1. dirty' \in BOOLEAN
    BY <1>2 DEF MongoCommand, Scalars, Script, InitiateScript, AddScript, StepDownScript,
       ShardsvrScript, AddShardScript, MoveChunkScript, Unchanged
  <2>2. \A ok : Ends(ok) => Scalars'
    BY <2>1, Moves DEF Ends
  <2> QED
    BY <1>2, <2>1, <2>2, Moves DEF MongoCommand, Script, InitiateScript, AddScript, StepDownScript,
       ShardsvrScript, AddShardScript, MoveChunkScript, Unchanged
<1> QED BY <1>1, <1>2 DEF MongoNext

LEMMA GrowScalars ==
  ASSUME Scalars, GrowNext
  PROVE  Scalars'
<1>1. CASE AcceptGrow
  BY <1>1 DEF AcceptGrow, Done, Scalars
<1>2. CASE try_growpart \/ Resize
  <2>1. dirty' \in BOOLEAN
    BY <1>2 DEF try_growpart, Resize, Scalars
  <2> QED BY <1>2, <2>1, Moves DEF try_growpart, Resize
<1>3. CASE ExpandVolume
  BY <1>3 DEF ExpandVolume, frameVars, Scalars
<1> QED BY <1>1, <1>2, <1>3 DEF GrowNext

LEMMA ImageScalars ==
  ASSUME Scalars, ImageNext
  PROVE  Scalars'
<1>1. CASE AcceptHost
  BY <1>1 DEF AcceptHost, Done, Scalars
<1>2. CASE OthersChange
  BY <1>2 DEF OthersChange, Scalars
<1>3. CASE ~AcceptHost /\ ~OthersChange
  <2>1. dirty' \in BOOLEAN
    BY <1>3 DEF ImageNext, verify_image_signature, DockerRun, InspectImage, PullImage, LoadImage,
       InspectLoaded, InspectNetwork, CreateNetwork, Scalars
  <2> QED
    BY <1>3, <2>1, Moves DEF ImageNext, verify_image_signature, DockerRun, InspectImage, PullImage,
       LoadImage, InspectLoaded, InspectNetwork, CreateNetwork
<1> QED BY <1>1, <1>2, <1>3

LEMMA ProbeScalars ==
  ASSUME Scalars, ProbeNext
  PROVE  Scalars'
<1>1. CASE StartProbe
  <2>1. /\ dirty' = FALSE /\ reply' \in {"none", "ok"}
        /\ (faulted' = FALSE /\ UNCHANGED faults) \/ Fault
    BY <1>1 DEF StartProbe, Done
  <2> QED BY <2>1, FaultTyped DEF Scalars
<1>2. CASE EnrichContainer
  <2>1. UNCHANGED <<reply, dirty>> /\ (NoFault \/ Fault)
    BY <1>2 DEF EnrichContainer, Enrich
  <2> QED BY <2>1, FaultTyped DEF Scalars
<1>3. CASE Summarize
  BY <1>3, Moves DEF Summarize, Scalars
<1>4. CASE DockerChanges
  BY <1>4 DEF DockerChanges, frameVars, Scalars
<1> QED BY <1>1, <1>2, <1>3, <1>4 DEF ProbeNext

LEMMA FrameScalars ==
  ASSUME Scalars, FrameNext
  PROVE  Scalars'
<1>1. CASE Accept
  BY <1>1 DEF Accept, Done, Scalars
<1>2. CASE SpawnFails \/ KilledBetween
  BY <1>2, Moves DEF SpawnFails, KilledBetween, Scalars
<1>3. CASE Restart
  BY <1>3 DEF Restart, Scalars
<1> QED BY <1>1, <1>2, <1>3 DEF FrameNext

LEMMA NextScalars ==
  ASSUME Scalars, pgUp \in BOOLEAN, [Next]_vars
  PROVE  Scalars'
<1>1. CASE UNCHANGED vars
  BY <1>1 DEF vars, frameVars, Scalars
<1> QED
  BY <1>1, FrameScalars, PgScalars, CopyScalars, RedisScalars, ChScalars, MongoScalars,
     GrowScalars, ImageScalars, ProbeScalars DEF Next

\* The steps there are, and whose they are.
Steps ==
  {"idle", "down", "exec", "stop", "rewind", "clear", "backup", "copying", "start", "create_src",
   "create_dst", "dump", "apply", "insert", "list", "migrate", "write_xml", "reload",
   "create_local", "create_dist", "growpart", "resize", "verify", "docker_run", "image_inspect",
   "pull", "load", "reinspect", "net_inspect", "net_create", "inspect"}

LEMMA StepsKnown ==
  /\ \A e : StepsOf(e) \cup {"idle", "down"} \subseteq Steps
  /\ \A t : TemplateSteps(t) \cup {"idle", "down"} \subseteq Steps
BY DEF Steps, StepsOf, ImageStep, TemplateSteps, StandbyStep

LEMMA InitFrameType == Init => FrameTypeOK
<1> SUFFICES ASSUME Init PROVE FrameTypeOK
  OBVIOUS
<1>1. /\ engine \in Engine /\ template = None /\ goal = None /\ step = "idle" /\ reply = "none"
      /\ faults = 0 /\ faulted = FALSE /\ dirty = FALSE
  BY DEF Init, FrameInit
<1>2. 0 \in 0..MaxFault
  BY FrameAssumption
<1> QED BY <1>1, <1>2 DEF FrameTypeOK

LEMMA NextFrameType ==
  ASSUME FrameTypeOK, pgUp \in BOOLEAN, DbInv, [Next]_vars
  PROVE  FrameTypeOK'
<1>1. Scalars'
  BY NextScalars DEF FrameTypeOK, Scalars
<1>2. step' \in Steps
  <2>1. DbInv'
    BY NextDb
  <2> QED BY <2>1, StepsKnown DEF DbInv, DbOwner, Owner
<1> SUFFICES /\ UNCHANGED engine
             /\ template' \in TemplatedExecId
                  \cup {"grow_fs", "ensure_docker_image", "ensure_network", "deploy",
                        "status", None}
             /\ goal' = None \/ goal' \in TemplatedExecParams
  BY <1>1, <1>2 DEF FrameTypeOK, Scalars, Steps
<1>3. CASE Accept
  <2>1. TemplatesOf(engine) \subseteq TemplatedExecId
    BY DEF TemplatesOf, TemplatedExecId, PgTemplate, ChTemplate
  <2>2. template' \in TemplatedExecId /\ UNCHANGED engine
    BY <1>3, <2>1 DEF Accept
  <2>3. CASE goal' # None
    <3>1. PICK p \in Params : Accepted(p, template') /\ goal' = validate_for(p, template')
      BY <1>3, <2>3 DEF Accept
    <3> QED BY <2>2, <3>1, FrameAssumption, ValidatedType
  <2> QED BY <2>2, <2>3
<1>4. CASE UNCHANGED <<engine, template, goal>>
  BY <1>4 DEF FrameTypeOK
<1>5. CASE GrowNext \/ ImageNext \/ ProbeNext
  <2>1. UNCHANGED engine /\ (goal' = None \/ UNCHANGED <<template, goal>>)
    BY <1>5, HostKeeps
  <2>2. \/ UNCHANGED template
        \/ template' \in {"grow_fs", "ensure_docker_image", "ensure_network", "deploy", "status"}
    BY <1>5 DEF GrowNext, AcceptGrow, try_growpart, Resize, ExpandVolume,
       ImageNext, AcceptHost, verify_image_signature, DockerRun, InspectImage, PullImage, LoadImage,
       InspectLoaded, InspectNetwork, CreateNetwork, OthersChange,
       ProbeNext, StartProbe, EnrichContainer, Summarize, DockerChanges, Keep, frameVars
  <2> QED BY <2>1, <2>2 DEF FrameTypeOK
<1>6. CASE SpawnFails \/ KilledBetween \/ Restart \/ UNCHANGED vars
  BY <1>4, <1>6 DEF SpawnFails, KilledBetween, Restart, Keep, vars, frameVars
<1> QED
  BY <1>3, <1>4, <1>5, <1>6, PgKeeps, CopyKeeps, RedisKeeps, ChKeeps, MongoKeeps
  DEF Next, FrameNext

-----------------------------------------------------------------------------
(* Postgres.                                                               *)

LEMMA InitPgType == Init => PgTypeOK
<1> SUFFICES ASSUME Init PROVE PgTypeOK
  OBVIOUS
<1>1. pgUp \in BOOLEAN /\ pgStray = None /\ rewindTook = FALSE
  BY DEF Init, PgInit
<1>2. \/ pgdata = Pg("own")
      \/ \E h \in Text : pgdata = PgOf("standby", h)
  BY DEF Init, PgInit
<1>3. pgdata \in PgData
  BY <1>2 DEF Pg, PgOf, PgData, PgKind
<1> QED BY <1>1, <1>3 DEF PgTypeOK

LEMMA NextPgType ==
  ASSUME PgTypeOK, DbInv, GoalChosen, [Next]_vars
  PROVE  PgTypeOK'
<1>1. CASE UNCHANGED pgVars
  BY <1>1 DEF PgTypeOK, pgVars
<1>2. ASSUME template \in PgStandby, step # "idle" PROVE Host \in Text
  BY <1>2, GoalTyped DEF Host, SplicesHost, TemplatedExecId, PgTemplate
<1>3. /\ \A k \in PgKind : Pg(k) \in PgData
      /\ \A k \in PgKind, s \in Text \cup {None} : PgOf(k, s) \in PgData
  BY DEF Pg, PgOf, PgData
<1>4. /\ pgdata \in PgData /\ pgdata.of \in Text \cup {None} /\ pgUp \in BOOLEAN
      /\ rewindTook \in BOOLEAN
      /\ pgStray # None => pgStray \in PgHelper /\ pgStray.of \in Text
  BY DEF PgTypeOK, PgData, PgHelper
<1>5. StrayCleared \in PgHelper \cup {None}
  BY <1>4 DEF StrayCleared, PgHelper
<1>6. ASSUME NEW cmd \in {"clear", "copy", "rewind"}, LeavesStray(cmd), Host \in Text
      PROVE  pgStray' \in PgHelper
  BY <1>6 DEF LeavesStray, PgHelper
<1> SUFFICES ASSUME PgNext PROVE PgTypeOK'
  BY <1>1 DEF Next, vars
<1>7. CASE PgStop
  <2>1. pgUp' \in BOOLEAN /\ UNCHANGED pgStray /\ rewindTook' = FALSE
    BY <1>4, <1>7 DEF PgStop
  <2>2. pgdata' \in PgData
    BY <1>3, <1>4, <1>7 DEF PgStop, PgKind
  <2> QED BY <2>1, <2>2 DEF PgTypeOK
<1>8. CASE PgRewind
  <2>1. Host \in Text
    BY <1>2, <1>8 DEF PgRewind, InStandby
  <2> QED BY <1>3, <1>4, <1>6, <1>8, <2>1 DEF PgRewind, PgTypeOK, PgKind
<1>9. CASE PgClear
  <2>1. Host \in Text
    BY <1>2, <1>9 DEF PgClear, InStandby
  <2>2. pgdata' \in PgData /\ UNCHANGED <<pgUp, rewindTook>>
    BY <1>3, <1>4, <1>9 DEF PgClear, Cleared, PgKind
  <2>3. pgStray' \in PgHelper \cup {None}
    BY <1>5, <1>6, <1>9, <2>1 DEF PgClear
  <2> QED BY <1>4, <2>2, <2>3 DEF PgTypeOK
<1>10. CASE PgBackup
  BY <1>3, <1>4, <1>10 DEF PgBackup, PgTypeOK, PgKind
<1>11. CASE PgCopyEnds
  <2>1. Host \in Text
    BY <1>2, <1>11 DEF PgCopyEnds, InStandby
  <2> QED BY <1>3, <1>4, <1>6, <1>11, <2>1 DEF PgCopyEnds, PgTypeOK, PgKind
<1>12. CASE PgStart
  BY <1>4, <1>12 DEF PgStart, PgTypeOK
<1>13. CASE PgPromote \/ PgPromotionCompletes
  <2>1. UNCHANGED <<pgUp, pgStray, rewindTook>>
    BY <1>13 DEF PgPromote, PgPromotionCompletes
  <2>2. pgdata' \in PgData
    BY <1>3, <1>4, <1>13 DEF PgPromote, PgPromotionCompletes, PgKind
  <2> QED BY <2>1, <2>2 DEF PgTypeOK
<1>14. CASE PgStrayEnds
  <2>1. StrayResult \in PgData
    BY <1>3, <1>4, <1>14 DEF PgStrayEnds, StrayResult, PgKind
  <2> QED BY <1>4, <1>14, <2>1 DEF PgStrayEnds, PgTypeOK
<1> QED BY <1>7, <1>8, <1>9, <1>10, <1>11, <1>12, <1>13, <1>14 DEF PgNext, PgAgent

-----------------------------------------------------------------------------
(* Redis.                                                                  *)

LEMMA InitRedisType == Init => RedisTypeOK
<1> SUFFICES ASSUME Init PROVE RedisTypeOK
  OBVIOUS
<1>1. /\ following \in Text \cup {None} /\ met = FALSE
      /\ here \subseteq Key /\ there = {} /\ listed = {} /\ before = {}
  BY DEF Init, RedisInit
<1>2. \E st \in {"none", "mine"} : slots = [s \in 0..MaxSlot |-> st]
  BY DEF Init, RedisInit
<1>3. slots \in [0..MaxSlot -> SlotState]
  BY <1>2 DEF SlotState
<1> QED BY <1>1, <1>3 DEF RedisTypeOK

LEMMA NextRedisType ==
  ASSUME RedisTypeOK, DbInv, GoalChosen, RedisStage', [Next]_vars
  PROVE  RedisTypeOK'
<1>1. CASE UNCHANGED redisVars
  BY <1>1 DEF RedisTypeOK, redisVars
<1> SUFFICES ASSUME RedisNext, RedisEngine PROVE RedisTypeOK'
  BY <1>1, DbMoves
<1>2. slots' \in [0..MaxSlot -> SlotState]
  <2>1. RedisEngine'
    BY RedisKeeps DEF RedisEngine
  <2> QED BY <2>1 DEF RedisStage
<1> SUFFICES /\ following' \in Text \cup {None} /\ met' \in BOOLEAN
             /\ here' \subseteq Key /\ there' \subseteq Key
             /\ listed' \subseteq Key /\ before' \subseteq Key
  BY <1>2 DEF RedisTypeOK
<1>3. /\ following \in Text \cup {None} /\ met \in BOOLEAN /\ here \subseteq Key
      /\ there \subseteq Key /\ listed \subseteq Key /\ before \subseteq Key
  BY DEF RedisTypeOK
<1>4. CASE RedisCommand
  <2>1. /\ template = "redis_replicaof" => goal.primary_host \in Text
        /\ template = "redis_cluster_replicate" => goal.cluster_node_id \in Text
    <3>1. step # "idle"
      BY <1>4 DEF RedisCommand
    <3> QED BY <3>1, GoalTyped DEF SplicesHost, SplicesNodeId, TemplatedExecId, RedisReplicaTemplate,
            RedisClusterTemplate
  <2>2. Effect \/ Nothing
    BY <1>4 DEF RedisCommand
  <2>3. Nothing => following' \in Text \cup {None} /\ met' \in BOOLEAN /\ here' \subseteq Key
    BY <1>3 DEF Nothing
  <2>4. Effect => following' \in Text \cup {None} /\ met' \in BOOLEAN /\ here' \subseteq Key
    BY <1>3, <2>1 DEF Effect
  <2>5. listed' = {} /\ before' = {} /\ there' = there
    BY <1>4 DEF RedisCommand
  <2> QED BY <1>3, <2>2, <2>3, <2>4, <2>5
<1>5. CASE ListKeys
  <2>1. InSlot \subseteq Key
    BY <1>3 DEF InSlot
  <2>2. \A keys \in Batches(InSlot) : keys \subseteq Key
    BY <2>1 DEF Batches
  <2>3. listed' = {} \/ listed' \in Batches(InSlot)
    BY <1>5 DEF ListKeys
  <2>4. before' = InSlot /\ UNCHANGED <<following, met, here, there>>
    BY <1>5 DEF ListKeys
  <2> QED BY <1>3, <2>1, <2>2, <2>3, <2>4
<1>6. CASE MigrateKeys
  <2>1. UNCHANGED <<following, met, listed, before>>
    BY <1>6 DEF MigrateKeys
  <2>2. \E moved \in SUBSET Key, left \in SUBSET Key : there' = there \cup moved /\ here' = here \ left
    <3>1. CASE there' = there \cup (listed \cap here) /\ here' = here \ listed
      BY <1>3, <3>1
    <3>2. CASE \E moved \in SUBSET ((listed \cap here) \ there) :
                 there' = there \cup moved /\ here' = here \ moved
      BY <1>3, <3>2
    <3>3. CASE \E moved \in SUBSET ((listed \cap here) \ there), kept \in SUBSET listed :
                 there' = there \cup moved /\ here' = here \ (moved \ kept)
      <4>1. PICK moved \in SUBSET ((listed \cap here) \ there), kept \in SUBSET listed :
              there' = there \cup moved /\ here' = here \ (moved \ kept)
        BY <3>3
      <4>2. moved \in SUBSET Key /\ moved \ kept \in SUBSET Key
        BY <1>3
      <4> QED BY <4>1, <4>2
    <3> QED BY <1>6, <3>1, <3>2, <3>3 DEF MigrateKeys
  <2> QED BY <1>3, <2>1, <2>2
<1>7. CASE KeyWritten
  BY <1>3, <1>7 DEF KeyWritten
<1> QED BY <1>4, <1>5, <1>6, <1>7 DEF RedisNext

-----------------------------------------------------------------------------
(* ClickHouse.                                                             *)

LEMMA InitChType == Init => ChTypeOK
BY DEF Init, ChInit, ChTypeOK

\* The configuration that is written is one, however the topology is grouped.
LEMMA ConfigTyped ==
  ASSUME NEW cluster \in Text, NEW peers \in Seq(Part), PeersChecked(peers)
  PROVE  build_remote_servers_xml(cluster, peers) \in Config
<1> DEFINE v == Grouped(peers)
<1>1. v \in Seq(Shard)
  BY GroupedWell DEF GroupsWell
<1>2. \A s \in Seq(Shard) :
        [i \in DOMAIN s |-> s[i].hosts] \in Seq(Seq(Text))
  <2>1. SUFFICES ASSUME NEW s \in Seq(Shard)
                 PROVE  [i \in 1..Len(s) |-> s[i].hosts] \in Seq(Seq(Text))
    OBVIOUS
  <2>2. \A i \in 1..Len(s) : s[i] \in Shard
    OBVIOUS
  <2>3. \A i \in 1..Len(s) : s[i].hosts \in Seq(Text)
    BY <2>2 DEF Shard
  <2>4. \A S, n : n \in Nat => \A f \in [1..n -> S] : f \in Seq(S)
    OBVIOUS
  <2>5. [i \in 1..Len(s) |-> s[i].hosts] \in [1..Len(s) -> Seq(Text)]
    BY <2>3
  <2> QED BY <2>4, <2>5
<1>3. [i \in DOMAIN v |-> v[i].hosts] \in Seq(Seq(Text))
  BY <1>1, <1>2
<1> QED BY <1>3 DEF build_remote_servers_xml, Config

LEMMA NextChType ==
  ASSUME ChTypeOK, DbInv, GoalChosen, [Next]_vars
  PROVE  ChTypeOK'
<1>1. CASE UNCHANGED chVars
  BY <1>1 DEF ChTypeOK, chVars
<1> SUFFICES ASSUME ChNext, engine = "ch" PROVE ChTypeOK'
  BY <1>1, DbMoves
<1>2. CASE ChReady
  BY <1>1, <1>2 DEF ChReady
<1>3. CASE ChWriteXml
  <2>1. step = "write_xml" /\ template = "ch_remote_servers_apply"
    BY <1>3 DEF ChWriteXml, ChCommand, DbInv, DbOwner, TemplateSteps, StandbyStep, HostEngine
  <2>2. goal.user \in Text
    BY <2>1, GoalTyped DEF SplicesUser, TemplatedExecId, ChTemplate
  <2>3. goal.topology_peers \in Seq(Part) /\ PeersChecked(goal.topology_peers)
    BY <2>1, TopologyChosen DEF HostEngine
  <2>4. build_remote_servers_xml(goal.user, goal.topology_peers) \in Config
    BY <2>2, <2>3, ConfigTyped
  <2>5. /\ chFile' \in {chFile, build_remote_servers_xml(goal.user, goal.topology_peers)}
        /\ chTorn' \in BOOLEAN
        /\ UNCHANGED <<chLoaded, chUp, chLocal, chDist>>
    BY <1>3 DEF ChWriteXml, ChTypeOK
  <2> QED BY <2>4, <2>5 DEF ChTypeOK
<1>4. CASE ChReload
  <2>1. chLoaded' \in {chLoaded, chFile} /\ UNCHANGED <<chFile, chTorn, chUp, chLocal, chDist>>
    BY <1>4 DEF ChReload
  <2> QED BY <2>1 DEF ChTypeOK
<1>5. CASE ChCreateLocal
  BY <1>5 DEF ChCreateLocal, ChTypeOK
<1>6. CASE ChCreateDistributed
  <2>1. step = "create_dist" /\ template = "ch_distributed_ensure"
    BY <1>6 DEF ChCreateDistributed, ChCommand, DbInv, DbOwner, TemplateSteps, StandbyStep,
       HostEngine
  <2>2. goal.user \in Text
    BY <2>1, GoalTyped DEF SplicesUser, TemplatedExecId, ChTemplate
  <2>3. chDist' \in {chDist, goal.user} /\ UNCHANGED <<chFile, chTorn, chLoaded, chUp, chLocal>>
    BY <1>6 DEF ChCreateDistributed
  <2> QED BY <2>2, <2>3 DEF ChTypeOK
<1>7. CASE ChServer
  BY <1>7 DEF ChServer, ChTypeOK
<1> QED BY <1>2, <1>3, <1>4, <1>5, <1>6, <1>7 DEF ChNext

-----------------------------------------------------------------------------
(* MongoDB.                                                                *)

LEMMA InitMongoType == Init => MongoTypeOK
<1> SUFFICES ASSUME Init PROVE MongoTypeOK
  OBVIOUS
<1>1. \A S : << >> \in Seq(S)
  OBVIOUS
<1>2. /\ members = {} /\ primary = FALSE /\ shardsvr \in BOOLEAN
      /\ shards = << >> /\ chunk = None
  BY DEF Init, MongoInit
<1> QED BY <1>1, <1>2 DEF MongoTypeOK

LEMMA NextMongoType ==
  ASSUME MongoTypeOK, DbInv, GoalChosen, ShardStage', [Next]_vars
  PROVE  MongoTypeOK'
<1>1. CASE UNCHANGED mongoVars
  BY <1>1 DEF MongoTypeOK, mongoVars
<1> SUFFICES ASSUME MongoNext, engine = "mongo" PROVE MongoTypeOK'
  BY <1>1, DbMoves
<1>2. shards' \in Seq([name : Text, host : Text])
  BY MongoKeeps DEF ShardStage
<1>3. /\ members \subseteq Text /\ primary \in BOOLEAN /\ shardsvr \in BOOLEAN
      /\ shards \in Seq([name : Text, host : Text]) /\ chunk \in Text \cup {None}
  BY DEF MongoTypeOK
<1> SUFFICES /\ members' \subseteq Text /\ primary' \in BOOLEAN /\ shardsvr' \in BOOLEAN
             /\ chunk' \in Text \cup {None}
  BY <1>2 DEF MongoTypeOK
<1>4. CASE Election
  BY <1>3, <1>4 DEF Election
<1>5. CASE MongoCommand /\ Script
  <2>1. /\ template \in Initiate \cup AddMember => goal.primary_host \in Text
        /\ template = "mongo_move_chunk" => goal.user \in Text
    BY <1>5, GoalTyped DEF MongoCommand, Initiate, AddMember, SplicesHost, SplicesUser,
       TemplatedExecId, MongoTemplate
  <2>2. CASE InitiateScript \/ AddScript
    <3>1. UNCHANGED <<shardsvr, chunk>> /\ primary' \in BOOLEAN
      BY <1>3, <2>2 DEF InitiateScript, AddScript
    <3>2. members' \subseteq Text
      BY <1>3, <2>1, <2>2 DEF InitiateScript, AddScript
    <3> QED BY <1>3, <3>1, <3>2
  <2>3. CASE StepDownScript
    <3>1. primary' \in BOOLEAN /\ UNCHANGED <<members, shardsvr, chunk>>
      BY <2>3 DEF StepDownScript
    <3> QED BY <1>3, <3>1
  <2>4. CASE ShardsvrScript \/ AddShardScript
    BY <1>3, <2>4 DEF ShardsvrScript, AddShardScript, Unchanged, mongoVars
  <2>5. CASE MoveChunkScript
    <3>1. UNCHANGED <<members, primary, shardsvr>>
      BY <2>5 DEF MoveChunkScript
    <3>2. \A S : \A s \in Seq(S) : Len(s) >= 2 => s[Len(s)] \in S
      OBVIOUS
    <3>3. Len(shards) >= 2 => Last(shards).name \in Text
      <4>1. Len(shards) >= 2 => shards[Len(shards)] \in [name : Text, host : Text]
        BY <1>3, <3>2
      <4> QED BY <4>1 DEF Last
    <3>4. goal.user \in Text
      BY <2>1, <2>5 DEF MoveChunkScript
    <3>5. Placed \subseteq Text
      <4>1. \A S : \A s \in Seq(S) : \A i \in DOMAIN s : s[i] \in S
        OBVIOUS
      <4>2. \A i \in DOMAIN shards : shards[i].name \in Text
        <5>1. \A i \in DOMAIN shards : shards[i] \in [name : Text, host : Text]
          BY <1>3, <4>1, Zenon
        <5>2. \A e \in [name : Text, host : Text] : e.name \in Text
          OBVIOUS
        <5> QED BY <5>1, <5>2
      <4> QED BY <4>2 DEF Placed, Named
    <3>6. chunk' \in Text \cup {None}
      BY <1>3, <2>5, <3>3, <3>4, <3>5 DEF MoveChunkScript, ChunkTarget
    <3> QED BY <1>3, <3>1, <3>6
  <2> QED BY <1>5, <2>2, <2>3, <2>4, <2>5 DEF Script
<1>6. CASE MongoCommand /\ Unchanged
  BY <1>3, <1>6 DEF Unchanged, mongoVars
<1> QED BY <1>4, <1>5, <1>6 DEF MongoNext, MongoCommand

-----------------------------------------------------------------------------
(* The host: the filesystem, images and networks, the containers.          *)

LEMMA InitGrowType == Init => GrowTypeOK
<1> SUFFICES ASSUME Init PROVE GrowTypeOK
  OBVIOUS
<1>1. /\ mount \in [source : Source, fstype : GrowFsKind \cup {"other"}]
      /\ volume = 1 /\ partition = 1 /\ filesystem = 1 /\ asked = 0
  BY DEF Init, GrowInit, Source, GrowFsKind
<1>2. 1 \in 1..MaxVolume
  BY GrowAssumption
<1> QED BY <1>1, <1>2 DEF GrowTypeOK

\* A filesystem is never larger than its partition, nor that than the volume.
LEMMA NextGrowType ==
  ASSUME GrowTypeOK, [Next]_vars
  PROVE  GrowTypeOK'
<1>1. CASE UNCHANGED growVars
  BY <1>1 DEF GrowTypeOK, growVars
<1> SUFFICES ASSUME GrowNext PROVE GrowTypeOK'
  BY <1>1 DEF Next, vars
<1>2. /\ volume \in Nat /\ partition \in Nat /\ filesystem \in Nat /\ asked \in Nat
      /\ MaxVolume \in Nat /\ 1 <= filesystem /\ filesystem <= partition /\ partition <= volume
      /\ volume <= MaxVolume /\ asked <= volume
  BY GrowAssumption DEF GrowTypeOK
<1>3. mount' = mount /\ mount \in [source : Source, fstype : GrowFsKind \cup {"other"}]
  BY DEF GrowNext, AcceptGrow, try_growpart, Resize, ExpandVolume, GrowTypeOK
<1>4. CASE AcceptGrow
  BY <1>2, <1>3, <1>4 DEF AcceptGrow, GrowTypeOK
<1>5. CASE try_growpart
  BY <1>2, <1>3, <1>5 DEF try_growpart, GrowTypeOK
<1>6. CASE Resize
  BY <1>2, <1>3, <1>6 DEF Resize, GrowTypeOK
<1>7. CASE ExpandVolume
  BY <1>2, <1>3, <1>7 DEF ExpandVolume, GrowTypeOK
<1> QED BY <1>4, <1>5, <1>6, <1>7 DEF GrowNext

LEMMA InitImageType == Init => ImageTypeOK
<1> SUFFICES ASSUME Init PROVE ImageTypeOK
  OBVIOUS
<1>1. /\ pinned = FALSE /\ verified = FALSE /\ fetched = FALSE /\ had = FALSE
      /\ local \in BOOLEAN /\ net \in BOOLEAN
  BY DEF Init, ImageInit
<1>2. policy \in PolicyType
  <2>1. [waived |-> {}, cosign |-> "off"] \in PolicyType
    BY DEF PolicyType
  <2> QED BY <2>1, PolicyAssumption DEF Init, ImageInit
<1>3. tarball \in TarballType
  <2>1. [at |-> "none", holds |-> FALSE] \in TarballType
    BY DEF TarballType
  <2> QED BY <2>1 DEF Init, ImageInit
<1> QED BY <1>1, <1>2, <1>3 DEF ImageTypeOK

LEMMA NextImageType ==
  ASSUME ImageTypeOK, [Next]_vars
  PROVE  ImageTypeOK'
<1>1. CASE UNCHANGED imageVars
  BY <1>1 DEF ImageTypeOK, imageVars
<1> SUFFICES ASSUME ImageNext PROVE ImageTypeOK'
  BY <1>1 DEF Next, vars
<1>2. CASE AcceptHost
  BY <1>2 DEF AcceptHost, ImageTypeOK
<1>3. CASE ~AcceptHost
  <2>1. UNCHANGED <<policy, tarball, pinned, had>>
    BY <1>3 DEF ImageNext, verify_image_signature, DockerRun, InspectImage, PullImage, LoadImage,
       InspectLoaded, InspectNetwork, CreateNetwork, OthersChange, imageEnv
  <2>2. /\ local' \in BOOLEAN /\ net' \in BOOLEAN
        /\ verified' \in BOOLEAN /\ fetched' \in BOOLEAN
    BY <1>3 DEF ImageNext, verify_image_signature, DockerRun, InspectImage, PullImage, LoadImage,
       InspectLoaded, InspectNetwork, CreateNetwork, OthersChange, ImageTypeOK, TarballType
  <2> QED BY <2>1, <2>2 DEF ImageTypeOK
<1> QED BY <1>2, <1>3

\* The counts of a report never exceed the number of containers.
LEMMA SummaryTyped ==
  ASSUME NEW r
  PROVE  summarize_from_containers(r) \in [running : 0..Cardinality(Ctr),
           exited : 0..Cardinality(Ctr), unhealthy : 0..Cardinality(Ctr)]
<1>1. \A S \in SUBSET Ctr : Cardinality(S) \in 0..Cardinality(Ctr)
  BY ProbeAssumption, FS_Subset, FS_CardinalityType
<1> DEFINE in(S) == {c \in Ctr : r[c] # None /\ r[c].state \in S}
<1>2. /\ in(RunningState) \in SUBSET Ctr /\ in(ContainerState \ RunningState) \in SUBSET Ctr
      /\ {c \in in(RunningState) : r[c].health = "unhealthy"} \in SUBSET Ctr
  OBVIOUS
<1>3. /\ Cardinality(in(RunningState)) \in 0..Cardinality(Ctr)
      /\ Cardinality(in(ContainerState \ RunningState)) \in 0..Cardinality(Ctr)
      /\ Cardinality({c \in in(RunningState) : r[c].health = "unhealthy"}) \in 0..Cardinality(Ctr)
  BY <1>1, <1>2
<1> QED BY <1>3 DEF summarize_from_containers

LEMMA InitProbeType == Init => ProbeTypeOK
<1> SUFFICES ASSUME Init PROVE ProbeTypeOK
  OBVIOUS
<1>1. /\ docker \in [Ctr -> Docker \cup {Gone}] /\ rows = NoRows /\ todo = {}
      /\ summary = [running |-> 0, exited |-> 0, unhealthy |-> 0]
  BY DEF Init, ProbeInit
<1>2. 0 \in 0..Cardinality(Ctr)
  BY ProbeAssumption, FS_CardinalityType
<1>3. rows \in [Ctr -> ContainerStatus \cup {None}]
  BY <1>1 DEF NoRows
<1> QED BY <1>1, <1>2, <1>3 DEF ProbeTypeOK

LEMMA NextProbeType ==
  ASSUME ProbeTypeOK, ProbeInv, ProbeInv', [Next]_vars
  PROVE  ProbeTypeOK'
<1>1. CASE UNCHANGED probeVars
  BY <1>1 DEF ProbeTypeOK, probeVars, Listed
<1> SUFFICES ASSUME ProbeNext PROVE ProbeTypeOK'
  BY <1>1 DEF Next, vars
<1>2. engine' = "ps"
  BY HostApart, HostKeeps DEF ProbeInv
<1>3. /\ docker' \in [Ctr -> Docker \cup {Gone}]
      /\ rows' \in [Ctr -> ContainerStatus \cup {None}]
      /\ todo' \subseteq Listed'
  BY <1>2 DEF ProbeInv, ProbeStage
<1>4. summary' = summary \/ \E r : summary' = summarize_from_containers(r)
  BY DEF ProbeNext, StartProbe, EnrichContainer, Summarize, DockerChanges
<1> QED BY <1>3, <1>4, SummaryTyped DEF ProbeTypeOK

-----------------------------------------------------------------------------
(* All of them.                                                            *)

\* No execution, fault, kill or restart, in whatever order and on whatever
\* engine, leaves the container, the host or the agent in a state that is not
\* one: a filesystem larger than its partition, a standby of a server nobody
\* named, a shard without a checked name (the executors of templated_exec,
\* grow_fs, docker_exec and the status probe, behind validate_for).
THEOREM ExecutorsTypeCorrect == Spec => []ExecutorsTypeOK
<1>1. Init => ExecutorsTypeOK
  BY InitFrameType, InitPgType, InitCopy, InitRedisType, InitChType, InitMongoType, InitGrowType,
     InitImageType, InitProbeType DEF ExecutorsTypeOK, CopyInv, CopyStage
<1>2. ASSUME ExecutorsTypeOK, CopyInv, RedisInv, ShardInv, ProbeInv,
             CopyInv', RedisInv', ShardInv', ProbeInv', [Next]_vars
      PROVE  ExecutorsTypeOK'
  <2>1. DbInv /\ GoalChosen
    BY <1>2 DEF RedisInv
  <2>2. FrameTypeOK' /\ PgTypeOK'
    BY <1>2, <2>1, NextFrameType, NextPgType DEF ExecutorsTypeOK, PgTypeOK
  <2>3. CopyTypeOK'
    BY <1>2 DEF CopyInv, CopyStage
  <2>4. RedisTypeOK'
    BY <1>2, <2>1, NextRedisType DEF ExecutorsTypeOK, RedisInv
  <2>5. ChTypeOK' /\ MongoTypeOK'
    BY <1>2, <2>1, NextChType, NextMongoType DEF ExecutorsTypeOK, ShardInv
  <2>6. GrowTypeOK' /\ ImageTypeOK' /\ ProbeTypeOK'
    BY <1>2, NextGrowType, NextImageType, NextProbeType DEF ExecutorsTypeOK
  <2> QED BY <2>2, <2>3, <2>4, <2>5, <2>6 DEF ExecutorsTypeOK
<1>3. Init => CopyInv /\ RedisInv /\ ShardInv /\ ProbeInv
  BY InitCopy, InitRedis, InitShard, InitProbe
<1>4. CopyInv /\ RedisInv /\ ShardInv /\ ProbeInv /\ [Next]_vars
      => CopyInv' /\ RedisInv' /\ ShardInv' /\ ProbeInv'
  BY NextCopy, NextRedis, NextShard, NextProbe
<1> QED BY <1>1, <1>2, <1>3, <1>4, PTL DEF Spec
=============================================================================
