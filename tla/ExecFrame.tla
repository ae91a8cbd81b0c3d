------------------------------ MODULE ExecFrame ------------------------------
(***************************************************************************)
(* One container, the database engine in it, and the agent that executes   *)
(* templated execs on it one at a time: run_templated_exec_with up to the  *)
(* choice of the commands, the process that may be killed, and the docker  *)
(* CLI that may not start.  The commands and the state they act on are in  *)
(* the modules that extend this one; each of their actions says what the   *)
(* step does to the variables declared here.                               *)
(***************************************************************************)
EXTENDS ExecTemplates

CONSTANTS
  Params,    \* the parameters requests come with
  MaxFault,  \* bound: commands that fail for no reason of their own, and kills
  None

ASSUME FrameAssumption ==
  /\ Params \subseteq TemplatedExecParams
  /\ MaxFault \in Nat

\* None is not the name of anything.
ASSUME FrameSentinel == None \notin Text

\* What is in the container; or the part of the host that is
\* acted on: its filesystem, the images and networks, the list of containers.
Engine == {"pg", "pgcopy", "redis", "rediscluster", "ch", "chcopy", "mongo", "host",
           "images", "ps"}

TemplatesOf(e) ==
  CASE e = "pg" -> PgStandby \cup {"pg_promote"}
    [] e = "pgcopy" -> {"pg_shard_bulk_copy"}
    [] e \in {"redis", "rediscluster"} -> RedisReplicaTemplate \cup RedisClusterTemplate
    [] e = "ch" -> ChTemplate \ {"ch_shard_bulk_copy"}
    [] e = "chcopy" -> {"ch_shard_bulk_copy"}
    [] e = "mongo" -> MongoTemplate
    [] OTHER -> {}

VARIABLES
  engine,    \* what is in the container
  template,  \* the template executed last, or None
  goal,      \* its validated parameters, or None
  step,      \* the command that is next
  reply,     \* "none", "ok", "failed" (success: false), "rejected" or "error" (an Err)
  faults,    \* history: faults so far
  faulted,   \* history: there was a fault during this execution
  dirty      \* history: a failure that the code does not see had a part in it

frameVars == <<engine, template, goal, step, reply, faults, faulted, dirty>>

FrameInit ==
  /\ engine \in Engine
  /\ template = None /\ goal = None
  /\ step = "idle" /\ reply = "none"
  /\ faults = 0 /\ faulted = FALSE /\ dirty = FALSE

Answered == step = "idle" /\ reply # "none"

\* Steps a command's action is put together from.
Keep == UNCHANGED <<engine, template, goal>>
Done(r) == step' = "idle" /\ reply' = r
Proceed(s) == step' = s /\ UNCHANGED reply
Dies == step' = "down" /\ reply' = "none"

NoFault == UNCHANGED <<faults, faulted>>
Fault == faults < MaxFault /\ faults' = faults + 1 /\ faulted' = TRUE

\* A command that is not the last one of its template fails, or the agent is killed.
Fails == Fault /\ (Done("failed") \/ Dies)

\* The last command ends without its result reaching the agent as it was: the
\* client fails with some text, or the agent is killed.
Breaks ==
  /\ Fault
  /\ \/ \E said \in GeneralText : Done(classify_promote_outcome(template, FALSE, said))
     \/ Dies

-----------------------------------------------------------------------------

\* The first docker command of each template.
dispatch_templated_exec(t) ==
  CASE t \in PgStandby -> "stop"
    [] t = "pg_shard_bulk_copy" -> "create_src"
    [] t = "ch_shard_bulk_copy" -> "create_dst"
    [] t = "redis_cluster_migrate_slot_keys" -> "list"
    [] t = "ch_remote_servers_apply" -> "write_xml"
    [] t = "ch_distributed_ensure" -> "create_local"
    [] OTHER -> "exec"

\* The parameters are validated before anything is done.
Accept ==
  /\ step = "idle"
  /\ template' \in TemplatesOf(engine)
  /\ \/ /\ goal' \in {validate_for(p, template') : p \in {q \in Params : Accepted(q, template')}}
        /\ step' = dispatch_templated_exec(template') /\ reply' = "none"
     \/ /\ \E p \in Params : ~Accepted(p, template')
        /\ goal' = None /\ Done("rejected")
  /\ faulted' = FALSE /\ dirty' = FALSE
  /\ UNCHANGED <<engine, faults>>

AtCommand == step \notin {"idle", "copying", "down"}

\* docker cannot be started: an Err, at whatever command it happens.  grow_fs
\* and the status probe make an answer of it, in their own actions.
SpawnFails ==
  /\ AtCommand /\ template \notin {"grow_fs", "status"}
  /\ Done("error")
  /\ Fault
  /\ Keep /\ UNCHANGED dirty

\* Killed between two commands.
KilledBetween ==
  /\ AtCommand
  /\ Dies
  /\ Fault
  /\ Keep /\ UNCHANGED dirty

Restart ==
  /\ step = "down"
  /\ step' = "idle"
  /\ Keep /\ UNCHANGED <<reply, faults, faulted, dirty>>

FrameNext == Accept \/ SpawnFails \/ KilledBetween \/ Restart

-----------------------------------------------------------------------------

FrameTypeOK ==
  /\ engine \in Engine
  /\ template \in TemplatedExecId
                    \cup {"grow_fs", "ensure_docker_image", "ensure_network", "deploy",
                          "status", None}
  /\ goal = None \/ goal \in TemplatedExecParams
  /\ step \in {"idle", "down", "exec", "stop", "rewind", "clear", "backup", "copying", "start",
               "create_src", "create_dst", "dump", "apply", "insert", "list", "migrate",
               "write_xml", "reload", "create_local", "create_dist", "growpart", "resize",
               "verify", "docker_run", "image_inspect", "pull", "load", "reinspect",
               "net_inspect", "net_create", "inspect"}
  /\ reply \in {"none", "ok", "failed", "rejected", "error"}
  /\ faults \in 0..MaxFault /\ faulted \in BOOLEAN /\ dirty \in BOOLEAN

\* The port on which the engine of a template takes the connection its argv asks
\* for; with ClickHouse that of the native protocol, which remote() speaks.
EnginePort(t) ==
  CASE t \in RedisReplicaTemplate \cup RedisClusterTemplate -> 6379
    [] t \in ChTemplate -> 9000
    [] t \in MongoTemplate -> 27017
    [] OTHER -> 5432

RequestedPorts == {p.primary_port : p \in Params} \ {0}

\* What types.rs demands of a request is what the argv builders put into the
\* docker command: no template is executed with a blank or unchecked host, user,
\* node id or topology in its arguments, with a port that is neither the one of
\* its engine nor requested, or with slots that are not all of the slots the
\* request names, one or a batch of them at most (validate_for against
\* promote_exec_argv, redis_templated_exec_argv, pg_basebackup_argv,
\* clickhouse_*, mongodb_*).
ArgvIsComplete ==
  goal # None =>
    /\ template \in SplicesHost =>
         /\ goal.primary_host \in Text
         /\ goal.primary_port \in RequestedPorts \cup {EnginePort(template)}
    /\ template \in SplicesUser => goal.user \in Text
    /\ template \in SplicesNodeId => goal.cluster_node_id \in Text
    /\ template \in requires_slot_range =>
         /\ SplicedSlots(goal, template) = goal.slot_start..goal.slot_end
         /\ goal.slot_start \in SplicedSlots(goal, template)
         /\ SplicedSlots(goal, template) \subseteq 0..MaxSlot
         /\ \A s \in SplicedSlots(goal, template) :
              s < goal.slot_start + TEMPLATED_EXEC_MAX_SLOT_BATCH
    /\ template \in SplicesTopology =>
         /\ goal.topology_peers # << >>
         /\ \A i \in 1..Len(goal.topology_peers) :
              goal.topology_peers[i].host \in Text /\ goal.topology_peers[i].shard \in Text
=============================================================================
