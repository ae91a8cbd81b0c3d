---------------------------- MODULE ExecTemplates ----------------------------
(***************************************************************************)
(* The catalog of templated execs: which parameters each template demands, *)
(* how a request's parameters are validated and completed, which of them   *)
(* its docker commands splice, and how the outcome of a command is         *)
(* classified.  The first two stand in types.rs, the last two in the       *)
(* modules of templated_exec; nothing but agreement holds them together.   *)
(*                                                                         *)
(* A text is known by whether it is blank, passes the character checks, or *)
(* does not.  A topology is a sequence of its non-empty parts; one that is *)
(* too long in characters is counted among those with too many parts.      *)
(***************************************************************************)
EXTENDS Naturals, Sequences

CONSTANTS
  Text,     \* texts that pass the checks of hosts, users and node ids
  MaxSlot,  \* the highest slot, 16383
  TEMPLATED_EXEC_MAX_SLOT_BATCH,
  MaxPart   \* the most parts a topology may have, 64

Blank   == ""
Garbled == "garbled"
Field   == Text \cup {Blank, Garbled}

ASSUME CatalogAssumption ==
  /\ {"nucleus", "rs0", "cfg0"} \subseteq Text
  /\ Blank \notin Text /\ Garbled \notin Text
  /\ MaxSlot \in Nat
  /\ TEMPLATED_EXEC_MAX_SLOT_BATCH \in Nat \ {0}
  /\ MaxPart \in Nat

PgStandby == {"pg_standby_bootstrap", "pg_standby_follow"}
PgTemplate == PgStandby \cup {"pg_promote", "pg_shard_bulk_copy"}
RedisReplicaTemplate == {"redis_replicaof_no_one", "redis_replicaof"}
RedisClusterTemplate ==
  {"redis_cluster_meet", "redis_cluster_replicate", "redis_cluster_slots_assign",
   "redis_cluster_migrate", "redis_cluster_myid", "redis_cluster_setslot_importing",
   "redis_cluster_setslot_migrating", "redis_cluster_migrate_slot_keys"}
ChReadiness ==
  {"ch_rmt_bootstrap", "ch_rmt_follow", "ch_promote", "ch_keeper_quorum_apply"}
ChTemplate ==
  ChReadiness \cup {"ch_remote_servers_apply", "ch_distributed_ensure",
                    "ch_shard_bulk_copy"}
MongoTemplate ==
  {"mongo_rs_initiate", "mongo_rs_add", "mongo_rs_step_down", "mongo_config_rs_initiate",
   "mongo_config_rs_add", "mongo_shardsvr_enable", "mongo_add_shard", "mongo_move_chunk"}

TemplatedExecId ==
  PgTemplate \cup RedisReplicaTemplate \cup RedisClusterTemplate \cup ChTemplate
    \cup MongoTemplate

-----------------------------------------------------------------------------
(* What types.rs demands.                                                  *)

requires_mongo_rs_name ==
  {"mongo_rs_initiate", "mongo_config_rs_initiate", "mongo_add_shard", "mongo_move_chunk"}

\* Variant of requires_primary_conn: the newest copy template is forgotten.
requires_primary_conn_not_ch_copy ==
  PgStandby \cup {"redis_replicaof", "redis_cluster_meet",
   "redis_cluster_migrate_slot_keys", "pg_shard_bulk_copy", "ch_rmt_bootstrap",
   "ch_rmt_follow", "mongo_rs_initiate", "mongo_rs_add", "mongo_config_rs_initiate",
   "mongo_config_rs_add", "mongo_add_shard"}

requires_primary_conn ==
  PgStandby \cup {"redis_replicaof", "redis_cluster_meet",
   "redis_cluster_migrate_slot_keys", "pg_shard_bulk_copy", "ch_shard_bulk_copy",
   "ch_rmt_bootstrap", "ch_rmt_follow", "mongo_rs_initiate", "mongo_rs_add",
   "mongo_config_rs_initiate", "mongo_config_rs_add", "mongo_add_shard"}

requires_cluster_node_id ==
  {"redis_cluster_replicate", "redis_cluster_migrate", "redis_cluster_setslot_importing",
   "redis_cluster_setslot_migrating"}

\* The templates of validate_slot_range that take one slot per call.
OneSlot ==
  {"redis_cluster_migrate", "redis_cluster_setslot_importing",
   "redis_cluster_setslot_migrating", "redis_cluster_migrate_slot_keys"}

requires_slot_range == OneSlot \cup {"redis_cluster_slots_assign"}

requires_topology_peers == {"ch_remote_servers_apply", "ch_keeper_quorum_apply"}

requires_ch_cluster_name == {"ch_remote_servers_apply", "ch_distributed_ensure"}

default_primary_port(t) ==
  CASE t \in {"redis_replicaof", "redis_cluster_meet", "redis_cluster_migrate_slot_keys"} -> 6379
    [] t \in {"ch_rmt_bootstrap", "ch_keeper_quorum_apply"} -> 9181
    [] t = "ch_rmt_follow" -> 8123
    [] t \in {"ch_remote_servers_apply", "ch_shard_bulk_copy"} -> 9000
    [] t \in {"mongo_rs_initiate", "mongo_rs_add", "mongo_config_rs_initiate",
              "mongo_config_rs_add", "mongo_add_shard"} -> 27017
    [] OTHER -> 5432

-----------------------------------------------------------------------------
(* Parameters and their validation.                                        *)

\* shard@host:port; the shard is "none" where there is no @.
Part ==
  [shard : Text \cup {"none", Garbled}, host : Field, port : BOOLEAN]

TemplatedExecParams ==
  [primary_host : Field, primary_port : Nat, user : Field, cluster_node_id : Field,
   slot_start : Nat, slot_end : Nat, topology_peers : Seq(Part)]

\* Templates whose user may be left blank, and what it then becomes.
UserDefaults == PgTemplate \cup (requires_mongo_rs_name \ {"mongo_move_chunk"})

DefaultUser(t) ==
  CASE t \in PgTemplate -> "nucleus"
    [] t = "mongo_config_rs_initiate" -> "cfg0"
    [] OTHER -> "rs0"

UserRequired == requires_ch_cluster_name \cup {"mongo_move_chunk"}

\* Variant of slot_range_valid: the batch limit is off by one.
slot_range_valid_off_by_one(p, t) ==
  /\ p.slot_start <= MaxSlot /\ p.slot_end <= MaxSlot
  /\ p.slot_start <= p.slot_end
  /\ IF t \in OneSlot THEN p.slot_start = p.slot_end
     ELSE p.slot_end - p.slot_start <= TEMPLATED_EXEC_MAX_SLOT_BATCH

slot_range_valid(p, t) ==
  /\ p.slot_start <= MaxSlot /\ p.slot_end <= MaxSlot
  /\ p.slot_start <= p.slot_end
  /\ IF t \in OneSlot THEN p.slot_start = p.slot_end
     ELSE p.slot_end - p.slot_start + 1 <= TEMPLATED_EXEC_MAX_SLOT_BATCH

\* Only remote servers have shards; elsewhere @ may stand in a host.
topology_peers_valid(p, t) ==
  /\ Len(p.topology_peers) \in 1..MaxPart
  /\ \A i \in 1..Len(p.topology_peers) :
       LET part == p.topology_peers[i] IN
         /\ part.host \in Text /\ part.port
         /\ t = "ch_remote_servers_apply" => part.shard \in Text

Accepted(p, t) ==
  /\ t \in requires_primary_conn => p.primary_host \in Text
  /\ t \in UserDefaults => p.user \in Text \cup {Blank}
  /\ t \in UserRequired => p.user \in Text
  /\ t \in requires_cluster_node_id => p.cluster_node_id \in Text
  /\ t \in requires_slot_range => slot_range_valid(p, t)
  /\ t \in requires_topology_peers => topology_peers_valid(p, t)

\* The validated parameters: defaults filled in, what is not asked for blank.
validate_for(p, t) ==
  [primary_host |-> IF t \in requires_primary_conn THEN p.primary_host ELSE Blank,
   primary_port |-> IF t \in requires_primary_conn /\ p.primary_port # 0
                    THEN p.primary_port ELSE default_primary_port(t),
   user |-> IF t \in UserDefaults THEN (IF p.user = Blank THEN DefaultUser(t) ELSE p.user)
            ELSE IF t \in UserRequired THEN p.user ELSE Blank,
   cluster_node_id |-> IF t \in requires_cluster_node_id THEN p.cluster_node_id ELSE Blank,
   slot_start |-> IF t \in requires_slot_range \cup {"mongo_move_chunk"}
                  THEN p.slot_start ELSE 0,
   slot_end |-> IF t \in requires_slot_range THEN p.slot_end ELSE 0,
   topology_peers |-> IF t \in requires_topology_peers THEN p.topology_peers ELSE << >>]

-----------------------------------------------------------------------------
(* What the argv builders splice.                                          *)

SplicesHost ==
  PgStandby \cup {"pg_shard_bulk_copy", "redis_replicaof", "redis_cluster_meet",
   "redis_cluster_migrate_slot_keys", "ch_shard_bulk_copy", "mongo_rs_initiate",
   "mongo_rs_add", "mongo_config_rs_initiate", "mongo_config_rs_add", "mongo_add_shard"}

SplicesUser ==
  PgTemplate \cup {"ch_remote_servers_apply", "ch_distributed_ensure", "mongo_rs_initiate",
   "mongo_config_rs_initiate", "mongo_add_shard", "mongo_move_chunk"}

SplicesNodeId ==
  {"redis_cluster_replicate", "redis_cluster_migrate", "redis_cluster_setslot_importing",
   "redis_cluster_setslot_migrating"}

\* One slot, or with slots_assign the slots of the range.
SplicedSlots(v, t) ==
  CASE t = "redis_cluster_slots_assign" -> v.slot_start..v.slot_end
    [] t \in OneSlot -> {v.slot_start}
    [] OTHER -> {}

SplicesTopology == {"ch_remote_servers_apply"}

-----------------------------------------------------------------------------
(* classify_promote_outcome.                                               *)

\* What the output of a failed command may contain; "silence" is no output.
\* Any command can fail with no output (its client was killed), with "ok" in
\* it ("broken pipe"), or with the name of the container.
Phrase ==
  {"silence", "ok", "already", "master", "not a replica", "not in recovery",
   "already initialized", "already a member", "not primary", "already exists",
   "already on shard"}

GeneralText == {{}, {"silence"}, {"ok"}, {"master"}}

\* The phrases that turn a failure into an idempotent success.
IdempotentPhrase(t) ==
  CASE t = "pg_promote" -> {"not in recovery"}
    [] t = "redis_replicaof_no_one" -> {"ok", "silence", "already", "not a replica", "master"}
    [] t = "redis_replicaof" -> {"ok", "silence", "already"}
    [] t \in {"mongo_rs_initiate", "mongo_config_rs_initiate"} -> {"already initialized"}
    [] t \in {"mongo_rs_add", "mongo_config_rs_add"} -> {"already a member"}
    [] t = "mongo_rs_step_down" -> {"not primary"}
    [] t = "mongo_add_shard" -> {"already exists", "already a member"}
    [] t = "mongo_move_chunk" -> {"already on shard"}
    [] OTHER -> {}

\* Variant of classify_promote_outcome: the exit status is not looked at.
classify_any_outcome(t, status_success, said) == "ok"

classify_promote_outcome(t, status_success, said) ==
  IF status_success \/ said \cap IdempotentPhrase(t) # {} THEN "ok" ELSE "failed"
=============================================================================
