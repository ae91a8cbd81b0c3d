------------------------------ MODULE MongoExec ------------------------------
(***************************************************************************)
(* MongoDB: the scripts mongosh evaluates for the replica set templates    *)
(* and, in a sharded cluster, for addShard and moveChunk.  The server is   *)
(* external: a member of a replica set, a config server or a router.       *)
(***************************************************************************)
EXTENDS ExecFrame, SequencesExt

VARIABLES
  members,    \* the hosts of the replica set; none: not initiated
  primary,    \* this member is the primary
  shardsvr,   \* the server was started as a shard server
  shards,     \* the shards in the order they are listed: their names and hosts
  chunk       \* the shard the chunk is on, or None where nothing is sharded

mongoVars == <<members, primary, shardsvr, shards, chunk>>

Initiate == {"mongo_rs_initiate", "mongo_config_rs_initiate"}
AddMember == {"mongo_rs_add", "mongo_config_rs_add"}

MongoInit ==
  /\ members = {} /\ primary = FALSE
  /\ shardsvr \in BOOLEAN
  /\ shards = << >> /\ chunk = None

Named(name) == \E i \in DOMAIN shards : shards[i].name = name
HostUsed(host) == \E i \in DOMAIN shards : shards[i].host = host

\* Variant of ChunkTarget: the last shard is always taken.
ChunkTargetLast(name) == Last(shards).name

\* A target that is not listed gives way to the last shard of the list.
ChunkTarget(name) == IF Named(name) THEN name ELSE Last(shards).name

-----------------------------------------------------------------------------
(* The scripts: what they change, and whether they end without throwing.   *)

Unchanged == UNCHANGED <<mongoVars, dirty>>

\* The script has run: it ended, or threw, and the agent heard of it or not.
Ends(ok) ==
  \/ Done(classify_promote_outcome(template, ok, {})) /\ NoFault
  \/ Breaks

\* Variant of InitiateScript: rs.initiate without asking rs.status first.
InitiateScriptUnguarded ==
  /\ template \in Initiate
  /\ members' = {goal.primary_host} /\ primary' = TRUE /\ Ends(TRUE)
  /\ UNCHANGED <<shardsvr, shards, chunk, dirty>>

\* try rs.status(), and only when that throws rs.initiate().
InitiateScript ==
  /\ template \in Initiate
  /\ IF members # {} THEN UNCHANGED <<members, primary>>
     ELSE members' = {goal.primary_host} /\ primary' = TRUE
  /\ Ends(TRUE)
  /\ UNCHANGED <<shardsvr, shards, chunk, dirty>>

\* "already a member" is swallowed, "not primary" is not.
AddScript ==
  /\ template \in AddMember
  /\ members' = IF primary THEN members \cup {goal.primary_host} ELSE members
  /\ Ends(primary)
  /\ UNCHANGED <<primary, shardsvr, shards, chunk, dirty>>

\* "not primary" is swallowed, that nobody can take over is not.
StepDownScript ==
  /\ template = "mongo_rs_step_down"
  /\ LET can == members # {} /\ (~primary \/ Cardinality(members) > 1) IN
     primary' = (primary /\ ~can) /\ Ends(can)
  /\ UNCHANGED <<members, shardsvr, shards, chunk, dirty>>

ShardsvrScript ==
  /\ template = "mongo_shardsvr_enable"
  /\ Ends(shardsvr)
  /\ Unchanged

\* A shard or a host that is there already is swallowed, under whatever name.
AddShardScript ==
  /\ template = "mongo_add_shard"
  /\ shards' = IF Named(goal.user) \/ HostUsed(goal.primary_host) THEN shards
               ELSE Append(shards, [name |-> goal.user, host |-> goal.primary_host])
  /\ Ends(TRUE)
  /\ UNCHANGED <<members, primary, shardsvr, chunk, dirty>>

\* Where the chunk may be when moveChunk throws: shardCollection has put it on
\* some shard unless it was on one before.
Placed == IF Named(chunk) THEN {chunk} ELSE {shards[i].name : i \in DOMAIN shards}

\* Two errors of moveChunk are swallowed: that the chunk is already on the
\* target, and "Chunk with the given bounds", with which the server declines a
\* chunk that others have split, merged or moved: nothing was moved, and the
\* script ends well.  Any other is thrown.
MoveChunkScript ==
  /\ template = "mongo_move_chunk"
  /\ \/ /\ ~(Len(shards) >= 2)
        /\ Ends(FALSE) /\ UNCHANGED <<chunk, dirty>>
     \/ /\ Len(shards) >= 2
        /\ \/ chunk' = ChunkTarget(goal.user) /\ Ends(TRUE) /\ UNCHANGED dirty
           \/ chunk' \in Placed /\ Ends(TRUE) /\ dirty' = TRUE
           \/ chunk' \in Placed /\ Breaks /\ UNCHANGED dirty
  /\ UNCHANGED <<members, primary, shardsvr, shards>>

Script ==
  \/ InitiateScript \/ AddScript \/ StepDownScript \/ ShardsvrScript
  \/ AddShardScript \/ MoveChunkScript

\* The script runs, or does not because of a fault, or throws for a reason of
\* the server's own (an election, a lock, a shard that cannot be reached).
MongoCommand ==
  /\ engine = "mongo" /\ step = "exec"
  /\ \/ Script
     \/ Unchanged /\ Breaks
  /\ Keep

Election ==
  /\ engine = "mongo"
  /\ Cardinality(members) > 1
  /\ primary' = ~primary
  /\ UNCHANGED <<frameVars, members, shardsvr, shards, chunk>>

MongoNext == MongoCommand \/ Election

-----------------------------------------------------------------------------

MongoTypeOK ==
  /\ members \subseteq Text /\ primary \in BOOLEAN /\ shardsvr \in BOOLEAN
  /\ shards \in Seq([name : Text, host : Text])
  /\ chunk \in Text \cup {None}

\* What a template asks for is there already.
InPlace ==
  CASE template \in Initiate -> members # {}
    [] template \in AddMember -> primary /\ goal.primary_host \in members
    [] template = "mongo_rs_step_down" -> members # {} /\ ~primary
    [] template = "mongo_shardsvr_enable" -> shardsvr
    [] template = "mongo_add_shard" -> Named(goal.user)
    [] template = "mongo_move_chunk" ->
         Len(shards) >= 2 /\ Named(goal.user) /\ chunk = goal.user
    [] OTHER -> FALSE

\* Asked for what is there already, and no fault, a template changes nothing,
\* whatever other hosts and names the request carries, and says so with a
\* success: an action leased a second time does no harm (the try and catch of
\* the scripts).
MongoRepeatIsOk ==
  [][engine = "mongo" /\ step = "exec" /\ step' = "idle" /\ ~faulted' /\ InPlace
     => reply' = "ok" /\ UNCHANGED mongoVars]_<<frameVars, mongoVars>>

\* A success of addShard means that the named shard or the host is a shard.  One
\* of moveChunk means that the chunk is on the shard named, or on the last one
\* listed where none has that name, unless the server declined the chunk with
\* "Chunk with the given bounds": then it is answered with nothing moved
\* (mongodb_sharded_templated_exec_argv).
ShardAnswerTrue ==
  Answered /\ reply = "ok" =>
    /\ template = "mongo_add_shard" => Named(goal.user) \/ HostUsed(goal.primary_host)
    /\ template = "mongo_move_chunk" =>
         dirty \/ chunk = (IF Named(goal.user) THEN goal.user ELSE Last(shards).name)
=============================================================================
