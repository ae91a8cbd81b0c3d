------------------------------ MODULE RedisExec ------------------------------
(***************************************************************************)
(* Redis: the replication and cluster templates, each one command but for  *)
(* redis_cluster_migrate_slot_keys, which lists a slot and migrates what   *)
(* it listed.                                                              *)
(*                                                                         *)
(* The server is external, and so is redis-cli, which may report an error  *)
(* reply with exit status 0 or not: then the code takes it for a success,  *)
(* and an execution that met one is dirty.  The keys all live in one slot. *)
(***************************************************************************)
EXTENDS ExecFrame, FiniteSets

CONSTANTS
  Key,
  BadKey,              \* keys with characters templated_redis_key_allowed refuses
  KeySlot,             \* the slot the keys are in
  MIGRATE_KEYS_BATCH,
  ThisNode             \* the cluster node id of this server

ASSUME RedisAssumption ==
  /\ BadKey \subseteq Key /\ KeySlot \in 0..MaxSlot
  /\ MIGRATE_KEYS_BATCH \in Nat \ {0} /\ ThisNode \in Text

\* importing: theirs, and keys are let in.  migrating: mine, and keys go out.
SlotState == {"none", "mine", "migrating", "theirs", "importing"}
Owned == {"mine", "migrating"}

VARIABLES
  following,  \* the server this one is a replica of, or None: a master
  met,        \* the node knows a peer
  slots,      \* the state of each slot
  here,       \* the keys here
  there,      \* the keys at the peer they are migrated to
  listed,     \* the keys listed by the first command
  before      \* history: the keys here when the execution began

redisVars == <<following, met, slots, here, there, listed, before>>

RedisInit ==
  /\ following \in {None} \cup (Text \cap {p.primary_host : p \in Params})
  /\ met = FALSE
  /\ \E st \in {"none", "mine"} : slots = [s \in 0..MaxSlot |-> st]
  /\ here \in IF slots[KeySlot] = "mine" THEN SUBSET Key ELSE {{}}
  /\ there = {} /\ listed = {} /\ before = {}

RedisEngine == engine \in {"redis", "rediscluster"}
Clustered == engine = "rediscluster"

-----------------------------------------------------------------------------
(* The one-command templates.  Each is the state the command brings about, *)
(* or FALSE where the server refuses it.                                   *)

\* On a standalone server a new replica drops its keys for those of its master.
Effect ==
  CASE template = "redis_replicaof_no_one" ->
         /\ ~Clustered
         /\ following' = None
         /\ UNCHANGED <<met, slots, here>>
    [] template = "redis_replicaof" ->
         /\ ~Clustered
         /\ following' = goal.primary_host
         /\ here' = IF following = goal.primary_host THEN here ELSE {}
         /\ UNCHANGED <<met, slots>>
    [] template = "redis_cluster_meet" ->
         /\ Clustered
         /\ met' = TRUE
         /\ UNCHANGED <<following, slots, here>>
    [] template = "redis_cluster_replicate" ->
         /\ Clustered /\ met /\ goal.cluster_node_id # ThisNode
         /\ following # None \/ (here = {} /\ \A s \in DOMAIN slots : slots[s] \notin Owned)
         /\ following' = goal.cluster_node_id
         /\ UNCHANGED <<met, slots, here>>
    [] template = "redis_cluster_slots_assign" ->
         /\ Clustered
         /\ \A s \in SplicedSlots(goal, template) : slots[s] = "none"
         /\ slots' = [s \in DOMAIN slots |->
                        IF s \in SplicedSlots(goal, template) THEN "mine" ELSE slots[s]]
         /\ UNCHANGED <<following, met, here>>
    [] template = "redis_cluster_migrate" ->
         /\ Clustered /\ (goal.cluster_node_id = ThisNode \/ met)
         /\ \/ goal.cluster_node_id = ThisNode
            \/ goal.slot_start # KeySlot \/ here = {}
            \/ slots[goal.slot_start] \notin Owned
         /\ slots' = [slots EXCEPT ![goal.slot_start] =
                        IF goal.cluster_node_id = ThisNode THEN "mine" ELSE "theirs"]
         /\ UNCHANGED <<following, met, here>>
    [] template = "redis_cluster_setslot_importing" ->
         /\ Clustered /\ met /\ slots[goal.slot_start] \notin Owned
         /\ slots' = [slots EXCEPT ![goal.slot_start] = "importing"]
         /\ UNCHANGED <<following, met, here>>
    [] template = "redis_cluster_setslot_migrating" ->
         /\ Clustered /\ met /\ slots[goal.slot_start] \in Owned
         /\ slots' = [slots EXCEPT ![goal.slot_start] = "migrating"]
         /\ UNCHANGED <<following, met, here>>
    [] template = "redis_cluster_myid" ->
         /\ Clustered
         /\ UNCHANGED <<following, met, slots, here>>
    [] OTHER -> FALSE

Nothing == UNCHANGED <<following, met, slots, here>>

\* An error reply: with a failing exit status, or hidden behind a good one.
Refused ==
  \/ Done(classify_promote_outcome(template, FALSE, {})) /\ UNCHANGED dirty
  \/ Done(classify_promote_outcome(template, TRUE, {})) /\ dirty' = TRUE

\* A server refuses also for reasons of its own (it is loading, or out of memory).
RedisCommand ==
  /\ RedisEngine /\ step = "exec"
  /\ \/ Effect /\ Done(classify_promote_outcome(template, TRUE, {}))
        /\ NoFault /\ UNCHANGED dirty
     \/ Nothing /\ Refused /\ NoFault
     \/ (Effect \/ Nothing) /\ Breaks /\ UNCHANGED dirty
  /\ listed' = {} /\ before' = {}
  /\ Keep /\ UNCHANGED there

-----------------------------------------------------------------------------
(* run_migrate_slot_keys.                                                  *)

Batches(keys) ==
  {b \in SUBSET keys : Cardinality(b) = MIGRATE_KEYS_BATCH}
    \cup (IF Cardinality(keys) <= MIGRATE_KEYS_BATCH THEN {keys} ELSE {})

InSlot == IF goal.slot_start = KeySlot THEN here ELSE {}

\* What follows a listing: nothing to do, a key that is refused, or the command.
AfterListing(keys) ==
  CASE keys = {} -> Done(classify_promote_outcome(template, TRUE, {"ok"}))
    [] keys \cap BadKey # {} -> Done("failed")
    [] OTHER -> Proceed("migrate")

\* Variant of ListKeys: a listing that failed is an empty one.
ListKeysUnchecked ==
  /\ step = "list"
  /\ before' = InSlot
  /\ \/ /\ \E keys \in Batches(InSlot) : listed' = keys /\ AfterListing(keys)
        /\ NoFault
     \/ listed' = {} /\ AfterListing({}) /\ Fault
  /\ Keep /\ UNCHANGED <<dirty, following, met, slots, here, there>>

\* The words of an error reply that came with exit status 0 are taken for keys,
\* which no server has.
ListKeys ==
  /\ step = "list"
  /\ before' = InSlot
  /\ \/ /\ Clustered
        /\ \E keys \in Batches(InSlot) : listed' = keys /\ AfterListing(keys)
        /\ NoFault /\ UNCHANGED dirty
     \/ listed' = {} /\ Done("failed") /\ NoFault /\ UNCHANGED dirty
     \/ listed' = {} /\ Proceed("migrate") /\ dirty' = TRUE /\ NoFault
     \/ listed' = {} /\ Fails /\ UNCHANGED dirty
  /\ Keep /\ UNCHANGED <<following, met, slots, here, there>>

\* MIGRATE without REPLACE: a key the peer has is refused, as is any that the
\* peer does not import.  The keys that the peer acknowledged are deleted here;
\* when an acknowledgement is lost the key is on both sides.
MigrateKeys ==
  /\ step = "migrate"
  /\ \/ /\ listed \cap there = {} \* absent keys are passed over
        /\ there' = there \cup (listed \cap here)
        /\ here' = here \ listed
        /\ Done(classify_promote_outcome(template, TRUE, {}))
        /\ NoFault /\ UNCHANGED dirty
     \/ /\ \E moved \in SUBSET ((listed \cap here) \ there) :
             there' = there \cup moved /\ here' = here \ moved
        /\ Refused /\ NoFault
     \/ /\ \E moved \in SUBSET ((listed \cap here) \ there), kept \in SUBSET listed :
             there' = there \cup moved /\ here' = here \ (moved \ kept)
        /\ \/ Breaks /\ UNCHANGED dirty
           \/ Refused /\ Fault
  /\ Keep /\ UNCHANGED <<following, met, slots, listed, before>>

\* A client writes or deletes a key; new keys go to the peer once the slot migrates.
KeyWritten ==
  /\ RedisEngine /\ following = None
  /\ \/ /\ slots[KeySlot] = "mine" \/ ~Clustered
        /\ \E k \in Key \ (here \cup there) : here' = here \cup {k}
     \/ \E k \in here : here' = here \ {k}
  /\ UNCHANGED <<frameVars, following, met, slots, there, listed, before>>

RedisNext == RedisCommand \/ ListKeys \/ MigrateKeys \/ KeyWritten

-----------------------------------------------------------------------------

RedisTypeOK ==
  /\ following \in Text \cup {None} /\ met \in BOOLEAN
  /\ slots \in [0..MaxSlot -> SlotState]
  /\ here \subseteq Key /\ there \subseteq Key
  /\ listed \subseteq Key /\ before \subseteq Key

\* What a template was to bring about.
RedisDone ==
  CASE template = "redis_replicaof_no_one" -> following = None
    [] template = "redis_replicaof" -> following = goal.primary_host
    [] template = "redis_cluster_replicate" -> following = goal.cluster_node_id
    [] template = "redis_cluster_meet" -> met
    [] template = "redis_cluster_slots_assign" ->
         \A s \in SplicedSlots(goal, template) : slots[s] \in Owned
    [] template = "redis_cluster_migrate" ->
         slots[goal.slot_start] = IF goal.cluster_node_id = ThisNode THEN "mine" ELSE "theirs"
    [] template = "redis_cluster_setslot_importing" -> slots[goal.slot_start] = "importing"
    [] template = "redis_cluster_setslot_migrating" -> slots[goal.slot_start] = "migrating"
    [] OTHER -> TRUE

\* A Redis template answered as a success has done what it names, except where
\* an error reply came with a good exit status or, with the two replicaof
\* templates, where a failure is taken for success by a word in its text
\* (redis_templated_exec_argv, classify_promote_outcome).
RedisAnswerTrue ==
  /\ RedisEngine /\ Answered /\ reply = "ok" /\ ~dirty
  /\ template \in RedisReplicaTemplate => ~faulted
  => RedisDone

\* Unless an error reply came with exit status 0, a migration of keys is answered
\* as a success only when every key that it listed has left and is with the
\* peer, if a client did not delete it first, and when it listed all the keys of
\* the slot or a full batch (run_migrate_slot_keys: an empty listing is a
\* success, a failed one is not).  redis-cli is run without -e and exits 0 on
\* an error reply: an IOERR or BUSYKEY of MIGRATE is answered as a success with
\* the keys still here, and a refused GETKEYSINSLOT as a slot without keys.
MoveAnswerTrue ==
  [][step # "idle" /\ step' = "idle" /\ reply' = "ok" /\ ~dirty'
     /\ template = "redis_cluster_migrate_slot_keys"
     => /\ before' \subseteq listed' \/ Cardinality(listed') = MIGRATE_KEYS_BATCH
        /\ listed' \cap here' = {}
        /\ listed' \cap here \subseteq there']_<<frameVars, redisVars>>
=============================================================================
