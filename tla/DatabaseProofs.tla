---------------------------- MODULE DatabaseProofs ----------------------------
(***************************************************************************)
(* Proofs about the templates of Executors that act on a database: what    *)
(* their answers mean, for every value of the constants.  They rest on     *)
(* DbOwner, which commands a template runs through, and on one invariant   *)
(* for each engine: what the step says of the state acted on.              *)
(***************************************************************************)
EXTENDS ExecutorsProofs, FiniteSetTheorems

-----------------------------------------------------------------------------
(* Which steps are whose.                                                  *)

TemplateSteps(t) ==
  CASE t \in PgStandby -> StandbyStep
    [] t = "pg_shard_bulk_copy" -> {"create_src", "create_dst", "dump", "apply"}
    [] t = "ch_shard_bulk_copy" -> {"create_dst", "insert"}
    [] t = "redis_cluster_migrate_slot_keys" -> {"list", "migrate"}
    [] t = "ch_remote_servers_apply" -> {"write_xml", "reload"}
    [] t = "ch_distributed_ensure" -> {"create_local", "create_dist"}
    [] OTHER -> {"exec"}

\* A database runs its own templates, each through its own commands, and an
\* answer is given at the end only.
DbOwner ==
  engine \notin HostEngine =>
    /\ step # "idle" => reply = "none" /\ step \in TemplateSteps(template) \cup {"down"}
    /\ step # "idle" \/ reply # "none" => template \in TemplatesOf(engine)

DbInv == Owner /\ DbOwner

LEMMA InitDb == Init => DbInv
BY InitOwner DEF Init, FrameInit, DbOwner, DbInv

LEMMA NextDb == DbInv /\ [Next]_vars => DbInv'
<1> SUFFICES ASSUME Owner, DbOwner, [Next]_vars PROVE DbOwner'
  BY NextOwner DEF DbInv
<1>1. CASE engine \in HostEngine
  <2>1. engine' = engine
    BY <1>1, HostMoves, HostKeeps DEF FrameFails, SpawnFails, KilledBetween, Restart, Keep,
       frameVars
  <2> QED BY <1>1, <2>1 DEF DbOwner
<1>2. CASE engine \notin HostEngine
  <2> USE DEF DbOwner
  <2>1. engine' = engine
    BY <1>2, ElsewhereMoves
  <2>2. CASE Accept
    <3>1. dispatch_templated_exec(template') \in TemplateSteps(template')
      BY DEF dispatch_templated_exec, TemplateSteps, StandbyStep
    <3> QED BY <2>1, <2>2, <3>1 DEF Accept, Done
  <2>3. CASE SpawnFails \/ KilledBetween \/ Restart
    BY <1>2, <2>1, <2>3 DEF SpawnFails, KilledBetween, Restart, AtCommand, Keep, Done, Dies
  <2>4. ASSUME UNCHANGED template, step # "idle" \/ UNCHANGED <<step, reply>>,
               \/ UNCHANGED <<step, reply>>
               \/ step' = "idle"
               \/ step' \in TemplateSteps(template) \cup {"down"} /\ reply' = "none"
        PROVE  DbOwner'
    BY <1>2, <2>1, <2>4
  <2> USE DEF Done, Proceed, Dies, Fails, Breaks, Keep
  <2>5. CASE PgNext
    <3>1. template \in PgStandby => TemplateSteps(template) = StandbyStep
      BY DEF TemplateSteps, PgStandby
    <3>2. step # "idle" => reply = "none"
      BY <1>2
    <3>3. UNCHANGED template
      BY <2>5, PgKeeps
    <3>4. CASE PgStop \/ PgRewind \/ PgClear
      BY <2>4, <3>1, <3>2, <3>3, <3>4 DEF PgStop, PgRewind, PgClear, InStandby, LeavesStray,
         AfterStop, StandbyStep
    <3>5. CASE PgBackup \/ PgCopyEnds \/ PgStart
      BY <2>4, <3>1, <3>2, <3>3, <3>5 DEF PgBackup, PgCopyEnds, PgStart, InStandby, LeavesStray,
         StandbyStep
    <3>6. CASE PgPromote
      BY <2>4, <3>2, <3>3, <3>6 DEF PgPromote
    <3>7. CASE PgPromotionCompletes \/ PgStrayEnds
      BY <2>4, <3>3, <3>7 DEF PgPromotionCompletes, PgStrayEnds, frameVars
    <3> QED BY <2>5, <3>4, <3>5, <3>6, <3>7 DEF PgNext, PgAgent
  <2>6. CASE CopyNext
    BY <1>2, <2>4, <2>6, CopyKeeps DEF CopyNext, CreateSrc, CreateDst, Dump, Apply, Insert,
       RowWritten, At, frameVars, TemplateSteps, PgStandby, StandbyStep
  <2>7. CASE RedisNext
    BY <1>2, <2>4, <2>7, RedisKeeps DEF RedisNext, RedisCommand, ListKeys, MigrateKeys, KeyWritten,
       frameVars, Refused, AfterListing, TemplateSteps, PgStandby, StandbyStep
  <2>8. CASE ChNext
    BY <1>2, <2>4, <2>8, ChKeeps DEF ChNext, ChReady, ChWriteXml, ChReload, ChCreateLocal,
       ChCreateDistributed, ChServer, ChCommand, frameVars, TemplateSteps, PgStandby, StandbyStep
  <2>9. CASE MongoNext
    BY <1>2, <2>4, <2>9, MongoKeeps DEF MongoNext, MongoCommand, Election, frameVars, Script,
       InitiateScript, AddScript, StepDownScript, ShardsvrScript, AddShardScript,
       MoveChunkScript, Ends
  <2>10. CASE UNCHANGED vars
    BY <2>4, <2>10 DEF vars, frameVars
  <2>11. ~GrowNext /\ ~ImageNext /\ ~ProbeNext
    BY <1>2, HostApart DEF HostEngine
  <2> QED BY <2>2, <2>3, <2>5, <2>6, <2>7, <2>8, <2>9, <2>10, <2>11 DEF Next, FrameNext
<1> QED BY <1>1, <1>2

\* What a step can be where a database is, seen from one of them.
LEMMA DbMoves ==
  ASSUME DbInv, [Next]_vars
  PROVE  /\ IF engine \in {"pgcopy", "chcopy"}
            THEN \/ FrameNext /\ UNCHANGED copyVars
                 \/ CopyNext
                 \/ UNCHANGED <<frameVars, copyVars>>
            ELSE UNCHANGED copyVars
         /\ IF engine = "ch"
            THEN (FrameNext /\ UNCHANGED chVars) \/ ChNext \/ UNCHANGED <<frameVars, chVars>>
            ELSE UNCHANGED chVars
         /\ IF engine = "mongo"
            THEN \/ FrameNext /\ UNCHANGED mongoVars
                 \/ MongoNext
                 \/ UNCHANGED <<frameVars, mongoVars>>
            ELSE UNCHANGED mongoVars
         /\ IF RedisEngine
            THEN \/ FrameNext /\ UNCHANGED redisVars
                 \/ RedisNext
                 \/ UNCHANGED <<frameVars, redisVars>>
            ELSE UNCHANGED redisVars
<1> USE DEF DbInv, DbOwner
<1>1. engine \notin HostEngine => ~GrowNext /\ ~ImageNext /\ ~ProbeNext
  BY HostApart DEF DbInv, HostEngine
<1>2. engine \notin HostEngine /\ step # "idle" =>
        /\ template \in TemplatesOf(engine)
        /\ step \in TemplateSteps(template) \cup {"down"}
  OBVIOUS
<1>3. engine \in HostEngine => step \in StepsOf(engine) \cup {"idle", "down"}
  BY DEF Owner
<1>4. engine \notin HostEngine \cup {"pg"} /\ PgNext => UNCHANGED frameVars
  <2>1. engine \notin HostEngine \cup {"pg"} /\ step # "idle" =>
          template \notin PgStandby \cup {"pg_promote"}
    BY <1>2 DEF TemplatesOf, HostEngine, PgStandby, RedisReplicaTemplate,
       RedisClusterTemplate, ChTemplate, ChReadiness, MongoTemplate
  <2> QED
    BY <2>1 DEF PgNext, PgAgent, PgStop, PgRewind, PgClear, PgBackup, PgCopyEnds, PgStart,
       PgPromote, PgPromotionCompletes, PgStrayEnds, InStandby
<1>5. engine \notin {"pgcopy", "chcopy"} => ~CopyNext
  <2>1. /\ engine \notin {"pgcopy", "chcopy"}
        /\ step \in {"create_src", "create_dst", "dump", "apply", "insert"}
        => engine \notin HostEngine
    BY <1>3 DEF StepsOf, ImageStep
  <2>2. engine \notin {"pgcopy", "chcopy"} /\ engine \notin HostEngine /\ step # "idle" =>
          template \notin {"pg_shard_bulk_copy", "ch_shard_bulk_copy"}
    BY <1>2 DEF TemplatesOf, HostEngine, PgStandby, RedisReplicaTemplate,
       RedisClusterTemplate, ChTemplate, ChReadiness, MongoTemplate
  <2>3. engine \notin {"pgcopy", "chcopy"} /\ engine \notin HostEngine => step # "create_dst"
    BY <1>2, <2>2 DEF TemplateSteps, StandbyStep
  <2> QED
    BY <2>1, <2>2, <2>3 DEF CopyNext, CreateSrc, CreateDst, Dump, Apply, Insert, RowWritten, At
<1>6. ~RedisEngine => ~RedisNext
  <2>1. ~RedisEngine /\ engine \notin HostEngine /\ step # "idle" =>
          template # "redis_cluster_migrate_slot_keys"
    BY <1>2 DEF RedisEngine, TemplatesOf, HostEngine, PgStandby, ChTemplate, ChReadiness,
       MongoTemplate
  <2>2. ~RedisEngine /\ engine \notin HostEngine => step \notin {"list", "migrate"}
    BY <1>2, <2>1 DEF TemplateSteps, StandbyStep
  <2>3. engine \in HostEngine => step \notin {"list", "migrate"}
    BY <1>3 DEF StepsOf, ImageStep
  <2> QED BY <2>2, <2>3 DEF RedisNext, RedisCommand, ListKeys, MigrateKeys, KeyWritten
<1>7. engine # "ch" => ~ChNext
  BY DEF ChNext, ChReady, ChWriteXml, ChReload, ChCreateLocal, ChCreateDistributed, ChServer,
     ChCommand
<1>8. engine # "mongo" => ~MongoNext
  BY DEF MongoNext, MongoCommand, Election
<1>9. /\ RedisEngine => engine \notin {"pg", "pgcopy", "chcopy", "ch", "mongo"} \cup HostEngine
      /\ engine \in {"pgcopy", "chcopy", "ch", "mongo"} => engine \notin HostEngine
  BY DEF RedisEngine, HostEngine
<1> QED BY <1>1, <1>4, <1>5, <1>6, <1>7, <1>8, <1>9 DEF Next, vars, RedisEngine

-----------------------------------------------------------------------------
(* The bulk copies.                                                        *)

CopyEngine == engine \in {"pgcopy", "chcopy"}

\* Where a copy stands, what the next command will find.
CopyStage ==
  /\ CopyTypeOK
  /\ IF CopyEngine THEN faults \in Nat ELSE copies = 0
  /\ copies = 0 => \A r \in Row : dst[r] = 0
  /\ engine = "pgcopy" =>
       /\ step \in {"create_dst", "dump"} => wanted \subseteq srcRows
       /\ step = "apply" => wanted \subseteq dump
       /\ step \in {"create_dst", "dump", "apply"} => srcTable = TRUE
  /\ engine = "chcopy" /\ step = "insert" => wanted \subseteq srcRows

CopyInv == DbInv /\ CopyStage /\ CopyAnswerTrue /\ CopyRowsOnce /\ CopyFaultlessSucceeds

LEMMA InitCopy == Init => CopyInv
<1> SUFFICES ASSUME Init PROVE CopyInv
  OBVIOUS
<1>1. /\ srcTable \in BOOLEAN /\ srcRows \subseteq Row
      /\ dstTable = FALSE /\ dst = [r \in Row |-> 0]
      /\ dump = {} /\ wanted = {} /\ copies = 0
  <2>1. CASE engine \in {"pgcopy", "chcopy"}
    <3>1. CopyInit
      BY <2>1 DEF Init
    <3> QED BY <3>1 DEF CopyInit
  <2>2. CASE engine \notin {"pgcopy", "chcopy"}
    <3>1. /\ srcTable = FALSE /\ srcRows = {} /\ dstTable = FALSE
          /\ dst = [r \in Row |-> 0] /\ dump = {} /\ wanted = {} /\ copies = 0
      BY <2>2 DEF Init
    <3> QED BY <3>1
  <2> QED BY <2>1, <2>2
<1>2. step = "idle" /\ reply = "none" /\ faults = 0
  BY DEF Init, FrameInit
<1>3. CopyTypeOK /\ \A r \in Row : dst[r] = 0
  <2>1. dst \in [Row -> 0..2] /\ \A r \in Row : dst[r] = 0
    BY <1>1
  <2>2. dump \subseteq Row /\ wanted \subseteq Row /\ copies \in 0..2
    BY <1>1
  <2> QED BY <1>1, <2>1, <2>2 DEF CopyTypeOK
<1>4. CopyStage
  BY <1>1, <1>2, <1>3 DEF CopyStage
<1>5. CopyAnswerTrue /\ CopyRowsOnce /\ CopyFaultlessSucceeds
  BY <1>2, <1>3 DEF CopyAnswerTrue, CopyRowsOnce, CopyFaultlessSucceeds, Copied, Answered
<1> QED BY <1>4, <1>5, InitDb DEF CopyInv

\* A copy adds the rows it sends, and takes nothing away.
LEMMA PlusType ==
  ASSUME dst \in [Row -> 0..2], NEW sent
  PROVE  /\ Plus(sent) \in [Row -> 0..2]
         /\ \A r \in Row : r \in sent => Plus(sent)[r] > 0
         /\ \A r \in Row : dst[r] = 0 => Plus(sent)[r] <= 1
         /\ \A r \in Row : r \notin sent => Plus(sent)[r] = dst[r]
BY DEF Plus, Saturated

\* The last command of a copy that fails is never read as a success.
LEMMA CopyFailures ==
  \A t \in {"pg_shard_bulk_copy", "ch_shard_bulk_copy"} : \A said :
    classify_promote_outcome(t, FALSE, said) = "failed"
BY DEF classify_promote_outcome, IdempotentPhrase

\* What a copying command finds, and that its end is not yet answered.
LEMMA CopyCommands ==
  ASSUME DbInv, CopyEngine
  PROVE  /\ CreateSrc \/ Dump \/ Apply => engine = "pgcopy"
         /\ Insert => engine = "chcopy"
         /\ step # "idle" => template = IF engine = "pgcopy" THEN "pg_shard_bulk_copy"
                                        ELSE "ch_shard_bulk_copy"
BY DEF DbInv, DbOwner, HostEngine, CopyEngine, TemplatesOf, CreateSrc, Dump, Apply, Insert, At

LEMMA NextCopy == CopyInv /\ [Next]_vars => CopyInv'
<1> SUFFICES ASSUME CopyInv, [Next]_vars PROVE CopyInv'
  OBVIOUS
<1>1. DbInv /\ DbInv'
  BY NextDb DEF CopyInv
<1> DEFINE Goals == CopyStage /\ CopyAnswerTrue /\ CopyRowsOnce /\ CopyFaultlessSucceeds
<1> SUFFICES Goals'
  BY <1>1 DEF CopyInv
<1>2. engine' = engine
  BY <1>1, ElsewhereMoves, HostMoves, HostKeeps DEF DbInv, FrameFails, SpawnFails,
     KilledBetween, Restart, Keep, frameVars
<1>3. CASE ~CopyEngine
  <2>1. UNCHANGED copyVars
    BY <1>1, <1>3, DbMoves DEF CopyEngine
  <2>2. ~Copied'
    BY <1>1, <1>2, <1>3 DEF DbInv, DbOwner, Owner, HostEngine, HostTemplates, Copied, Answered,
       CopyEngine, TemplatesOf, PgStandby, RedisReplicaTemplate, RedisClusterTemplate,
       ChTemplate, ChReadiness, MongoTemplate
  <2> QED
    BY <1>2, <1>3, <2>1, <2>2 DEF CopyInv, CopyStage, CopyTypeOK, CopyEngine, copyVars,
       CopyAnswerTrue, CopyRowsOnce, CopyFaultlessSucceeds
<1> SUFFICES ASSUME CopyEngine PROVE Goals'
  BY <1>3
<1> USE DEF CopyInv, CopyStage, CopyEngine
<1>4. CASE UNCHANGED <<frameVars, copyVars>>
  BY <1>4 DEF CopyTypeOK, CopyAnswerTrue, CopyRowsOnce, CopyFaultlessSucceeds, Copied, Answered,
     frameVars, copyVars
<1>5. CASE FrameNext /\ UNCHANGED copyVars
  <2>1. CopyTypeOK' /\ CopyRowsOnce'
    BY <1>2, <1>5 DEF CopyTypeOK, CopyRowsOnce, copyVars
  <2>2. /\ faults' \in Nat
        /\ Copied' => reply' # "ok" /\ (goal' = None \/ faults' > 0)
        /\ step' \notin {"create_dst", "dump", "apply", "insert"} \/ engine = "chcopy"
        /\ step' # "insert"
    BY <1>1, <1>5 DEF FrameNext, Accept, SpawnFails, KilledBetween, Restart, Fault, Done, Dies,
       Keep, Copied, Answered, dispatch_templated_exec, TemplatesOf, PgStandby, DbInv, DbOwner,
       HostEngine
  <2> QED BY <1>2, <1>5, <2>1, <2>2 DEF copyVars, CopyAnswerTrue, CopyFaultlessSucceeds
<1>6. CASE CopyNext
  <2>1. /\ UNCHANGED <<template, goal>>
        /\ step # "idle" => reply = "none"
    BY <1>1, <1>6, CopyKeeps DEF DbInv, DbOwner, HostEngine
  \* What holds of every command before the one that copies.
  <2>2. ASSUME CopyTypeOK', UNCHANGED <<dst, copies>>,
               \/ reply' = "none"
               \/ reply' = "failed" /\ faults' > 0,
               faults' \in Nat,
               engine = "pgcopy" =>
                 /\ step' \in {"create_dst", "dump"} => wanted' \subseteq srcRows'
                 /\ step' = "apply" => wanted' \subseteq dump'
                 /\ step' \in {"create_dst", "dump", "apply"} => srcTable' = TRUE,
               engine = "chcopy" /\ step' = "insert" => wanted' \subseteq srcRows'
        PROVE  Goals'
    BY <1>2, <2>2 DEF CopyAnswerTrue, CopyRowsOnce, CopyFaultlessSucceeds, Copied, Answered
  <2> USE DEF Keep, NoFault, Fault, Proceed, Done, Dies, Fails
  <2>3. CASE CreateSrc
    <3>1. engine = "pgcopy" /\ step = "create_src"
      BY <1>1, <2>3, CopyCommands DEF CreateSrc, At
    <3>2. CopyTypeOK' /\ UNCHANGED <<srcRows, dst, copies>> /\ wanted' = srcRows
      BY <2>3 DEF CreateSrc, CopyTypeOK
    <3>3. \/ /\ step' = "create_dst" /\ srcTable' = TRUE
             /\ reply' = reply /\ faults' = faults
          \/ /\ step' \in {"idle", "down"} /\ reply' \in {"none", "failed"}
             /\ faults' = faults + 1
      BY <2>3 DEF CreateSrc
    <3>4. step' = "create_dst" => wanted' \subseteq srcRows' /\ srcTable' = TRUE
      BY <3>2, <3>3
    <3>5. reply = "none" /\ faults \in Nat
      BY <2>1, <3>1
    <3>6. faults' \in Nat /\ (reply' = "none" \/ (reply' = "failed" /\ faults' > 0))
      BY <3>3, <3>5
    <3> QED BY <2>2, <3>1, <3>2, <3>3, <3>4, <3>6
  <2>4. CASE CreateDst
    <3>1. /\ CopyTypeOK' /\ UNCHANGED <<srcTable, srcRows, dst, copies>>
          /\ step = "create_dst" /\ wanted' \in {wanted, srcRows}
          /\ engine = "chcopy" => wanted' = srcRows
      BY <1>1, <2>4, CopyCommands DEF CreateDst, CopyTypeOK
    <3>2. \/ /\ step' = IF template = "pg_shard_bulk_copy" THEN "dump" ELSE "insert"
             /\ reply' = reply /\ faults' = faults
          \/ /\ step' \in {"idle", "down"} /\ reply' \in {"none", "failed"}
             /\ faults' = faults + 1
      BY <2>4 DEF CreateDst
    <3>3. step' \in {"dump", "insert"} => (step' = "dump" <=> engine = "pgcopy")
      BY <1>1, <3>1, <3>2, CopyCommands
    <3>4. engine = "pgcopy" => wanted' \subseteq srcRows' /\ srcTable' = TRUE
      BY <3>1
    <3>5. faults' \in Nat /\ (reply' = "none" \/ (reply' = "failed" /\ faults' > 0))
      BY <2>1, <3>1, <3>2
    <3> QED BY <2>2, <3>1, <3>2, <3>3, <3>4, <3>5
  <2>5. CASE Dump
    <3>1. engine = "pgcopy" /\ step = "dump" /\ srcTable = TRUE
      BY <1>1, <2>5, CopyCommands DEF Dump, At, CopyTypeOK
    <3>2. CopyTypeOK' /\ UNCHANGED <<dst, copies, wanted>>
      BY <2>5 DEF Dump, CopyTypeOK
    <3>3. \/ /\ step' = "apply" /\ dump' = srcRows /\ srcTable' = srcTable
             /\ reply' = reply /\ faults' = faults
          \/ /\ step' \in {"idle", "down"} /\ reply' \in {"none", "failed"}
             /\ faults' = faults + 1
      BY <2>5, <3>1 DEF Dump
    <3>4. step' = "apply" => wanted' \subseteq dump' /\ srcTable' = TRUE
      BY <3>1, <3>2, <3>3
    <3>5. reply = "none" /\ faults \in Nat
      BY <2>1, <3>1
    <3>6. faults' \in Nat /\ (reply' = "none" \/ (reply' = "failed" /\ faults' > 0))
      BY <3>3, <3>5
    <3> QED BY <2>2, <3>1, <3>2, <3>3, <3>4, <3>6
  <2>6. CASE Apply
    <3>1. /\ engine = "pgcopy" /\ step = "apply" /\ template = "pg_shard_bulk_copy"
          /\ wanted \subseteq dump
      BY <1>1, <2>6, CopyCommands DEF Apply, At
    <3>2. /\ UNCHANGED <<srcTable, srcRows, dstTable, dump, wanted>>
          /\ copies' = Saturated(copies + 1) /\ step' \in {"idle", "down"}
      BY <2>6 DEF Apply, Breaks
    <3>3. copies' \in 1..2 /\ (copies' = 1 => copies = 0)
      BY <3>2 DEF Saturated, CopyTypeOK
    <3>4. dst' \in {dst, Plus(dump)} /\ (dst' # dst => \A r \in dump : ~(dst[r] > 0))
      BY <2>6 DEF Apply
    <3>5. dst' \in [Row -> 0..2] /\ \A r \in Row : dst'[r] <= 1
      BY <3>1, <3>4, PlusType DEF CopyTypeOK, CopyRowsOnce
    <3>6. CopyTypeOK'
      BY <3>2, <3>3, <3>5 DEF CopyTypeOK
    <3>7. \/ reply' = "ok" /\ dst' = Plus(dump) /\ faults' = faults
          \/ reply' = "failed" /\ faults' = faults /\ \E r \in dump : dst[r] > 0
          \/ reply' \in {"none", "failed"} /\ faults' = faults + 1
      BY <2>6, <3>1, CopyFailures DEF Apply, Breaks, classify_promote_outcome
    <3>8. CopyAnswerTrue'
      BY <3>1, <3>2, <3>7, PlusType DEF CopyAnswerTrue, CopyTypeOK
    <3>9. CopyFaultlessSucceeds'
      BY <3>3, <3>7 DEF CopyFaultlessSucceeds, Copied, Answered, CopyTypeOK
    <3> QED BY <1>2, <3>1, <3>2, <3>3, <3>5, <3>6, <3>7, <3>8, <3>9 DEF CopyRowsOnce
  <2>7. CASE Insert
    <3>1. /\ engine = "chcopy" /\ step = "insert" /\ template = "ch_shard_bulk_copy"
          /\ wanted \subseteq srcRows
      BY <1>1, <2>7, CopyCommands DEF Insert, At
    <3>2. /\ UNCHANGED <<srcTable, srcRows, dstTable, dump, wanted>>
          /\ copies' = Saturated(copies + 1) /\ step' \in {"idle", "down"}
      BY <2>7 DEF Insert, Breaks
    <3>3. copies' \in 1..2 /\ (copies' = 1 => copies = 0)
      BY <3>2 DEF Saturated, CopyTypeOK
    <3>4. dst' = dst \/ \E sent \in SUBSET srcRows : dst' = Plus(sent)
      BY <2>7 DEF Insert
    <3>5. dst' \in [Row -> 0..2]
      BY <3>4, PlusType DEF CopyTypeOK
    <3>6. CopyTypeOK'
      BY <3>2, <3>3, <3>5 DEF CopyTypeOK
    <3>7. copies' = 1 => \A r \in Row : dst'[r] <= 1
      BY <3>3, <3>4, PlusType DEF CopyTypeOK
    <3>8. \/ reply' = "ok" /\ dst' = Plus(srcRows) /\ faults' = faults
          \/ reply' \in {"none", "failed"} /\ faults' \in {faults, faults + 1}
      BY <2>7, <3>1, CopyFailures DEF Insert, Breaks, classify_promote_outcome
    <3>9. CopyAnswerTrue'
      BY <3>1, <3>2, <3>8, PlusType DEF CopyAnswerTrue, CopyTypeOK
    <3>10. faults' \in Nat
      BY <3>8
    <3> QED
      BY <1>2, <3>1, <3>2, <3>3, <3>6, <3>7, <3>9, <3>10 DEF CopyRowsOnce, CopyFaultlessSucceeds
  <2>8. CASE RowWritten
    BY <1>2, <2>8 DEF RowWritten, frameVars, CopyTypeOK, CopyAnswerTrue, CopyRowsOnce,
       CopyFaultlessSucceeds, Copied, Answered
  <2> QED BY <1>6, <2>3, <2>4, <2>5, <2>6, <2>7, <2>8 DEF CopyNext
<1> QED BY <1>4, <1>5, <1>6, <1>1, DbMoves

LEMMA CopyInvariance == Spec => []CopyInv
BY InitCopy, NextCopy, PTL DEF Spec

(***************************************************************************)
(* A bulk copy that answers success has brought every wanted row of the    *)
(* source to the target (postgres_bulk_copy.rs, clickhouse_bulk_copy.rs).  *)
(***************************************************************************)
THEOREM CopyAnswersAreTrue == Spec => []CopyAnswerTrue
<1>1. CopyInv => CopyAnswerTrue
  BY DEF CopyInv
<1> QED BY <1>1, CopyInvariance, PTL

(***************************************************************************)
(* No row of a Postgres copy is there twice however often it is executed,  *)
(* and none of a ClickHouse copy when it is executed once.                 *)
(***************************************************************************)
THEOREM RowsAreCopiedOnce == Spec => []CopyRowsOnce
<1>1. CopyInv => CopyRowsOnce
  BY DEF CopyInv
<1> QED BY <1>1, CopyInvariance, PTL

(***************************************************************************)
(* A first copy without a fault is not answered as a failure.              *)
(***************************************************************************)
THEOREM FaultlessCopiesSucceed == Spec => []CopyFaultlessSucceeds
<1>1. CopyInv => CopyFaultlessSucceeds
  BY DEF CopyInv
<1> QED BY <1>1, CopyInvariance, PTL

-----------------------------------------------------------------------------
(* ClickHouse.                                                             *)

\* What the second command of a ClickHouse template finds.
ChStage ==
  engine = "ch" =>
    /\ step = "reload" =>
         /\ chFile = build_remote_servers_xml(goal.user, goal.topology_peers)
         /\ ~chTorn
    /\ step = "create_dist" => chLocal

ChInv == DbInv /\ ChStage /\ ClickHouseAnswerTrue

LEMMA InitCh == Init => ChInv
BY InitDb DEF Init, FrameInit, ChInv, ChStage, ClickHouseAnswerTrue, Answered

\* The last command of a ClickHouse template that fails is never read as a success.
LEMMA ChFailures ==
  \A t \in ChTemplate : \A said : classify_promote_outcome(t, FALSE, said) = "failed"
BY DEF classify_promote_outcome, IdempotentPhrase, ChTemplate, ChReadiness

LEMMA NextCh == ChInv /\ [Next]_vars => ChInv'
<1> SUFFICES ASSUME ChInv, [Next]_vars PROVE ChInv'
  OBVIOUS
<1>1. DbInv /\ DbInv'
  BY NextDb DEF ChInv
<1> SUFFICES ChStage' /\ ClickHouseAnswerTrue'
  BY <1>1 DEF ChInv
<1>2. engine' = engine
  BY <1>1, ElsewhereMoves, HostMoves, HostKeeps DEF DbInv, FrameFails, SpawnFails,
     KilledBetween, Restart, Keep, frameVars
<1>3. CASE engine # "ch"
  <2>1. Answered' => template' \notin {"ch_remote_servers_apply", "ch_distributed_ensure"}
    BY <1>1, <1>2, <1>3 DEF DbInv, DbOwner, Owner, HostEngine, HostTemplates, Answered,
       TemplatesOf, PgStandby, RedisReplicaTemplate, RedisClusterTemplate, ChTemplate,
       MongoTemplate
  <2> QED BY <1>2, <1>3, <2>1 DEF ChStage, ClickHouseAnswerTrue
<1> SUFFICES ASSUME engine = "ch" PROVE ChStage' /\ ClickHouseAnswerTrue'
  BY <1>3
<1>4. step # "idle" => template \in ChTemplate \ {"ch_shard_bulk_copy"} /\ reply = "none"
  BY <1>1 DEF DbInv, DbOwner, HostEngine, TemplatesOf, PgStandby
<1>5. (FrameNext /\ UNCHANGED chVars) \/ ChNext \/ UNCHANGED <<frameVars, chVars>>
  BY <1>1, DbMoves
<1> USE DEF ChInv, ChStage, ClickHouseAnswerTrue, Answered, Done, Proceed, Dies, Keep
<1>6. CASE FrameNext /\ UNCHANGED chVars
  <2>1. step' \notin {"reload", "create_dist"} /\ (step' = "idle" => reply' # "ok")
    BY <1>1, <1>4, <1>6 DEF FrameNext, Accept, SpawnFails, KilledBetween, Restart,
       dispatch_templated_exec, DbInv, DbOwner, HostEngine
  <2> QED BY <2>1
<1>7. CASE ChNext
  <2>1. UNCHANGED <<engine, template, goal>>
    BY <1>7, ChKeeps
  <2>2. CASE ChReady
    <3>1. template \notin {"ch_remote_servers_apply", "ch_distributed_ensure"}
      BY <1>1, <2>2 DEF DbInv, DbOwner, HostEngine, ChReady, ChCommand, TemplateSteps, PgStandby
    <3>2. step' \notin {"reload", "create_dist"}
      BY <2>2 DEF ChReady, Breaks
    <3> QED BY <2>1, <3>1, <3>2
  <2>3. CASE ChWriteXml
    <3>1. step' = "idle" => reply' # "ok"
      BY <2>3 DEF ChWriteXml, Fails
    <3>2. step' = "reload" =>
            /\ chFile' = build_remote_servers_xml(goal.user, goal.topology_peers)
            /\ chTorn' = FALSE
      BY <2>3 DEF ChWriteXml, Fails
    <3>3. step' # "create_dist"
      BY <2>3 DEF ChWriteXml, Fails
    <3> QED BY <2>1, <3>1, <3>2, <3>3
  <2>4. CASE ChReload
    <3>1. /\ step = "reload" /\ template \in ChTemplate /\ step' \in {"idle", "down"}
          /\ UNCHANGED <<chFile, chTorn>>
      BY <1>4, <2>4 DEF ChReload, ChCommand, Breaks
    <3>2. template = "ch_remote_servers_apply"
      BY <1>1, <1>4, <3>1 DEF DbInv, DbOwner, HostEngine, TemplateSteps, PgStandby, ChTemplate,
         ChReadiness
    <3>3. reply' = "ok" => chLoaded' = chFile
      BY <2>4, <3>1, ChFailures DEF ChReload, Breaks
    <3> QED BY <2>1, <3>1, <3>2, <3>3
  <2>5. CASE ChCreateLocal
    BY <2>1, <2>5 DEF ChCreateLocal, Fails
  <2>6. CASE ChCreateDistributed
    <3>1. /\ step = "create_dist" /\ template \in ChTemplate /\ step' \in {"idle", "down"}
          /\ UNCHANGED chLocal
      BY <1>4, <2>6 DEF ChCreateDistributed, ChCommand, Breaks
    <3>2. template = "ch_distributed_ensure"
      BY <1>1, <1>4, <3>1 DEF DbInv, DbOwner, HostEngine, TemplateSteps, PgStandby, ChTemplate,
         ChReadiness
    <3>3. reply' = "ok" => chDist' # None
      BY <2>6, <3>1, ChFailures DEF ChCreateDistributed, Breaks
    <3> QED BY <2>1, <3>1, <3>2, <3>3
  <2>7. CASE ChServer
    BY <2>1, <2>7 DEF ChServer, frameVars
  <2> QED BY <1>7, <2>2, <2>3, <2>4, <2>5, <2>6, <2>7 DEF ChNext
<1>8. CASE UNCHANGED <<frameVars, chVars>>
  BY <1>8 DEF frameVars, chVars
<1> QED BY <1>5, <1>6, <1>7, <1>8

(***************************************************************************)
(* A topology answered as applied is in the file, whole, and loaded; a     *)
(* Distributed table answered as ensured is there with the table it stands *)
(* on (clickhouse_rmt.rs).                                                 *)
(***************************************************************************)
THEOREM ClickHouseAnswersAreTrue == Spec => []ClickHouseAnswerTrue
<1>1. ChInv => ClickHouseAnswerTrue
  BY DEF ChInv
<1> QED BY <1>1, InitCh, NextCh, PTL DEF Spec

-----------------------------------------------------------------------------
(* Redis.                                                                  *)

\* What is executed was asked for, and passed the checks.
GoalChosen ==
  engine \notin HostEngine /\ step # "idle" =>
    \E p \in Params : Accepted(p, template) /\ goal = validate_for(p, template)

LEMMA NextChosen == DbInv /\ GoalChosen /\ [Next]_vars => GoalChosen'
<1> SUFFICES ASSUME DbInv, GoalChosen, [Next]_vars PROVE GoalChosen'
  OBVIOUS
<1>1. DbInv'
  BY NextDb
<1>2. engine' = engine
  BY ElsewhereMoves, HostMoves, HostKeeps DEF DbInv, FrameFails, SpawnFails,
     KilledBetween, Restart, Keep, frameVars
<1>3. CASE engine \in HostEngine
  BY <1>2, <1>3 DEF GoalChosen
<1> SUFFICES ASSUME engine \notin HostEngine PROVE GoalChosen'
  BY <1>3
<1>4. CASE Accept
  BY <1>4 DEF Accept, Done, GoalChosen
<1>5. CASE SpawnFails \/ KilledBetween \/ Restart
  BY <1>2, <1>5 DEF SpawnFails, KilledBetween, Restart, AtCommand, Keep, Done, GoalChosen
<1>6. ASSUME PgNext \/ CopyNext \/ RedisNext \/ ChNext \/ MongoNext PROVE GoalChosen'
  <2>1. UNCHANGED <<engine, template, goal>>
    BY <1>6, PgKeeps, CopyKeeps, RedisKeeps, ChKeeps, MongoKeeps
  <2>2. step = "idle" => step' = "idle"
    BY <1>6 DEF PgNext, PgAgent, PgStop, PgRewind, PgClear, PgBackup, PgCopyEnds, PgStart,
       PgPromote, PgPromotionCompletes, PgStrayEnds, InStandby, StandbyStep, CopyNext, CreateSrc,
       CreateDst, Dump, Apply, Insert, RowWritten, At, RedisNext, RedisCommand, ListKeys,
       MigrateKeys, KeyWritten, ChNext, ChReady, ChWriteXml, ChReload, ChCreateLocal,
       ChCreateDistributed, ChServer, ChCommand, MongoNext, MongoCommand, Election, frameVars
  <2> QED BY <2>1, <2>2 DEF GoalChosen
<1>7. CASE UNCHANGED vars
  BY <1>7 DEF vars, frameVars, GoalChosen
<1>8. ~GrowNext /\ ~ImageNext /\ ~ProbeNext
  BY HostApart DEF DbInv, HostEngine
<1> QED BY <1>4, <1>5, <1>6, <1>7, <1>8 DEF Next, FrameNext

\* The slots of what is executed are slots of the server.
LEMMA SlotsInRange ==
  ASSUME DbInv, GoalChosen, engine \notin HostEngine, step # "idle"
  PROVE  /\ template \in OneSlot => goal.slot_start \in 0..MaxSlot
         /\ template = "redis_cluster_slots_assign" =>
              SplicedSlots(goal, template) \subseteq 0..MaxSlot
<1>1. PICK p \in Params : Accepted(p, template) /\ goal = validate_for(p, template)
  BY DEF GoalChosen
<1>2. p \in TemplatedExecParams /\ template \in TemplatedExecId
  BY FrameAssumption DEF DbInv, Owner
<1>3. template \in requires_slot_range =>
        /\ goal.slot_start \in Nat /\ goal.slot_end \in 0..MaxSlot
        /\ goal.slot_start <= goal.slot_end
  BY <1>1, <1>2, AcceptedSlots
<1>4. OneSlot \subseteq requires_slot_range
      /\ "redis_cluster_slots_assign" \in requires_slot_range
  BY DEF requires_slot_range
<1>5. goal.slot_start \in Nat /\ goal.slot_end \in 0..MaxSlot /\ goal.slot_start <= goal.slot_end
      => goal.slot_start \in 0..MaxSlot /\ goal.slot_start..goal.slot_end \subseteq 0..MaxSlot
  BY CatalogAssumption
<1> QED BY <1>3, <1>4, <1>5 DEF SplicedSlots

\* What the commands of the migration of keys hand on, and the slots there are.
RedisStage ==
  RedisEngine =>
    /\ slots \in [0..MaxSlot -> SlotState]
    /\ step = "migrate" /\ ~dirty =>
         before \subseteq listed \/ Cardinality(listed) = MIGRATE_KEYS_BATCH

RedisInv == DbInv /\ GoalChosen /\ RedisStage /\ RedisAnswerTrue

LEMMA InitRedis == Init => RedisInv
<1> SUFFICES ASSUME Init PROVE RedisInv
  OBVIOUS
<1>1. step = "idle" /\ reply = "none"
  BY DEF Init, FrameInit
<1>2. RedisEngine => slots \in [0..MaxSlot -> SlotState]
  BY DEF Init, RedisInit, SlotState
<1> QED BY <1>1, <1>2, InitDb DEF RedisInv, GoalChosen, RedisStage, RedisAnswerTrue, Answered

\* The command, where the server obeys it, does what the template names.
LEMMA EffectDone ==
  ASSUME RedisEngine, Effect, UNCHANGED <<template, goal>>,
         slots \in [0..MaxSlot -> SlotState],
         template \in OneSlot => goal.slot_start \in 0..MaxSlot,
         template = "redis_cluster_slots_assign" =>
           SplicedSlots(goal, template) \subseteq 0..MaxSlot
  PROVE  RedisDone' /\ slots' \in [0..MaxSlot -> SlotState]
<1> USE DEF Effect, RedisDone
<1>1. CASE template \in RedisReplicaTemplate
  BY <1>1 DEF RedisReplicaTemplate
<1>2. CASE template \in {"redis_cluster_meet", "redis_cluster_replicate", "redis_cluster_myid"}
  BY <1>2
<1>3. CASE template = "redis_cluster_slots_assign"
  <2>1. slots' = [s \in DOMAIN slots |->
                    IF s \in SplicedSlots(goal, template) THEN "mine" ELSE slots[s]]
    BY <1>3
  <2>2. slots' \in [0..MaxSlot -> SlotState]
    BY <2>1 DEF SlotState
  <2>3. \A s \in SplicedSlots(goal, template) : slots'[s] \in Owned
    BY <1>3, <2>1 DEF Owned
  <2> QED BY <1>3, <2>2, <2>3
<1>4. CASE template \in {"redis_cluster_migrate", "redis_cluster_setslot_importing",
                         "redis_cluster_setslot_migrating"}
  <2>1. goal.slot_start \in 0..MaxSlot
    BY <1>4 DEF OneSlot
  <2> DEFINE new == CASE template = "redis_cluster_setslot_importing" -> "importing"
                      [] template = "redis_cluster_setslot_migrating" -> "migrating"
                      [] OTHER -> IF goal.cluster_node_id = ThisNode THEN "mine" ELSE "theirs"
  <2>2. slots' = [slots EXCEPT ![goal.slot_start] = new]
    BY <1>4
  <2>3. slots' \in [0..MaxSlot -> SlotState] /\ slots'[goal.slot_start] = new
    BY <2>1, <2>2 DEF SlotState
  <2> HIDE DEF Effect
  <2> QED BY <1>4, <2>3
<1> QED BY <1>1, <1>2, <1>3, <1>4 DEF RedisReplicaTemplate

\* A failure without words is no success; with words only where phrases are looked for.
LEMMA RedisFailures ==
  \A t \in RedisReplicaTemplate \cup RedisClusterTemplate :
    /\ classify_promote_outcome(t, FALSE, {}) = "failed"
    /\ t \notin RedisReplicaTemplate =>
         \A said : classify_promote_outcome(t, FALSE, said) = "failed"
BY DEF classify_promote_outcome, IdempotentPhrase, RedisReplicaTemplate, RedisClusterTemplate

\* A listing answered by itself found nothing; one handed on is whole or a full batch.
LEMMA Listing ==
  ASSUME ListKeys, IsFiniteSet({}), Cardinality({}) = 0
  PROVE  /\ step' = "migrate" /\ ~dirty' =>
              before' \subseteq listed' \/ Cardinality(listed') = MIGRATE_KEYS_BATCH
         /\ step' = "idle" /\ reply' = "ok" => before' = {} /\ listed' = {}
<1> USE DEF Done, Proceed, Dies, Fails
<1>1. CASE Fails \/ Done("failed") \/ (Proceed("migrate") /\ dirty' = TRUE)
  BY <1>1
<1>2. ASSUME NEW keys \in Batches(InSlot), listed' = keys, AfterListing(keys)
      PROVE  /\ before' \subseteq listed' \/ Cardinality(listed') = MIGRATE_KEYS_BATCH
             /\ step' = "idle" /\ reply' = "ok" => before' = {} /\ listed' = {}
  <2>1. before' = InSlot
    BY DEF ListKeys
  <2>2. keys = InSlot \/ Cardinality(keys) = MIGRATE_KEYS_BATCH
    BY DEF Batches
  <2>3. keys = {} => Cardinality(keys) # MIGRATE_KEYS_BATCH
    BY RedisAssumption
  <2>4. step' = "idle" /\ reply' = "ok" => keys = {}
    BY <1>2 DEF AfterListing
  <2> QED BY <1>2, <2>1, <2>2, <2>3, <2>4
<1> QED BY <1>1, <1>2 DEF ListKeys

LEMMA NextRedis == RedisInv /\ [Next]_vars => RedisInv'
<1> SUFFICES ASSUME RedisInv, [Next]_vars PROVE RedisInv'
  OBVIOUS
<1>1. DbInv /\ DbInv' /\ GoalChosen /\ GoalChosen'
  BY NextDb, NextChosen DEF RedisInv
<1> SUFFICES RedisStage' /\ RedisAnswerTrue'
  BY <1>1 DEF RedisInv
<1>2. engine' = engine
  BY <1>1, ElsewhereMoves, HostMoves, HostKeeps DEF DbInv, FrameFails, SpawnFails,
     KilledBetween, Restart, Keep, frameVars
<1>3. CASE ~RedisEngine
  BY <1>2, <1>3 DEF RedisStage, RedisAnswerTrue, RedisEngine
<1> SUFFICES ASSUME RedisEngine PROVE RedisStage' /\ RedisAnswerTrue'
  BY <1>3
<1>4. /\ RedisEngine' /\ engine \notin HostEngine
      /\ step # "idle" => reply = "none" /\ step \in TemplateSteps(template) \cup {"down"}
      /\ step # "idle" \/ reply # "none" =>
           template \in RedisReplicaTemplate \cup RedisClusterTemplate
  BY <1>1, <1>2 DEF RedisEngine, DbInv, DbOwner, HostEngine, TemplatesOf
<1>5. (FrameNext /\ UNCHANGED redisVars) \/ RedisNext \/ UNCHANGED <<frameVars, redisVars>>
  BY <1>1, DbMoves
<1>6. slots \in [0..MaxSlot -> SlotState]
  BY DEF RedisInv, RedisStage
<1> USE DEF Answered
<1>7. CASE FrameNext /\ UNCHANGED redisVars
  <2>1. step' # "migrate" /\ (step' = "idle" => reply' # "ok")
    BY <1>4, <1>7 DEF FrameNext, Accept, SpawnFails, KilledBetween, Restart, Done, Dies,
       dispatch_templated_exec
  <2> QED BY <1>6, <1>7, <2>1 DEF RedisStage, RedisAnswerTrue, redisVars
<1>8. CASE RedisNext
  <2>1. UNCHANGED <<template, goal>>
    BY <1>8, RedisKeeps
  <2> USE DEF Done, Dies
  <2>2. CASE RedisCommand
    <3>1. step' \in {"idle", "down"} /\ step = "exec"
      BY <2>2 DEF RedisCommand, Refused, Breaks
    <3>2. template \in RedisReplicaTemplate \cup RedisClusterTemplate
      BY <1>4, <3>1
    <3>3. Effect => RedisDone' /\ slots' \in [0..MaxSlot -> SlotState]
      BY <1>1, <1>4, <1>6, <2>1, <3>1, EffectDone, SlotsInRange
    <3>4. slots' \in [0..MaxSlot -> SlotState]
      BY <1>6, <2>2, <3>3 DEF RedisCommand, Nothing
    <3>5. \/ Effect
          \/ reply' # "ok" \/ dirty' = TRUE
          \/ template \in RedisReplicaTemplate /\ faulted' = TRUE
      BY <2>2, <3>1, <3>2, RedisFailures DEF RedisCommand, Refused, Breaks, Fault
    <3> QED BY <1>4, <2>1, <3>1, <3>3, <3>4, <3>5 DEF RedisStage, RedisAnswerTrue
  <2>3. CASE ListKeys \/ MigrateKeys
    <3>1. template = "redis_cluster_migrate_slot_keys" /\ UNCHANGED slots
      BY <1>4, <2>3 DEF ListKeys, MigrateKeys, TemplateSteps, StandbyStep
    <3>2. RedisDone'
      BY <2>1, <3>1 DEF RedisDone
    <3>3. CASE ListKeys
      BY <1>6, <3>1, <3>2, <3>3, Listing, FS_EmptySet DEF RedisStage, RedisAnswerTrue
    <3>4. CASE MigrateKeys
      <4>1. step' \in {"idle", "down"}
        BY <3>4 DEF MigrateKeys, Refused, Breaks
      <4> QED BY <1>6, <3>1, <3>2, <4>1 DEF RedisStage, RedisAnswerTrue
    <3> QED BY <2>3, <3>3, <3>4
  <2>4. CASE KeyWritten
    BY <1>6, <2>1, <2>4 DEF KeyWritten, frameVars, RedisStage, RedisInv, RedisAnswerTrue,
       RedisDone, RedisEngine
  <2> QED BY <1>8, <2>2, <2>3, <2>4 DEF RedisNext
<1>9. CASE UNCHANGED <<frameVars, redisVars>>
  BY <1>6, <1>9 DEF frameVars, redisVars, RedisStage, RedisInv, RedisAnswerTrue, RedisDone,
     RedisEngine
<1> QED BY <1>5, <1>7, <1>8, <1>9

LEMMA RedisInvariance == Spec => []RedisInv
BY InitRedis, NextRedis, PTL DEF Spec

(***************************************************************************)
(* A Redis template answered as a success has done what it names, but for  *)
(* errors behind a good exit status and the phrases of the replicaof       *)
(* templates (redis_templated_exec_argv, classify_promote_outcome).        *)
(***************************************************************************)
THEOREM RedisAnswersAreTrue == Spec => []RedisAnswerTrue
<1>1. RedisInv => RedisAnswerTrue
  BY DEF RedisInv
<1> QED BY <1>1, RedisInvariance, PTL

\* What ends a migration of keys with a success.
LEMMA MoveEnds ==
  ASSUME RedisInv, RedisInv', [Next]_vars, step # "idle", step' = "idle", reply' = "ok", ~dirty',
         template = "redis_cluster_migrate_slot_keys"
  PROVE  /\ before' \subseteq listed' \/ Cardinality(listed') = MIGRATE_KEYS_BATCH
         /\ listed' \cap here' = {}
         /\ listed' \cap here \subseteq there'
<1> USE DEF Done, Dies, Fails
<1>1. engine \notin HostEngine /\ DbInv /\ step \in {"list", "migrate", "down"}
  BY DEF RedisInv, DbInv, DbOwner, Owner, HostEngine, HostTemplates, TemplateSteps, PgStandby,
     StandbyStep
<1>2. RedisEngine
  BY <1>1 DEF DbInv, DbOwner, RedisEngine, TemplatesOf, HostEngine, PgStandby, ChTemplate,
     ChReadiness, MongoTemplate
<1>3. RedisNext
  <2>1. ~(FrameNext /\ UNCHANGED redisVars)
    BY <1>1 DEF FrameNext, Accept, SpawnFails, KilledBetween, Restart, RedisInv, DbInv, DbOwner
  <2> QED BY <1>1, <1>2, <2>1, DbMoves DEF frameVars
<1>4. CASE ListKeys
  BY <1>4, Listing, FS_EmptySet
<1>5. CASE MigrateKeys
  <2>1. classify_promote_outcome(template, FALSE, {}) # "ok"
        /\ \A said : classify_promote_outcome(template, FALSE, said) # "ok"
    BY RedisFailures DEF RedisReplicaTemplate, RedisClusterTemplate
  <2>2. /\ there' = there \cup (listed \cap here) /\ here' = here \ listed
        /\ UNCHANGED dirty
    BY <1>5, <2>1 DEF MigrateKeys, Refused, Breaks
  <2>3. UNCHANGED <<listed, before>> /\ step = "migrate"
    BY <1>5 DEF MigrateKeys
  <2> QED BY <1>2, <2>2, <2>3 DEF RedisInv, RedisStage
<1>6. ~RedisCommand /\ ~KeyWritten
  BY <1>1 DEF RedisCommand, KeyWritten, frameVars
<1> QED BY <1>3, <1>4, <1>5, <1>6 DEF RedisNext

(***************************************************************************)
(* A migration of keys answered as a success listed all the keys or a full *)
(* batch, and every key it listed has left, to the peer unless a client    *)
(* deleted it (run_migrate_slot_keys).                                     *)
(***************************************************************************)
THEOREM MovesAreTrue == Spec => MoveAnswerTrue
<1>1. RedisInv /\ RedisInv' /\ [Next]_vars =>
        [step # "idle" /\ step' = "idle" /\ reply' = "ok" /\ ~dirty'
         /\ template = "redis_cluster_migrate_slot_keys"
         => /\ before' \subseteq listed' \/ Cardinality(listed') = MIGRATE_KEYS_BATCH
            /\ listed' \cap here' = {}
            /\ listed' \cap here \subseteq there']_<<frameVars, redisVars>>
  BY MoveEnds
<1> QED BY <1>1, RedisInvariance, PTL DEF Spec, MoveAnswerTrue

-----------------------------------------------------------------------------
(* Shards of MongoDB.                                                      *)

\* The router lists shards by names that were asked for.
ShardStage == engine = "mongo" => shards \in Seq([name : Text, host : Text])

ShardInv == DbInv /\ GoalChosen /\ ShardStage /\ ShardAnswerTrue

LEMMA InitShard == Init => ShardInv
<1> SUFFICES ASSUME Init PROVE ShardInv
  OBVIOUS
<1>1. step = "idle" /\ reply = "none"
  BY DEF Init, FrameInit
<1>2. engine = "mongo" => shards = << >>
  BY DEF Init, MongoInit
<1>3. \A S : << >> \in Seq(S)
  OBVIOUS
<1>4. ShardStage
  BY <1>2, <1>3 DEF ShardStage
<1> QED BY <1>1, <1>4, InitDb DEF ShardInv, GoalChosen, ShardAnswerTrue, Answered

\* None of the phrases of addShard and moveChunk is in a text of just any failure.
LEMMA ShardFailures ==
  \A t \in {"mongo_add_shard", "mongo_move_chunk"}, said \in GeneralText :
    classify_promote_outcome(t, FALSE, said) = "failed"
BY DEF classify_promote_outcome, IdempotentPhrase, GeneralText

\* The name and the host of a shard that is added passed the checks.
LEMMA ShardNamed ==
  ASSUME DbInv, GoalChosen, engine = "mongo", step # "idle", template = "mongo_add_shard"
  PROVE  goal.user \in Text /\ goal.primary_host \in Text
<1>1. PICK p \in Params : Accepted(p, template) /\ goal = validate_for(p, template)
  BY DEF GoalChosen, HostEngine
<1>2. p \in TemplatedExecParams /\ template \in TemplatedExecId
  BY FrameAssumption DEF TemplatedExecId, MongoTemplate
<1> QED BY <1>1, <1>2, AcceptedUser, AcceptedConn DEF SplicesUser, SplicesHost

\* A shard is in the list once addShard has run.
LEMMA ShardAdded ==
  ASSUME AddShardScript, shards \in Seq([name : Text, host : Text]),
         goal.user \in Text, goal.primary_host \in Text
  PROVE  /\ shards' \in Seq([name : Text, host : Text])
         /\ \E i \in DOMAIN shards' :
              shards'[i].name = goal.user \/ shards'[i].host = goal.primary_host
<1> DEFINE new == [name |-> goal.user, host |-> goal.primary_host]
<1>1. new \in [name : Text, host : Text]
  OBVIOUS
<1>2. CASE Named(goal.user) \/ HostUsed(goal.primary_host)
  BY <1>2 DEF AddShardScript, Named, HostUsed
<1>3. CASE ~(Named(goal.user) \/ HostUsed(goal.primary_host))
  <2>1. shards' = Append(shards, new)
    BY <1>3 DEF AddShardScript
  <2>2. /\ shards' \in Seq([name : Text, host : Text])
        /\ Len(shards) + 1 \in DOMAIN shards' /\ shards'[Len(shards) + 1] = new
    BY <1>1, <2>1
  <2> QED BY <2>2
<1> QED BY <1>2, <1>3

\* A script that ends well has moved the chunk to the named shard, or to the
\* last one when none has that name, or the server has declined the chunk.
LEMMA ChunkMoved ==
  ASSUME MoveChunkScript, reply' = "ok"
  PROVE  dirty' = TRUE \/ chunk' = ChunkTarget(goal.user)
<1>1. template = "mongo_move_chunk"
  BY DEF MoveChunkScript
<1>2. classify_promote_outcome(template, FALSE, {}) # "ok"
  BY <1>1 DEF classify_promote_outcome
<1>3. ~Breaks
  BY <1>1, ShardFailures DEF Breaks, Done, Dies
<1>4. ~Ends(FALSE)
  BY <1>2, <1>3 DEF Ends, Done
<1> QED BY <1>3, <1>4 DEF MoveChunkScript

LEMMA NextShard == ShardInv /\ [Next]_vars => ShardInv'
<1> SUFFICES ASSUME ShardInv, [Next]_vars PROVE ShardInv'
  OBVIOUS
<1>1. DbInv /\ DbInv' /\ GoalChosen /\ GoalChosen'
  BY NextDb, NextChosen DEF ShardInv
<1> SUFFICES ShardStage' /\ ShardAnswerTrue'
  BY <1>1 DEF ShardInv
<1>2. engine' = engine
  BY <1>1, ElsewhereMoves, HostMoves, HostKeeps DEF DbInv, FrameFails, SpawnFails,
     KilledBetween, Restart, Keep, frameVars
<1>3. CASE engine # "mongo"
  <2>1. Answered' => template' \notin {"mongo_add_shard", "mongo_move_chunk"}
    BY <1>1, <1>2, <1>3 DEF DbInv, DbOwner, Owner, HostEngine, HostTemplates, Answered,
       TemplatesOf, PgStandby, RedisReplicaTemplate, RedisClusterTemplate, ChTemplate,
       ChReadiness
  <2> QED BY <1>2, <1>3, <2>1 DEF ShardStage, ShardAnswerTrue
<1> SUFFICES ASSUME engine = "mongo" PROVE ShardStage' /\ ShardAnswerTrue'
  BY <1>3
<1>4. step # "idle" => reply = "none"
  BY <1>1 DEF DbInv, DbOwner, HostEngine
<1>5. (FrameNext /\ UNCHANGED mongoVars) \/ MongoNext \/ UNCHANGED <<frameVars, mongoVars>>
  BY <1>1, DbMoves
<1> USE DEF ShardInv, ShardStage, ShardAnswerTrue, Answered, Named, HostUsed
<1>6. CASE FrameNext /\ UNCHANGED mongoVars
  <2>1. step' = "idle" => reply' # "ok"
    BY <1>4, <1>6 DEF FrameNext, Accept, SpawnFails, KilledBetween, Restart, Done, Dies
  <2> QED BY <1>6, <2>1 DEF mongoVars
<1>7. CASE MongoCommand
  <2>1. UNCHANGED <<template, goal>> /\ step = "exec"
    BY <1>7 DEF MongoCommand, Keep
  <2>2. template \in {"mongo_add_shard", "mongo_move_chunk"} /\ Breaks => reply' # "ok"
    BY ShardFailures DEF Breaks, Done, Dies
  <2>3. CASE AddShardScript
    <3>1. goal.user \in Text /\ goal.primary_host \in Text
      BY <1>1, <2>1, <2>3, ShardNamed DEF AddShardScript
    <3> QED BY <2>1, <2>3, <3>1, ShardAdded DEF AddShardScript
  <2>4. CASE MoveChunkScript
    <3>1. template = "mongo_move_chunk" /\ UNCHANGED shards
      BY <2>4 DEF MoveChunkScript
    <3>2. reply' = "ok" => dirty' = TRUE \/ chunk' = ChunkTarget(goal.user)
      BY <2>4, ChunkMoved
    <3> QED BY <2>1, <3>1, <3>2 DEF ChunkTarget, Last
  <2>5. CASE UNCHANGED mongoVars /\ Breaks
    BY <2>1, <2>2, <2>5 DEF mongoVars
  <2>6. CASE InitiateScript \/ AddScript \/ StepDownScript \/ ShardsvrScript
    <3>1. UNCHANGED shards /\ template \notin {"mongo_add_shard", "mongo_move_chunk"}
      BY <2>6 DEF InitiateScript, AddScript, StepDownScript, ShardsvrScript, Initiate, AddMember,
         Unchanged, mongoVars
    <3> QED BY <2>1, <3>1
  <2> QED BY <1>7, <2>3, <2>4, <2>5, <2>6 DEF MongoCommand, Script, Unchanged
<1>8. CASE Election
  BY <1>8 DEF Election, frameVars
<1>9. CASE UNCHANGED <<frameVars, mongoVars>>
  BY <1>9 DEF frameVars, mongoVars
<1> QED BY <1>5, <1>6, <1>7, <1>8, <1>9 DEF MongoNext

(***************************************************************************)
(* addShard answered as a success leaves the name or the host in the list  *)
(* of shards; moveChunk leaves the chunk on the shard named, or on the     *)
(* last one listed when none has that name, unless the server declined it  *)
(* with "Chunk with the given bounds", which the script swallows and       *)
(* answers with a success too (mongodb_sharded.rs).                        *)
(***************************************************************************)
THEOREM ShardAnswersAreTrue == Spec => []ShardAnswerTrue
<1>1. ShardInv => ShardAnswerTrue
  BY DEF ShardInv
<1> QED BY <1>1, InitShard, NextShard, PTL DEF Spec
=============================================================================
