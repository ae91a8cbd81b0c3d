------------------------------ MODULE Executors ------------------------------
(***************************************************************************)
(* The executors composed: one agent, one container or one part of the     *)
(* host, and everything that can be asked of it.                           *)
(***************************************************************************)
EXTENDS PgStandbyExec, BulkCopyExec, RedisExec, ClickHouseExec, MongoExec, GrowFs,
        HostImages, StatusProbe

vars == <<frameVars, pgVars, copyVars, redisVars, chVars, mongoVars, growVars,
          imageVars, probeVars>>

\* The state of engines other than the one in the container stays as it begins.
Init ==
  /\ FrameInit
  /\ IF engine = "pg" THEN PgInit
     ELSE pgdata = Pg("own") /\ pgUp = TRUE /\ pgStray = None /\ rewindTook = FALSE
  /\ IF engine \in {"pgcopy", "chcopy"} THEN CopyInit
     ELSE /\ srcTable = FALSE /\ srcRows = {} /\ dstTable = FALSE
          /\ dst = [r \in Row |-> 0] /\ dump = {} /\ wanted = {} /\ copies = 0
  /\ IF RedisEngine THEN RedisInit
     ELSE /\ following = None /\ met = FALSE /\ slots = [s \in 0..MaxSlot |-> "none"]
          /\ here = {} /\ there = {} /\ listed = {} /\ before = {}
  /\ IF engine = "ch" THEN ChInit
     ELSE /\ chFile = None /\ chTorn = FALSE /\ chLoaded = None
          /\ chUp = TRUE /\ chLocal = FALSE /\ chDist = None
  /\ IF engine = "mongo" THEN MongoInit
     ELSE members = {} /\ primary = FALSE /\ shardsvr = FALSE /\ shards = << >> /\ chunk = None
  /\ IF engine = "host" THEN GrowInit
     ELSE /\ mount = [source |-> "disk", fstype |-> "ext"]
          /\ volume = 1 /\ partition = 1 /\ filesystem = 1 /\ asked = 0
  /\ IF engine = "images" THEN ImageInit
     ELSE /\ policy = [waived |-> {}, cosign |-> "off"]
          /\ tarball = [at |-> "none", holds |-> FALSE]
          /\ pinned = FALSE /\ local = FALSE /\ net = FALSE
          /\ verified = FALSE /\ fetched = FALSE /\ had = FALSE
  /\ IF engine = "ps" THEN ProbeInit
     ELSE /\ docker = [c \in Ctr |-> Gone] /\ rows = NoRows /\ todo = {}
          /\ summary = [running |-> 0, exited |-> 0, unhealthy |-> 0]

Next ==
  \/ FrameNext /\ UNCHANGED <<pgVars, copyVars, redisVars, chVars, mongoVars,
                              growVars, imageVars, probeVars>>
  \/ PgNext /\ UNCHANGED <<copyVars, redisVars, chVars, mongoVars, growVars,
                              imageVars, probeVars>>
  \/ CopyNext /\ UNCHANGED <<pgVars, redisVars, chVars, mongoVars, growVars,
                              imageVars, probeVars>>
  \/ RedisNext /\ UNCHANGED <<pgVars, copyVars, chVars, mongoVars, growVars,
                              imageVars, probeVars>>
  \/ ChNext /\ UNCHANGED <<pgVars, copyVars, redisVars, mongoVars, growVars,
                              imageVars, probeVars>>
  \/ MongoNext /\ UNCHANGED <<pgVars, copyVars, redisVars, chVars, growVars,
                              imageVars, probeVars>>
  \/ GrowNext /\ UNCHANGED <<pgVars, copyVars, redisVars, chVars, mongoVars,
                              imageVars, probeVars>>
  \/ ImageNext /\ UNCHANGED <<pgVars, copyVars, redisVars, chVars, mongoVars,
                              growVars, probeVars>>
  \/ ProbeNext /\ UNCHANGED <<pgVars, copyVars, redisVars, chVars, mongoVars,
                              growVars, imageVars>>

Spec == Init /\ [][Next]_vars

ExecutorsTypeOK ==
  /\ FrameTypeOK /\ PgTypeOK /\ CopyTypeOK /\ RedisTypeOK /\ ChTypeOK /\ MongoTypeOK /\ GrowTypeOK
  /\ ImageTypeOK /\ ProbeTypeOK
=============================================================================
