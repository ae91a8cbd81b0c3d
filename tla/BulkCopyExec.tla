---------------------------- MODULE BulkCopyExec ----------------------------
(***************************************************************************)
(* pg_shard_bulk_copy and ch_shard_bulk_copy: the fixed table of this      *)
(* container is copied to the server of a peer, by way of a dump file with *)
(* Postgres and directly with ClickHouse.                                  *)
(*                                                                         *)
(* The two servers are external.  A command whose docker client was killed *)
(* is taken to have ended before the next command begins.  At the peer a   *)
(* row is counted, 2 standing for more than once.                          *)
(***************************************************************************)
EXTENDS ExecFrame, FiniteSets

CONSTANT Row

VARIABLES
  srcTable, srcRows,  \* the table here: created, and its rows
  dstTable, dst,      \* at the peer
  dump,               \* the rows in the dump file here
  wanted,             \* history: the rows here when the execution began
  copies              \* history: commands that could have added rows, up to 2

copyVars == <<srcTable, srcRows, dstTable, dst, dump, wanted, copies>>

CopyInit ==
  /\ srcTable \in BOOLEAN
  /\ srcRows \in IF srcTable THEN SUBSET Row ELSE {{}}
  /\ dstTable = FALSE /\ dst = [r \in Row |-> 0]
  /\ dump = {} /\ wanted = {} /\ copies = 0

Saturated(n) == IF n > 2 THEN 2 ELSE n
Plus(rows) == [r \in Row |-> IF r \in rows THEN Saturated(dst[r] + 1) ELSE dst[r]]

At(t, s) == template = t /\ step = s

-----------------------------------------------------------------------------

\* Variant of CreateSrc: the source is left as it is.
CreateSrcNot ==
  /\ At("pg_shard_bulk_copy", "create_src")
  /\ Proceed("create_dst") /\ NoFault
  /\ wanted' = srcRows
  /\ Keep /\ UNCHANGED <<dirty, srcTable, srcRows, dstTable, dst, dump, copies>>

CreateSrc ==
  /\ At("pg_shard_bulk_copy", "create_src")
  /\ \/ srcTable' = TRUE /\ Proceed("create_dst") /\ NoFault
     \/ srcTable' \in {srcTable, TRUE} /\ Fails
  /\ wanted' = srcRows
  /\ Keep /\ UNCHANGED <<dirty, srcRows, dstTable, dst, dump, copies>>

CreateDst ==
  /\ step = "create_dst"
  /\ LET next == IF template = "pg_shard_bulk_copy" THEN "dump" ELSE "insert" IN
     \/ dstTable' = TRUE /\ Proceed(next) /\ NoFault
     \/ dstTable' \in {dstTable, TRUE} /\ Fails
  /\ wanted' = IF template = "pg_shard_bulk_copy" THEN wanted ELSE srcRows
  /\ Keep /\ UNCHANGED <<dirty, srcTable, srcRows, dst, dump, copies>>

\* Variant of Dump: whatever file there is is applied.
DumpUnchecked ==
  /\ At("pg_shard_bulk_copy", "dump")
  /\ \/ dump' = srcRows /\ NoFault
     \/ dump' \in {dump} \cup SUBSET srcRows /\ Fault
  /\ Proceed("apply")
  /\ Keep /\ UNCHANGED <<dirty, srcTable, srcRows, dstTable, dst, wanted, copies>>

\* The dump is one snapshot of the table; a dump that fails leaves some file.
Dump ==
  /\ At("pg_shard_bulk_copy", "dump")
  /\ \/ srcTable /\ dump' = srcRows /\ Proceed("apply") /\ NoFault
     \/ ~srcTable /\ Done("failed") /\ NoFault /\ UNCHANGED dump
     \/ dump' \in {dump} \cup SUBSET srcRows /\ Fails
  /\ Keep /\ UNCHANGED <<dirty, srcTable, srcRows, dstTable, dst, wanted, copies>>

\* The file is one COPY: all of its rows, or none when one of them is there.
Apply ==
  /\ At("pg_shard_bulk_copy", "apply")
  /\ LET conflict == \E r \in dump : dst[r] > 0 IN
     \/ ~conflict /\ dst' = Plus(dump)
        /\ Done(classify_promote_outcome(template, TRUE, {})) /\ NoFault
     \/ conflict /\ Done(classify_promote_outcome(template, FALSE, {}))
        /\ NoFault /\ UNCHANGED dst
     \/ dst' \in {dst, IF conflict THEN dst ELSE Plus(dump)} /\ Breaks
  /\ copies' = Saturated(copies + 1)
  /\ Keep /\ UNCHANGED <<dirty, srcTable, srcRows, dstTable, dump, wanted>>

\* Variant of Insert: a failed insert is sent again at once.
InsertRetried ==
  /\ At("ch_shard_bulk_copy", "insert")
  /\ srcTable
  /\ \E sent \in SUBSET srcRows :
       \/ dst' = Plus(srcRows) /\ NoFault
       \/ dst' = [r \in Row |-> IF r \in srcRows THEN Saturated(dst[r] + 1 + Cardinality(sent \cap {r}))
                                ELSE dst[r]] /\ Fault
  /\ Done(classify_promote_outcome(template, TRUE, {}))
  /\ copies' = Saturated(copies + 1)
  /\ Keep /\ UNCHANGED <<dirty, srcTable, srcRows, dstTable, dump, wanted>>

\* A MergeTree takes a row as often as it is sent, block by block.
Insert ==
  /\ At("ch_shard_bulk_copy", "insert")
  /\ \/ srcTable /\ dst' = Plus(srcRows)
        /\ Done(classify_promote_outcome(template, TRUE, {})) /\ NoFault
     \/ ~srcTable /\ Done(classify_promote_outcome(template, FALSE, {}))
        /\ NoFault /\ UNCHANGED dst
     \/ (\E sent \in SUBSET srcRows : dst' = Plus(sent)) /\ Breaks
  /\ copies' = Saturated(copies + 1)
  /\ Keep /\ UNCHANGED <<dirty, srcTable, srcRows, dstTable, dump, wanted>>

\* A client of the source adds a row, at any time.
RowWritten ==
  /\ engine \in {"pgcopy", "chcopy"}
  /\ srcTable
  /\ \E r \in Row \ srcRows : srcRows' = srcRows \cup {r}
  /\ UNCHANGED <<frameVars, srcTable, dstTable, dst, dump, wanted, copies>>

CopyNext == CreateSrc \/ CreateDst \/ Dump \/ Apply \/ Insert \/ RowWritten

-----------------------------------------------------------------------------

CopyTypeOK ==
  /\ srcTable \in BOOLEAN /\ dstTable \in BOOLEAN
  /\ srcRows \subseteq Row /\ dump \subseteq Row /\ wanted \subseteq Row
  /\ dst \in [Row -> 0..2] /\ copies \in 0..2

Copied == Answered /\ template \in {"pg_shard_bulk_copy", "ch_shard_bulk_copy"}

\* A copy answered as a success has taken to the peer every row that was here
\* when it began, whatever was left behind by executions before it
\* (run_pg_shard_bulk_copy, run_ch_shard_bulk_copy).
CopyAnswerTrue == Copied /\ reply = "ok" => \A r \in wanted : dst[r] > 0

\* Executed once, a copy brings no row twice, whatever fails: nothing is sent
\* again by itself.  With Postgres no number of executions does.
CopyRowsOnce ==
  copies <= 1 \/ engine = "pgcopy" => \A r \in Row : dst[r] <= 1

\* Without faults the first copy of Postgres succeeds also when this container
\* never had the table (the CREATE on the source before pg_dump).
CopyFaultlessSucceeds ==
  Copied /\ engine = "pgcopy" /\ faults = 0 /\ copies <= 1 /\ goal # None => reply = "ok"
=============================================================================
