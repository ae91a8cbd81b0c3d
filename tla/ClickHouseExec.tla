---------------------------- MODULE ClickHouseExec ----------------------------
(***************************************************************************)
(* ClickHouse: the readiness queries, remote_servers and the Distributed   *)
(* table.  The server and its configuration directory are external.        *)
(***************************************************************************)
EXTENDS ExecFrame, SequencesExt

VARIABLES
  chFile,    \* what was written last to the remote_servers file, or None
  chTorn,    \* the file is cut short
  chLoaded,  \* the configuration the server works with, or None
  chUp,      \* the server runs
  chLocal,   \* the local table is there
  chDist     \* the cluster the Distributed table was created for, or None

chVars == <<chFile, chTorn, chLoaded, chUp, chLocal, chDist>>

\* The hosts of each shard, in order; the names of the shards are not written.
Config == [cluster : Text, shards : Seq(Seq(Text))]

ChInit ==
  /\ chFile = None /\ chTorn = FALSE /\ chLoaded = None
  /\ chUp \in BOOLEAN
  /\ chLocal = FALSE /\ chDist = None

ChCommand(s) == engine = "ch" /\ step = s

-----------------------------------------------------------------------------
(* build_remote_servers_xml.                                               *)

\* A peer joins the hosts of its shard, or begins a shard at the end.
AddPeer(grouped, part) ==
  IF \E i \in DOMAIN grouped : grouped[i].name = part.shard
  THEN [i \in DOMAIN grouped |->
          IF grouped[i].name = part.shard
          THEN [grouped[i] EXCEPT !.hosts = Append(@, part.host)] ELSE grouped[i]]
  ELSE Append(grouped, [name |-> part.shard, hosts |-> <<part.host>>])

\* The shards in the order they are first named, each with its hosts.
Grouped(peers) == FoldLeft(AddPeer, << >>, peers)

\* Variant of build_remote_servers_xml: only neighbours are grouped.
build_remote_servers_xml_neighbours(cluster, peers) ==
  LET add(shards, part) ==
        IF shards # << >> /\ Last(shards).name = part.shard
        THEN [shards EXCEPT ![Len(shards)].hosts = Append(@, part.host)]
        ELSE Append(shards, [name |-> part.shard, hosts |-> <<part.host>>])
      grouped == FoldLeft(add, << >>, peers)
  IN [cluster |-> cluster, shards |-> [i \in DOMAIN grouped |-> grouped[i].hosts]]

build_remote_servers_xml(cluster, peers) ==
  [cluster |-> cluster,
   shards |-> [i \in DOMAIN Grouped(peers) |-> Grouped(peers)[i].hosts]]

-----------------------------------------------------------------------------

\* SELECT 1, whatever the template asks for.
ChReady ==
  /\ ChCommand("exec")
  /\ \/ Done(classify_promote_outcome(template, chUp, {})) /\ NoFault
     \/ Breaks
  /\ Keep /\ UNCHANGED <<dirty, chVars>>

\* Variant of ChWriteXml: the reload is sent whatever became of the file.
ChWriteXmlUnchecked ==
  /\ ChCommand("write_xml")
  /\ LET xml == build_remote_servers_xml(goal.user, goal.topology_peers) IN
     \/ chFile' = xml /\ chTorn' = FALSE /\ NoFault
     \/ UNCHANGED <<chFile, chTorn>> /\ Fault
  /\ Proceed("reload")
  /\ Keep /\ UNCHANGED <<dirty, chLoaded, chUp, chLocal, chDist>>

\* The shell truncates the file before printf writes it.
ChWriteXml ==
  /\ ChCommand("write_xml")
  /\ LET xml == build_remote_servers_xml(goal.user, goal.topology_peers) IN
     \/ chUp /\ chFile' = xml /\ chTorn' = FALSE /\ Proceed("reload") /\ NoFault
     \/ ~chUp /\ Done("failed") /\ NoFault /\ UNCHANGED <<chFile, chTorn>>
     \/ UNCHANGED <<chFile, chTorn>> /\ Fails
     \/ chUp /\ chFile' = xml /\ chTorn' \in BOOLEAN /\ Fails
  /\ Keep /\ UNCHANGED <<dirty, chLoaded, chUp, chLocal, chDist>>

\* A file that does not parse is not loaded.
ChReload ==
  /\ ChCommand("reload")
  /\ LET loaded == IF chTorn THEN chLoaded ELSE chFile IN
     \/ chUp /\ ~chTorn /\ chLoaded' = loaded
        /\ Done(classify_promote_outcome(template, TRUE, {})) /\ NoFault
     \/ (~chUp \/ chTorn) /\ UNCHANGED chLoaded
        /\ Done(classify_promote_outcome(template, FALSE, {})) /\ NoFault
     \/ chLoaded' \in {chLoaded, IF chUp THEN loaded ELSE chLoaded} /\ Breaks
  /\ Keep /\ UNCHANGED <<dirty, chFile, chTorn, chUp, chLocal, chDist>>

ChCreateLocal ==
  /\ ChCommand("create_local")
  /\ \/ chUp /\ chLocal' = TRUE /\ Proceed("create_dist") /\ NoFault
     \/ ~chUp /\ Done("failed") /\ NoFault /\ UNCHANGED chLocal
     \/ chLocal' \in {chLocal, chUp} /\ (chLocal => chLocal') /\ Fails
  /\ Keep /\ UNCHANGED <<dirty, chFile, chTorn, chLoaded, chUp, chDist>>

\* IF NOT EXISTS: a table for another cluster stays.  Without the local table,
\* or for a cluster the server does not know, the server refuses.
ChCreateDistributed ==
  /\ ChCommand("create_dist")
  /\ LET known == chLoaded # None /\ chLoaded.cluster = goal.user
         created == IF chDist = None /\ chUp /\ chLocal /\ known THEN goal.user ELSE chDist IN
     \/ chUp /\ created # None /\ chDist' = created
        /\ Done(classify_promote_outcome(template, TRUE, {})) /\ NoFault
     \/ ~(chUp /\ created # None) /\ UNCHANGED chDist
        /\ Done(classify_promote_outcome(template, FALSE, {})) /\ NoFault
     \/ chDist' \in {chDist, created} /\ Breaks
  /\ Keep /\ UNCHANGED <<dirty, chFile, chTorn, chLoaded, chUp, chLocal>>

\* The server ends, by itself or with its container, and is started again: it
\* does not come up on a file that does not parse.
ChServer ==
  /\ engine = "ch"
  /\ \/ chUp /\ chUp' = FALSE /\ UNCHANGED chLoaded
     \/ ~chUp /\ ~chTorn /\ chUp' = TRUE /\ chLoaded' = chFile
  /\ UNCHANGED <<frameVars, chFile, chTorn, chLocal, chDist>>

ChNext ==
  ChReady \/ ChWriteXml \/ ChReload \/ ChCreateLocal \/ ChCreateDistributed \/ ChServer

-----------------------------------------------------------------------------

ChTypeOK ==
  /\ chFile = None \/ chFile \in Config
  /\ chTorn \in BOOLEAN
  /\ chLoaded = None \/ chLoaded \in Config
  /\ chUp \in BOOLEAN /\ chLocal \in BOOLEAN
  /\ chDist \in Text \cup {None}

\* A topology answered as applied is the one the server works with, and stays
\* so over restarts: the file holds it too.  A Distributed table answered as
\* ensured is there, and so is the table it stands on
\* (run_ch_remote_servers_apply, run_ch_distributed_ensure).
ClickHouseAnswerTrue ==
  Answered /\ reply = "ok" =>
    /\ template = "ch_remote_servers_apply" =>
         /\ chFile = build_remote_servers_xml(goal.user, goal.topology_peers)
         /\ ~chTorn /\ chLoaded = chFile
    /\ template = "ch_distributed_ensure" => chLocal /\ chDist # None

\* Two peers of the topology stand in the same shard of the file exactly when
\* the request names the same shard for them, and every peer stands in it once
\* (build_remote_servers_xml; rows written to a shard go to each of its hosts).
TopologyKept ==
  step = "reload" /\ template = "ch_remote_servers_apply" =>
    LET peers == goal.topology_peers
        times(h, hosts) == Cardinality({i \in DOMAIN hosts : hosts[i] = h})
        wanted(h, s) == Cardinality({i \in DOMAIN peers : peers[i].host = h /\ peers[i].shard = s})
    IN /\ Len(chFile.shards) = Cardinality({peers[i].shard : i \in DOMAIN peers})
       /\ \A s \in {peers[i].shard : i \in DOMAIN peers} :
            \E n \in DOMAIN chFile.shards :
              \A h \in Text : times(h, chFile.shards[n]) = wanted(h, s)
=============================================================================
