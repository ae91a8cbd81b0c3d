----------------------------- MODULE MCExecutors -----------------------------
EXTENDS Executors

MCText == {"nucleus", "rs0", "cfg0", "h1", "h2"}

Good ==
  [primary_host |-> "h1", primary_port |-> 0, user |-> "rs0", cluster_node_id |-> "h1",
   slot_start |-> 0, slot_end |-> 0,
   topology_peers |-> <<[shard |-> "rs0", host |-> "h1", port |-> TRUE],
                        [shard |-> "cfg0", host |-> "h2", port |-> TRUE],
                        [shard |-> "rs0", host |-> "h2", port |-> TRUE]>>]

Shardless == <<[shard |-> "none", host |-> "h1", port |-> TRUE]>>

\* One request that every template takes, and requests that differ from it in a
\* field, for the better or the worse.
MCParams ==
  {Good}
    \cup {[Good EXCEPT !.primary_host = h] : h \in {"h2", Blank, Garbled}}
    \cup {[Good EXCEPT !.user = u] : u \in {"nucleus", Blank, Garbled}}
    \cup {[Good EXCEPT !.primary_port = 7000]}
    \cup {[Good EXCEPT !.cluster_node_id = n] : n \in {"h2", Blank}}
    \cup {[Good EXCEPT !.slot_start = 1, !.slot_end = 2], [Good EXCEPT !.slot_end = 2],
          [Good EXCEPT !.slot_start = 1], [Good EXCEPT !.slot_start = 3, !.slot_end = 3]}
    \cup {[Good EXCEPT !.topology_peers = peers] :
            peers \in {<< >>, Shardless, SubSeq(Good.topology_peers, 1, 2),
                       Good.topology_peers \o Shardless}}
    \cup {[Good EXCEPT !.user = "nucleus", !.primary_host = "h2"]}

\* The environment as it comes; with cosign, set up right and wrong; and with
\* what can be waived waived, with and without cosign.
MCPolicy ==
  [waived : {{}, Waivable}, cosign : {"off", "on"}] \cup {[waived |-> {}, cosign |-> "unset"]}
=============================================================================
