----------------------------- MODULE StatusProbe -----------------------------
(***************************************************************************)
(* The container report of a heartbeat: docker ps, then docker inspect for *)
(* each container that was listed as not running, while containers start,  *)
(* exit, change health and are removed.  The daemon is external.  Times,   *)
(* names, labels and the restart count are left out.                       *)
(***************************************************************************)
EXTENDS ExecFrame, FiniteSets

CONSTANTS
  Ctr,         \* bound: the containers of the host
  DockerState  \* bound: the states docker puts them in, ones without a name here included

ContainerState == {"created", "running", "restarting", "paused", "exited", "dead", "removing"}
ContainerHealth == {"starting", "healthy", "unhealthy", "no_check", "unknown"}
RunningState == {"running", "restarting"}

\* What a container is doing: a state, and a health where docker ps shows one.
Docker ==
  [state : DockerState, health : {"none"}]
    \cup [state : {"running"}, health : {"starting", "unhealthy"}]
Gone == [state |-> "gone", health |-> "none"]

ASSUME ProbeAssumption == IsFiniteSet(Ctr)

VARIABLES
  docker,   \* the containers as they are
  rows,     \* the containers of the report under way, or of the last one
  todo,     \* the listed containers that are still to be enriched
  summary   \* the counts of the last report

probeVars == <<docker, rows, todo, summary>>

ContainerStatus ==
  [state : ContainerState, health : ContainerHealth, exit_code : BOOLEAN, probe_error : BOOLEAN]

ASSUME ProbeSentinel == None \notin ContainerStatus

NoRows == [c \in Ctr |-> None]
Listed == {c \in Ctr : rows[c] # None}

ProbeInit ==
  /\ docker \in [Ctr -> Docker \cup {Gone}]
  /\ rows = NoRows /\ todo = {}
  /\ summary = [running |-> 0, exited |-> 0, unhealthy |-> 0]

AtProbe(s) == engine = "ps" /\ step = s

-----------------------------------------------------------------------------

map_docker_state(s) == IF s \in ContainerState THEN s ELSE "exited"

map_health_from_status(d) ==
  IF d.health # "none" THEN d.health
  ELSE IF map_docker_state(d.state) \in RunningState THEN "no_check" ELSE "unknown"

\* A row of docker ps, as parse_container_status_report_from_ps_json takes it.
DockerPsRow(d) ==
  [state |-> map_docker_state(d.state), health |-> map_health_from_status(d),
   exit_code |-> FALSE, probe_error |-> FALSE]

summarize_from_containers(r) ==
  LET in(S) == {c \in Ctr : r[c] # None /\ r[c].state \in S} IN
  [running |-> Cardinality(in(RunningState)),
   exited |-> Cardinality(in(ContainerState \ RunningState)),
   unhealthy |-> Cardinality({c \in in(RunningState) : r[c].health = "unhealthy"})]

\* A line of docker ps that cannot be read is skipped; docker ps fails: the
\* report is that of an empty host.
StartProbe ==
  /\ engine = "ps" /\ step = "idle"
  /\ template' = "status" /\ goal' = None
  /\ \/ \E read \in SUBSET {c \in Ctr : docker[c] # Gone} :
          /\ rows' = [c \in Ctr |-> IF c \in read THEN DockerPsRow(docker[c]) ELSE None]
          /\ todo' = read
          /\ step' = "inspect" /\ reply' = "none"
          /\ summary' = summarize_from_containers(rows')
          /\ \/ /\ \A c \in Ctr \ read : docker[c] = Gone
                /\ faulted' = FALSE /\ UNCHANGED faults
             \/ Fault
     \/ /\ rows' = NoRows /\ todo' = {}
        /\ Done("ok")
        /\ summary' = summarize_from_containers(NoRows)
        /\ Fault
  /\ dirty' = FALSE
  /\ UNCHANGED <<engine, docker>>

\* Variant of NeedsInspect: every container is inspected.
NeedsInspectAll(c) == TRUE

NeedsInspect(c) == rows[c].state \notin RunningState

\* enrich_non_running_with_inspect.  The health stays that of docker ps.  A
\* container that is gone, or an inspect that fails, leaves a probe_error;
\* an answer that cannot be read leaves nothing.
Enrich(c) ==
  /\ c \in todo
  /\ todo' = todo \ {c}
  /\ \/ /\ ~NeedsInspect(c)
        /\ UNCHANGED rows /\ NoFault
     \/ /\ NeedsInspect(c) /\ docker[c] # Gone
        /\ rows' = [rows EXCEPT ![c].state = map_docker_state(docker[c].state),
                                ![c].exit_code = TRUE]
        /\ NoFault
     \/ /\ NeedsInspect(c) /\ docker[c] = Gone
        /\ rows' = [rows EXCEPT ![c].probe_error = TRUE]
        /\ NoFault
     \/ /\ NeedsInspect(c) /\ docker[c] # Gone
        /\ rows' \in {rows, [rows EXCEPT ![c].probe_error = TRUE]}
        /\ Fault

EnrichContainer ==
  /\ AtProbe("inspect")
  /\ \E c \in Ctr : Enrich(c)
  /\ Keep /\ UNCHANGED <<step, reply, dirty, docker, summary>>

\* Variant of Summarize: the summary of the rows as docker ps listed them stays.
SummaryOfTheList ==
  /\ AtProbe("inspect") /\ todo = {}
  /\ Done("ok") /\ NoFault
  /\ Keep /\ UNCHANGED <<dirty, probeVars>>

\* The summary is made anew from the enriched rows.
Summarize ==
  /\ AtProbe("inspect") /\ todo = {}
  /\ summary' = summarize_from_containers(rows)
  /\ Done("ok") /\ NoFault
  /\ Keep /\ UNCHANGED <<dirty, docker, rows, todo>>

\* Containers come, go and change.
DockerChanges ==
  /\ engine = "ps"
  /\ \E c \in Ctr, d \in Docker \cup {Gone} : d # docker[c] /\ docker' = [docker EXCEPT ![c] = d]
  /\ UNCHANGED <<frameVars, rows, todo, summary>>

ProbeNext == StartProbe \/ EnrichContainer \/ Summarize \/ DockerChanges

-----------------------------------------------------------------------------

ProbeTypeOK ==
  /\ docker \in [Ctr -> Docker \cup {Gone}]
  /\ rows \in [Ctr -> ContainerStatus \cup {None}]
  /\ todo \subseteq Listed
  /\ summary \in [running : 0..Cardinality(Ctr), exited : 0..Cardinality(Ctr),
                  unhealthy : 0..Cardinality(Ctr)]

\* The counts of a report are those of its rows, each listed container counted
\* once, though rows change state between docker ps and the end of the probe
\* (the doc of ContainerStatusReport.summary: derived from containers).
SummaryMatchesRows ==
  Answered /\ template = "status" =>
    /\ summary.running + summary.exited = Cardinality(Listed)
    /\ summary.running = Cardinality({c \in Listed : rows[c].state \in RunningState})
    /\ summary.unhealthy = Cardinality({c \in Listed : rows[c].health = "unhealthy"})

\* A row never puts the health of one moment beside the end of the container at
\* another: a container with a health is reported as running, without exit code,
\* and one without exit code or error was running when it was listed, unless the
\* answer of docker inspect could not be read (enrich_non_running_with_inspect
\* against map_health_from_status).
RowOfOneMoment ==
  Answered /\ template = "status" =>
    \A c \in Listed :
      /\ rows[c].health \in {"starting", "healthy", "unhealthy"} =>
           rows[c].state = "running" /\ ~rows[c].exit_code
      /\ ~faulted =>
           rows[c].exit_code \/ rows[c].probe_error \/ rows[c].state \in RunningState
=============================================================================
