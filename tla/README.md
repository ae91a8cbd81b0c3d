# A TLA+ verification of the parton agent

`parton` is the agent that a control plane (CP) installs on a host. One process
runs one loop: build and POST a heartbeat, apply the signed directives of the
answer, claim at most one queued command, execute it (mostly by shelling out to
`docker`), report its result, sleep. A supervisor starts the process with
`parton.env` as its environment and starts it again when it ends.

This directory models that loop, the command queue it serves, the two composed
in one process, the docker commands it runs and the executors of its actions
against the databases, images and filesystems they act on. TLC checks the
modules on small instances; TLAPS proves every safety property, action property
and refinement of the passing runs for every value of the constants.

## 1. Inventory

| Component | State it keeps | Operations | Talks to |
|---|---|---|---|
| heartbeat loop (`agent_runtime.rs`, `main.rs`) | `config`, `pending_applied_token`, `pending_apply_failed`, `pending_grace`, `enrollment_acknowledged` | `run_heartbeat_step`, `handle_heartbeat_error`, `process_successful_heartbeat`, fallback report | CP over HTTP, directive application, supervisor through its exit |
| directive application (`directive_apply.rs`, `directives_wire.rs`) | `DirectiveApplyOutcome`, the file `parton.env` and its `.env.tmp` | `apply_directives`, re-enroll, revoke, the rewrite of the file | identity file, process environment, disk |
| report and transport (`heartbeat/`) | none | build a report, POST it, parse the answer | CP, docker, `/proc` |
| action queue client (`main.rs`, `command_queue/`) | the claimed command | claim, extend lease, execute, report, post | the CP's queue, executor |
| inline actions (`health_check.rs`, `handoff_bundle_import.rs`) | none | one HTTP request each | a URL of the payload |
| handoff actions (`handoff.rs`) | none | deploy_handoff, teardown_handoff | docker |
| container actions (`actions/docker_exec.rs`, `docker_args.rs`, `secret_env.rs`) | the secret env file of a deploy | start, stop, restart, deploy, logs, inspect, ensure image, ensure network | docker |
| validation and policies (`actions/mod.rs`, `policy.rs`, `cosign.rs`) | none | refuse a request before anything is done | cosign |
| templated exec (`actions/templated_exec/`, the catalog in `actions/types.rs`) | none; the state is the databases' | 29 templates: promotions, standby bootstrap and follow, cluster slots and their keys, topologies, shards, bulk copies | docker exec and docker run |
| grow_fs (`actions/grow_fs.rs`) | none; the state is the filesystem's | findmnt, growpart, resize2fs or xfs_growfs | the host |
| diagnostic, probe_host, wireguard_peer | none | one host command or a few | the host |
| identity, SPIFFE, SSRF guard | key and token files | seal, sign, verify; headers; address checks | files |
| container status (`heartbeat/container_status.rs`) | the report under way | docker ps, docker inspect of what does not run, the counts | docker |
| telemetry (`host_capabilities.rs`, `host_info.rs`, `agent_metrics.rs`) | counters | parse docker and `/proc` output | docker, `/proc` |

What is hard in it:

* *Three copies of the enrollment*: the process environment, fixed at start; the
  running `config`, refreshed from the process environment; and `parton.env`,
  which a re-enroll rewrites. They part ways between a rewrite and a restart.
* *Stamps that are taken before the send*: the ack and `apply_failed` leave their
  slots before the heartbeat that carries them is known to have arrived.
* *Failure at every step*: crash, I/O error and power loss between the steps of
  the rewrite; a kill while docker works on a command; a lost or late result.
* *Leases*: a command whose execution outlives its lease is offered again.
* *Act by name*: the identity guards inspect a container by name and then act by
  name, while other users of the daemon go on.
* *Clean-up on error paths*: the secret env file of a deploy, the old container.
* *One task*: the heartbeat, the command and the sleep share a task; what ends or
  holds up the one ends or holds up the other.
* *Multi-command executions*: a standby is wiped before its copy has succeeded, a
  listing of keys is old when it is migrated, a config file is truncated before
  it is written; the agent may be killed between any two commands, and a helper
  container it started goes on. The command comes back and meets what is left.
* *What a failure is*: exit statuses, phrases in output, and results nobody reads
  decide what is answered as a success.
* *Catalog and builders apart*: what `types.rs` demands of the parameters of a
  template and what the argv builders splice must agree for 29 templates.
* *Reports of a moving host*: docker ps and the inspects are of different moments.
* *Time*: the grace window after a re-enroll against late successes.

Correctness, by component: parton.env is always one complete, authentic content;
an ack is only given for a rewritten file; a grace exit is justified and a grace
window resolves if exchanges end; a revoke silences the process; the enrollment token is omitted
only where it is known; success of a command is earned; a command is settled
once, eventually, and not executed again without a fault, and nothing is begun
for it afterwards; guarded actions reach
only the expected container; answers of stop, teardown, deploy, of every template, of
grow_fs and of the ensure actions are true; executing again what was done does no
harm where the code says so; nothing is fetched or run that is not admitted;
secrets do not stay on disk; counts agree with rows; a revoked process does no
work, and no exit of the agent's own leaves a command half done. `PROJECT.json`
lists the hazards line by line.

## 2. Modules

| Module | Content |
|---|---|
| `AgentLoop` | the heartbeat loop, directive application, the rewrite of parton.env, supervisor, disk, clock and CPs |
| `CommandPromise` | abstract specification: what the queue promises of a command |
| `ActionQueue` | the queue client with the CP's queue, leases, faults; implements `CommandPromise` |
| `Agent` | both in one process; implements `AgentLoop` and `CommandPromise` |
| `DockerActions` | stop, start, restart, deploy, teardown as sequences of docker commands |
| `ExecTemplates` | the catalog of templates: demands, validation, defaults, what argv builders splice, `classify_promote_outcome` |
| `ExecFrame` | one execution at a time: accept, fail to spawn, be killed, restart |
| `PgStandbyExec`, `BulkCopyExec`, `RedisExec`, `ClickHouseExec`, `MongoExec` | the templates of each engine against its state |
| `GrowFs`, `HostImages`, `StatusProbe` | grow_fs; ensure image and network with admission; the container report |
| `Executors` | the composition of the nine modules above |
| `AgentLoopProofs`, `AgentProofs` | theorems about `AgentLoop` and `Agent` |
| `ActionQueueProofs`, `DockerActionsProofs` | theorems about these |
| `ExecutorsProofs`, `DatabaseProofs` | theorems about `Executors`: the host's engines, the databases |
| `TopologyProofs`, `ExecutorsTypeProofs` | the grouping of a ClickHouse topology; the types of `Executors` |
| `MC*` | constants for TLC; no module of the project is changed for a run |

### AgentLoop and the code

`pc` is the place of the process: `top` → `SendHeartbeat` (agent_runtime.rs
141-153) → `beat` → `HeartbeatOk`, `HeartbeatFails`, `GraceExpires` or
`SendFallback`/`FallbackDone` (153-196). A batch of directives goes through
`setup` (`SetupApply`, `SetupFails`: verify key, identity), then each directive
through `ApplyRevoke`, `SkipReEnroll`, `ReEnrollFails` or `AcceptReEnroll`; an
accepted one through `WriteTmp`, `SyncTmp`, `RenameTmp`, `ReEnrollDone`, with
`RewriteFails` at every step (directive_apply.rs 136-382). `RevokeExits` and
`ApplyDone` are the end of `process_successful_heartbeat`. `Crash` may come
anywhere. `PowerLoss` sets the file to any content that may be on the disk:
`disk` gains the renamed content, torn if the temporary file was not synced, and
keeps the old one, for the directory is not synced; `WriteBack` is the file
system catching up.

A directive is a record: the key its signature verifies under, whether its
ciphertext opens, its window, and the enrollment it brings. `Verified` compares
the signing key with `procEnv.vkey`: the code reads the key from the process
environment, so a re-enroll takes effect for verification only after a restart.
A CP may answer any report with any of `Responses`, twice the same included:
the code keeps no record of directive ids.

### ActionQueue and the code

`phase` follows `poll_one_node_action` (main.rs 110-137): `claim`, `extend`
(`maybe_extend_lease`), `run` (dispatch of `execute_claimed_node_action`),
`busy`, `report`, `sleep`. The CP's queue is external and written from what the
client relies on: `CpClaims` leases a command and counts the attempt,
`CpExpires` offers it again, `CpTakes` settles it with a result of the current
attempt. `Refuse` stands for every refusal before an effect, `Executed` for the
end of an execution, `ReportsSuccess` for the report that is built, `Panic` for
`clip_str` and `clip_action_error_summary` on the main task (in `spawn_blocking`
the same panic is a join error and becomes a failure report). The text of a
success is the executor's own short message and is never cut. A kill during
`busy` may leave the docker command behind in `orphans`: `OrphanEnds` ends it at
any later time, with or without success, be it after the restart, after another
attempt or after the settlement. In `CommandPromise` it is in `left`: nothing is
begun for a settled command, but what was left behind before may still end.

### DockerActions and the code

`pc` names the docker command that is next. `Guard` is
`maybe_identity_skip_stop_restart`, `Preclean` `guarded_deploy_precleanup`, then
`CleanStop`, `CleanRm`, `WriteSecret`, `BuildArgs`, `RunContainer`/`RunFails`
and `Unlink` in the order of `run_general_action` (docker_exec.rs 451-480).
`AfterStop` and `RemoveVolumes` are the second half of
`run_teardown_handoff_with_volume_runner`. `Inspect` may read a container that
is there as absent, as `docker_inspect_container_id` does for any failure. Other
users create, remove, start and stop at any time; `stale` remembers that they
did since the agent's inspect.

### Agent and the code

main.rs 160-178 calls `run_heartbeat_step`, then `poll_one_node_action`, then
sleeps. `HeartbeatStep` takes a step of `AgentLoop` while the queue client is
idle; where that step ends the process, the queue client ends with it. `PollStep`
is the poll, possible only where the loop has come to `poll`; `TurnEnds` is the
end of the sleep. `Claiming` puts the
claim to the control plane of `config.endpoint`: after a re-enroll and a restart
that is not `Home`, which holds the commands. `PanicEnds` and `KillEnds` take
both halves down in one step, `RestartsBoth` brings them up.

### ExecTemplates, ExecFrame and the code

`ExecTemplates` writes two readings of one thing side by side. `requires_*`,
`Accepted` and `validate_for` are what types.rs demands and completes
(`TemplatedExecParams::validate_for`); `Splices*` is what the argv builders of
`templated_exec/` read. `ArgvIsComplete` says that they agree. A text is known by
whether it is blank, passes the character checks, or does not; a topology is a
sequence of parts. `classify_promote_outcome` looks at the exit status and, where
it failed, for the phrases of the template in the output; the output of a failed
command is one of `GeneralText`, for any command can fail with no output or with
words of its own.

`ExecFrame` is `run_templated_exec_with`: `Accept` validates and dispatches to
the first command; each command is an action of an engine's module and ends with
`Done` (the answer), `Proceed` (the next command), `Fails` or `Breaks` (a fault, or
the kill of the agent). `SpawnFails` is the `?` on a docker that does not start,
`KilledBetween` and `Restart` the supervisor. The history variables `faulted` and
`dirty` separate what the code can see from what it cannot: a result that it does
not read (docker stop, growpart), an error reply behind exit status 0, a helper of
a killed execution.

### The engines

* `PgStandbyExec`: `stop`, `clear` or `rewind`, `backup`, `start` in the order of
  postgres_standby.rs, against a data directory that is own, a standby of a server,
  rewound, empty, partial, promoting or mixed. `rewindTook` remembers which way a
  follow went. A helper container whose client was
  killed goes on (`pgStray`) and meets the next execution.
* `BulkCopyExec`: `create_src`, `create_dst`, `dump`, `apply` with Postgres, where
  the whole dump is applied or nothing; `create_dst`, `insert` with ClickHouse,
  where a prefix may arrive. The dump file of an earlier execution stays.
* `RedisExec`: the replication and cluster templates as the state they bring
  about; `ListKeys` and `MigrateKeys` for redis_cluster_migrate_slot_keys, with
  clients writing in between.
* `ClickHouseExec`: `SELECT 1`; the write of remote_servers.xml, which can be torn,
  and its reload; the local and the Distributed table; a server that restarts.
* `MongoExec`: each script with its try and catch: what is swallowed succeeds.
  moveChunk swallows that the chunk is on the target already, and also "Chunk with
  the given bounds", with which the server declines to move anything.
* `GrowFs`: `try_growpart`, whose result is ignored, and `Resize`, while the cloud
  may enlarge the volume.
* `HostImages`: `Denied` is the validation of `execute_container_action`, the policies
  and `build_cosign_verify_args`; then `verify_image_signature` and the docker
  commands, while other users of the daemon pull and remove.
* `StatusProbe`: docker ps, an inspect for each row that is not running, the counts
  made again, while containers change.

`Executors` picks an engine for a behaviour in `Init` and composes the frame with
the module that acts on it; the variables of the others do not change.

## 3. Runs

| Run | Checks | Distinct states |
|---|---|---|
| `agent_loop` | 6 invariants, 1 liveness property of `AgentLoop` | 149,684 |
| `action_queue` | 3 invariants, refinement of `CommandPromise`, 1 liveness property | 473,332 |
| `agent` | 2 invariants, 1 action property, 1 liveness property of `Agent` | 726,664 |
| `docker_actions` | 5 invariants (with symmetry over container ids) | 11,743 |
| `executors` | 17 invariants, 2 action properties of `Executors` | 439,343 |
| `ack_to_new_cp`, `ack_reported`, `soft_failure`, `clip_panic`, `secret_file_left`, `teardown_newer`, `follow_not_standby` | one disagreement each, see section 6 | – |

**agent_loop.** `EnvFileAuthentic`: whatever a crash, an error or a power loss
interrupts, parton.env is a complete content that was installed or ordered under
a key the agent had trusted. `AckImpliesRewritten`: no ack for a token that was
not renamed into place. `GraceExitJustified`: a grace exit needs a full window
without a successful heartbeat. `RevokedIsSilent`: after a verified revoke the
process only finishes the batch and exits. `TokenOmittedOnlyWhenKnown`: a report
without the enrollment token goes only to a CP that took a report of this
process. `GraceResolves`: if every exchange and every poll ends, a grace window
closes or the process ends; without that premise TLC finds the window open for ever
(see Fairness).
Bounds: two CPs, two trusted keys and a foreign one, and the directives of
`MCAgentLoop`: a move from a to b, a move on from b, one that expires, a revoke,
a forgery and a ciphertext for another box. They give chains of re-enrolls, a
revoke and a re-enroll in one batch, and an expired one before a good one. The
grace window is two ticks (expired, running), the validity clock stops at 1.

**action_queue.** `SuccessIsEarned`: a command is settled as a success only if
the execution of that attempt succeeded (kinds whose failure comes back as `Ok`
excepted, see section 6). `NoFaultNoRepeat`: without a fault a command that fits
its lease is executed once. `KeepsPromise`: the queue implements
`CommandPromise`: settled once, as a success only after an execution that
succeeded, and nothing begun on the host afterwards. What a killed agent left
behind before the settlement is the one thing that can still take effect.
`EventuallySettled`: whatever is lost, a command that fits its lease and whose
failure text can be clipped is settled in the end. Bounds: a deploy that needs
its extension, a templated_exec that may outlive its lease, a health check with
an unclippable failure text and a malformed command; two attempts and one fault
are the least in which a late result meets a second attempt.

**docker_actions.** `GuardedHitsExpected`: guarded stops, restarts and clean-ups
reach no container but the expected one, unless the name changes hands after the
inspect; that window is real, and the property says it is the only one.
`StopAnswerTrue`, `DeployAnswerTrue`: success answers are true.
`SecretsGoWithRun`: once `docker run` has returned, the env file is gone before
the answer. Bounds: three container ids, for the expected container, a newer one
of the same name, and the one the deploy starts. Every request is one of all
combinations of action, expected id, secrets, bad arguments and volumes.

**agent.** `RevokedDoesNoWork`: after a verified revoke the process asks for no
command and works on none. `ExitsBetweenCommands`: a grace exit, a revoke and a
directive that cannot be applied end the process only between two commands.
`ExitsRepeatNothing`: therefore they repeat none: without a lost message or a kill
a command that fits its lease is executed once, whatever the heartbeats bring.
`CommandsServed`: as long as the agent stays with Home and no answer carries a
directive any more, every healthy command is settled, though not one heartbeat may
get through; a directive that fails to apply ends the process before the poll
every time it is sent, and that is why the premise is there. Bounds: a command
that needs its extension and a health check whose failure text panics; a batch
that moves the agent away, one that revokes and moves, one that cannot be opened;
two attempts and one fault.

**executors.** One run for all engines. `ArgvIsComplete`: no template runs with a
parameter its argv builder needs missing or unchecked; the port is the one requested
or that of the engine (`EnginePort`, written apart from the defaults of types.rs),
and the slots spliced are all that the request names, within the slots and one batch.
`StandbyAnswerTrue`, `CopyAnswerTrue`, `RedisAnswerTrue`, `ClickHouseAnswerTrue`,
`ShardAnswerTrue`, `GrowAnswerTrue`, `EnsureAnswerTrue`, `MoveAnswerTrue`: what a
success means, with the outcomes left out for which the code does not look:

* `StandbyAnswerTrue`: a running standby of the server named, after a bootstrap or
  a follow that came to the full copy; after a pg_rewind that succeeded only a
  running server, set back to that one or the standby it was (section 6). Left out:
  a docker stop that failed on a running server, a helper still at work.
* `MoveAnswerTrue`, `RedisAnswerTrue`: left out are executions with an error reply
  behind exit status 0 (redis-cli runs without `-e`), and replicaof executions in
  which something failed.
* `ShardAnswerTrue`: the chunk is on the shard named, or on the last one listed where
  none has the name, unless the server declined it with the swallowed phrase.
* `GrowAnswerTrue`: left out is a growpart that failed, whose result nobody reads.

`RunningNotWiped`: a data directory is cleared or copied into only while no server
runs on it. `CopyRowsOnce`, `CopyFaultlessSucceeds`, `MongoRepeatIsOk`,
`EnsureRepeats`: executing again. `TopologyKept`: the peers of a shard stay
together in the file. `NothingUnadmitted`: no pull and no run past the policies
or cosign. `SummaryMatchesRows`, `RowOfOneMoment`: the container report.
Bounds (`MCExecutors`): five texts, a request that every template takes and
variations of it in one field, for the better or the worse; three slots, a slot
batch of two and a key batch of one, so that a range can be a batch and one too
many; topologies of up to three parts with a shard that comes back after another,
and one of four; one requested port that is no engine's; two rows, keys and containers; a volume of up to three sizes; two
faults, the least in which a helper of a killed execution meets another failure
of the next one. Executions follow one another without bound; deadlock is not
checked, for the last fault may be spent with the agent down.

Every checked property has a mutant in `PROJECT.json`: a plausible slip in a
mapped definition (written next to it as a variant) under which TLC finds the
property violated.

### Fairness

`AgentLoop`: weak fairness of the steps the process takes by itself (`SendHeartbeat`
and `Apply`) and of time (`Tick`). Nothing makes an exchange or a poll end: the
heartbeat client is built without a timeout (transport.rs 48), and the deadline of a
grace window is read only once the exchange has failed (agent_runtime.rs 153-187).
`GraceResolves` therefore has the premise that the process does not wait for ever,
`[]<>~Waiting`; without it TLC shows the process in its first exchange with the new
CP, the deadline passed and the window open. Crashes, power loss and restarts are
free. `ReachableSpec`, of the run `ack_reported` only, adds that exchanges end, and
strong fairness of answers and of successful heartbeats: the ack is lost even if
heartbeats keep getting through.
`ActionQueue`: weak fairness of the agent, its restart by the supervisor, time,
and the queue's claim, expiry and taking of results; faults are bounded by
`MaxFault`; a command left behind by a killed agent need not end.
`Agent` (`AgentFairSpec`): weak fairness of `Progress` (the process goes on,
exchanges and actions end), of its restart, of a panic that is due, of the queue's
claim, taking of results and end of leases, and of time. Answers, directives, kills
and lost results are free. That an exchange ends is an assumption about the peer:
`CommandsServed` is about heartbeats that fail, not about one that hangs.
`DockerActions` and `Executors` are checked for safety only.

## 4. Proofs

TLAPS checks all of the following for every value of the constants that satisfies
the assumptions named with them. The bounds of section 3 (faults, attempts, time)
are constants too: a theorem holds for any number of faults.

| Module | Theorem | Statement |
|---|---|---|
| `AgentLoopProofs` | `TypeCorrect` | `Spec => []TypeOK` |
| | `EnvFileIsAuthentic` | `Spec => []EnvFileAuthentic` |
| | `AcksAreRewritten` | `Spec => []AckImpliesRewritten` |
| | `GraceExitsAreJustified` | `Spec => []GraceExitJustified` |
| | `RevokedStaysSilent` | `Spec => []RevokedIsSilent` |
| | `TokenOmissionIsSafe` | `Spec => []TokenOmittedOnlyWhenKnown` |
| `AgentProofs` | `LoopIsKept` | `AgentSpec => Spec`: the process implements the loop |
| | `RevokedWorksNoMore` | `AgentSpec => []RevokedDoesNoWork` |
| | `CommandsAreFinished` | `AgentSpec => ExitsBetweenCommands` |
| | `SuccessesStayEarned` | `AgentSpec => []Work!SuccessIsEarned` |
| | `NothingIsRepeated` | `AgentSpec => []ExitsRepeatNothing` |
| | `AgentKeepsPromise` | `AgentSpec => Work!KeepsPromise`: the process implements `CommandPromise` |
| `ActionQueueProofs` | `TypeCorrect` | `Spec => []TypeOK` |
| | `SuccessesAreEarned` | `Spec => []SuccessIsEarned` |
| | `PromiseKept` | `Spec => KeepsPromise`: the queue implements `CommandPromise` |
| | `NoRepeats` | `Spec => []NoFaultNoRepeat` |
| `DockerActionsProofs` | `TypeCorrect` | `Spec => []TypeOK` |
| | `GuardsHold` | `Spec => []GuardedHitsExpected` |
| | `StopAnswersAreTrue`, `DeployAnswersAreTrue` | `Spec => []StopAnswerTrue`, `[]DeployAnswerTrue` |
| | `SecretsGo` | `Spec => []SecretsGoWithRun` |
| `ExecutorsProofs` | `ArgvsAreComplete` | `Spec => []ArgvIsComplete` |
| | `NothingIsUnadmitted` | `Spec => []NothingUnadmitted` |
| | `EnsureAnswersAreTrue`, `EnsuringAgainIsHarmless` | `Spec => []EnsureAnswerTrue`, `[]EnsureRepeats` |
| | `GrowAnswersAreTrue` | `Spec => []GrowAnswerTrue` |
| | `RowsAreOfOneMoment`, `SummariesMatchRows` | `Spec => []RowOfOneMoment`, `[]SummaryMatchesRows` |
| | `StandbyAnswersAreTrue`, `NoRunningServerIsWiped` | `Spec => []StandbyAnswerTrue`, `[]RunningNotWiped` |
| | `RepeatsAreHarmless` | `Spec => MongoRepeatIsOk` |
| `DatabaseProofs` | `CopyAnswersAreTrue`, `RowsAreCopiedOnce`, `FaultlessCopiesSucceed` | `Spec => []CopyAnswerTrue`, `[]CopyRowsOnce`, `[]CopyFaultlessSucceeds` |
| | `ClickHouseAnswersAreTrue` | `Spec => []ClickHouseAnswerTrue` |
| | `RedisAnswersAreTrue`, `MovesAreTrue` | `Spec => []RedisAnswerTrue`, `MoveAnswerTrue` |
| | `ShardAnswersAreTrue` | `Spec => []ShardAnswerTrue` |
| `TopologyProofs` | `TopologiesAreKept` | `Spec => []TopologyKept` |
| `ExecutorsTypeProofs` | `ExecutorsTypeCorrect` | `Spec => []ExecutorsTypeOK` |

**Assumptions.** Of types: `ConstantsAssumption` (AgentLoop), `QueueAssumption`,
`HomeAssumption`, `CatalogAssumption`, `FrameAssumption`, `RedisAssumption` (a key
batch is not empty, and this node has a name), `GrowAssumption` (there is a volume),
`PolicyAssumption`, `ProbeAssumption` (a host has finitely many containers). That
`None` and `Torn` are not ordinary values: `SentinelAssumption`, `QueueSentinel`,
`FrameSentinel`, `ProbeSentinel`. `CatalogAssumption` also has the default names
of types.rs among the texts that pass its checks. `WorkAssumption` and `WorkSentinel`
of `Agent` are `QueueAssumption` and `QueueSentinel` for its constants. TLC
evaluates all of them.

**AgentLoop.** The base is the inductive invariant `IInv`: `TypeOK` and `Stage`,
what `pc` says of the rest: an exchange exists exactly in `beat` and `fallback`;
while the file is being rewritten the head of the batch is a directive that passed
all checks; from `sync` on the temporary file holds its content, from `rename` on
synced; from `chmod` on its token is in the file. `TypeOK` alone is not inductive
(`RenameTmp` reads `tmp.env`, `Head(batch)` needs a batch), and authenticity needs
to know which content is renamed. On top of it each property has its own
strengthening: `TokensRewritten` (pending, carried and acknowledged tokens were
rewritten), `GraceAccounted` (time since the last success plus time left makes a
window), `RevokePending` (a verified revoke is in `out`), `Acknowledged` (who has
taken a report while the flag is set).

**Agent.** `LoopSteps` maps every step of the composition to a step of `AgentLoop`
or to a stutter, so all that is proved of the loop holds of the process. `Turns`
ties the halves: where the loop is not at `poll`, the client is idle and has no
command; both are down together; an offer comes from `Home` alone. The queue is
proved about a second time by way of its first: `WorkP` is `ActionQueueProofs` for
the variables of the process. A step of the composition is not always a step of
`ActionQueue`: a heartbeat that exits, or a poll put to another control plane, ends
or passes a turn in a way the client alone never does. `WorkSteps` shows that these
are all (`Between`), and that `Turns` lets them happen only with no command and no
offer in hand; `BetweenKeeps` that the invariants of the queue survive them. So
`IInv` and `Held` hold of the process, and with them its promise.

**ActionQueue.** `IInv` is `TypeOK`, `Single` (an offer and a command in hand are
of the current attempt, no result is of a later one) and `Earned` (a result on its
way that says success was earned). The refinement maps status, achievement and
`orphans` to `CommandPromise` and rests on it: a command in hand is still open, so
that a kill leaves it behind before the settlement; the rest is free afterwards. `NoFaultNoRepeat` needs `Held`: without a fault
the lease of a healthy command outlasts the time its attempt can still take.

**DockerActions.** `IInv` adds to the types what each `pc` knows: `Stage`,
`NameChecked` (between inspect and command the name stands for the container
that was inspected, or for none), what a done stop and a finished `docker run`
left, and what the answer says.

**Executors.** `Owner` and `DbOwner` say whose command is next: without them the
actions of nine modules could disturb each other, with them `HostMoves`,
`ElsewhereMoves` and `DbMoves` reduce a step to the frame's or to one engine's.
`GoalAccepted` and `GoalChosen` carry the validation of a request to the commands
that use it. Then one invariant an engine, which says what the next command will
find: `StandbyInv`, `CopyInv`, `ChInv`, `RedisInv`, `ShardInv`, `ImageInv`,
`GrowInv`, `ProbeInv`. `StandbyInv` keeps the two ways of a follow apart
(`rewindTook`), `ShardInv` rests on `ChunkMoved`: a moveChunk script that is answered
as a success took its first branch or was declined. A failure lemma for each (`CopyFailures`, `ChFailures`, ...)
shows that its last command is not classified as a success by a phrase.

`ExecutorsTypeOK` is not inductive: what a command writes into a database is typed
because the request it is built from was accepted (`GoalTyped`, from `GoalChosen`) and
because no other engine's command can write there (`DbInv`). `ExecutorsTypeProofs`
takes what every command may do to the frame once (`Scalars`), then one engine at a
time.

`TopologyKept` is about what a fold over the topology computes. `TopologyProofs`
derives induction on the numbers from `WFMin` of the library, in the form that a set
which holds 0 and with each number the next holds them all, which needs no operator
as a parameter. With it a fold is known by its equations (`GroupedStepwise`: the
groups of n + 1 peers are `AddPeer` of the groups of n and the next peer), and
`GroupsWell`, that the groups of the first n peers are right, goes from n to n + 1 in two
cases: the peer joins the group of its shard (`JoinsShard`) or begins one
(`BeginsShard`).

**Only model-checked.** `GraceResolves`, `EventuallySettled` and `CommandsServed`:
liveness, fairness and `ENABLED` are out of the prover's reach. The seven runs that
refute a statement of the documentation are counterexamples, not theorems.

## 5. Not modelled

* Cryptography and encodings (`identity.rs`): abstracted to the key a signature
  verifies under. Headers and SPIFFE: no state between two requests.
* The SSRF guard: a pure classification of addresses; its refusal is `Refuse`.
* `evaluate_health_body`: which assertion of a health check fails is a choice
  between success and failure in `ActionQueue`.
* Host capabilities, metrics, logs: nothing decides on them.
* diagnostic, probe_host and wireguard_peer: one command or one rendered text each.
* Of a heartbeat report, all fields but the enrollment token, the ack and
  `apply_failed`; of a container row, times, names, labels and the wire format.
* The node and cell ids and the shared token (a rewrite keeps them).
* Deploy is in `DockerActions` without admission and in `HostImages` as one
  `docker run`: the two meet in the request only.
* The queue and the executors are not composed: `ActionQueue` says that a command
  may be executed again at any time, and the executions of `Executors` follow one
  another in any order and number.

## 6. Where the code disagrees with its documentation

* `ack_to_new_cp`: agent_runtime.rs 236 refreshes the configuration from the
  process environment, which the rewrite of the file did not change. The ack
  goes to the old CP; directive_apply.rs 49 sends it "on the next heartbeat to
  the new control plane".
* `ack_reported`: agent_runtime.rs 142 takes the token before the send and
  nothing restores it; one failed heartbeat and the directive is never
  acknowledged, contrary to heartbeat/types.rs 86.
* `soft_failure`: generic.rs 34-37 reports every `Ok` as success, also one with
  `success: false` (templated_exec), contrary to command_queue/mod.rs 57-58.
* `clip_panic`: report.rs 56 cuts a text at a byte offset; a multi-byte
  character there ends the agent, contrary to main.rs 68.
* `secret_file_left`: docker_exec.rs 467 returns between writing and removing
  the secret env file that actions/types.rs 690 calls short-lived.
* `teardown_newer`: handoff.rs 255 removes the container that has the name even
  when the stop was skipped because it is not the expected one, contrary to
  actions/types.rs 737-739.
* `follow_not_standby`: postgres_standby.rs 43-54 starts the server after a pg_rewind
  that succeeded, and pg_rewind_argv (registry.rs 380-398) writes no recovery
  configuration (`-R` is passed to pg_basebackup only). A former primary then starts
  as a primary, and a standby keeps following the server it was a standby of;
  actions/types.rs 84 says "start as standby of a new primary".

Met on the way, without a run of their own:

* registry.rs 286-292 takes a failed REPLICAOF NO ONE for done when its output is
  empty or holds "ok", "already" or "master" anywhere, where templated_exec/mod.rs 4-5
  speaks of "already-master" only; the server may still be a replica.
* An error reply of redis-cli comes with exit status 0: an IOERR or BUSYKEY of
  MIGRATE is answered as a success with the keys still here (run_migrate_slot_keys).
* moveChunk is answered as a success when the server declines the chunk with "Chunk
  with the given bounds" (mongodb_sharded.rs 45), and goes to the last shard of the
  list where none has the name given, which actions/types.rs 170 calls the target.
* A control plane that takes the report of the agent and never answers keeps a grace
  window open for ever, though agent_runtime.rs 108 calls the deadline the instant
  "after which the agent stops retrying the new control plane and exits non-zero".
* A container that starts between docker ps and its inspect is reported as running,
  with an exit code and a health that is unknown, where container_status.rs 69 has
  exit codes for containers that are not running; a docker ps that fails is
  reported as an empty host (`StatusProbe`).
* Directives in the answer to a fallback report are dropped (agent_runtime.rs 288).
* The error text of grow_fs is cut at byte 200, like the texts of `clip_panic`.

## 7. What is left

`evaluate_health_body` and the SSRF guard as operators over bounded inputs; the
composition of the queue with `Executors`, so that a second execution is one that
a lost lease causes; a helper container that goes on beside the next command also for
the bulk copies; clock steps, which move the deadline of a grace window;
`StopAnswerTrue` for a failed inspect, which docker_exec.rs
239 reads as an absent container.
