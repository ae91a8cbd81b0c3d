----------------------------- MODULE ActionQueue -----------------------------
(***************************************************************************)
(* The command queue: poll_one_node_action claims a command from the       *)
(* control plane, extends its lease, executes it and posts the result.     *)
(* The control plane's queue is external: it leases a command for a time,  *)
(* offers it again with the next attempt number when the lease runs out,   *)
(* and settles it with the first result of its current attempt.            *)
(*                                                                         *)
(* Time is counted in ticks, one per sleep of the main loop; requests are  *)
(* answered within the tick, and a late one is counted among the faults    *)
(* together with lost messages and killed processes.  A command is known   *)
(* by its kind, by whether its payload is acceptable, and by whether the   *)
(* text of its failure can be clipped.  The content of reports is left out.*)
(***************************************************************************)
EXTENDS Naturals, FiniteSets

CONSTANTS
  Cmd,          \* commands queued for this node
  KindOf,       \* action_kind of each command
  Malformed,    \* commands whose payload is refused before anything is done
  Unclippable,  \* commands whose failure text, cut, breaks inside a character
  MaxRun,       \* how many ticks the execution of each command can take
  Lease,        \* PARTON_ACTION_LEASE_SECS, in ticks
  Extension,    \* PARTON_ACTION_LEASE_EXTEND_SECS, in ticks
  MaxAttempt,   \* bound: attempts after which the queue drops a command
  MaxFault,     \* bound: lost or late messages and kills in one behaviour
  None

InlineKind  == {"health_check", "handoff_bundle_import"}
HandoffKind == {"deploy_handoff", "teardown_handoff"}
GenericKind ==
  {"deploy", "restart", "start", "stop", "logs", "inspect", "ensure_network",
   "probe_host", "diagnostic", "wireguard_peer", "ensure_docker_image",
   "grow_fs", "templated_exec"}
\* Their executors return a failed command as Ok with success = false.
SoftKind == {"grow_fs", "templated_exec"}

ASSUME QueueAssumption ==
  /\ IsFiniteSet(Cmd)
  /\ Malformed \subseteq Cmd
  /\ Unclippable \subseteq Cmd
  /\ MaxRun \in [Cmd -> Nat]
  /\ Lease \in Nat \ {0}
  /\ Extension \in Nat \ {0}
  /\ MaxAttempt \in Nat
  /\ MaxFault \in Nat

Claim  == [cmd : Cmd, attempt : 1..MaxAttempt]
Result == [cmd : Cmd, attempt : 1..MaxAttempt, success : BOOLEAN]

ASSUME QueueSentinel == None \notin Claim

VARIABLES
  phase,      \* where poll_one_node_action stands
  cur,        \* the claimed command, or None
  effect,     \* what its execution came to
  elapsed,    \* ticks it has been executing
  lastExit,   \* how the last process ended
  status,     \* the queue: state of each command
  attempt,    \* the queue: attempts handed out
  lease,      \* the queue: ticks left of each lease
  offer,      \* a claim response on its way
  wire,       \* results on their way
  faults,     \* history: messages lost or late, processes killed
  runs,       \* history: executions begun, per command
  achieved,   \* history: claims whose execution succeeded
  orphans     \* claims whose docker command goes on without the agent

agentVars == <<phase, cur, effect, elapsed, lastExit>>
queueVars == <<status, attempt, lease>>
wireVars  == <<offer, wire>>
histVars  == <<runs, achieved, orphans>>
vars == <<agentVars, queueVars, wireVars, histVars, faults>>

Init ==
  /\ phase = "idle" /\ cur = None /\ effect = "none" /\ elapsed = 0
  /\ lastExit = "none"
  /\ status = [c \in Cmd |-> "pending"]
  /\ attempt = [c \in Cmd |-> 0]
  /\ lease = [c \in Cmd |-> 0]
  /\ offer = None /\ wire = {}
  /\ faults = 0
  /\ runs = [c \in Cmd |-> 0] /\ achieved = {} /\ orphans = {}

Fault == faults < MaxFault /\ faults' = faults + 1

-----------------------------------------------------------------------------
(* The queue of the control plane.                                         *)

Claimable(c) == status[c] = "pending" /\ attempt[c] < MaxAttempt

CpClaims ==
  /\ phase = "claim"
  /\ offer = None
  /\ \E c \in Cmd :
       /\ Claimable(c)
       /\ status' = [status EXCEPT ![c] = "leased"]
       /\ attempt' = [attempt EXCEPT ![c] = @ + 1]
       /\ lease' = [lease EXCEPT ![c] = Lease]
       /\ offer' = [cmd |-> c, attempt |-> attempt[c] + 1]
  /\ UNCHANGED <<agentVars, wire, histVars, faults>>

CpExpires ==
  /\ \E c \in Cmd :
       /\ status[c] = "leased" /\ lease[c] = 0
       /\ status' = [status EXCEPT ![c] = "pending"]
  /\ UNCHANGED <<agentVars, attempt, lease, wireVars, histVars, faults>>

\* A result settles the command if it is of the current attempt; once the
\* lease has run out the control plane may also refuse it.
CpTakes ==
  /\ \E r \in wire :
       /\ wire' = wire \ {r}
       /\ \/ /\ r.attempt = attempt[r.cmd]
             /\ status[r.cmd] \in {"leased", "pending"}
             /\ status' = [status EXCEPT ![r.cmd] = IF r.success THEN "ok" ELSE "failed"]
             /\ lease' = [lease EXCEPT ![r.cmd] = 0]
          \/ /\ r.attempt # attempt[r.cmd] \/ status[r.cmd] = "pending"
             /\ UNCHANGED <<status, lease>>
  /\ UNCHANGED <<agentVars, attempt, offer, histVars, faults>>

LoseResult ==
  /\ \E r \in wire : wire' = wire \ {r}
  /\ Fault
  /\ UNCHANGED <<agentVars, queueVars, offer, histVars>>

\* The loop sleeps, an action runs or the process is down while time passes.
\* A result still on its way is then late.
Tick ==
  /\ \/ phase \in {"sleep", "down"}
     \/ phase = "busy" /\ elapsed < MaxRun[cur.cmd]
  /\ IF wire = {} THEN UNCHANGED faults ELSE Fault
  /\ lease' = [c \in Cmd |-> IF lease[c] > 0 THEN lease[c] - 1 ELSE 0]
  /\ elapsed' = IF phase = "busy" THEN elapsed + 1 ELSE 0
  /\ phase' = IF phase = "sleep" THEN "idle" ELSE phase
  /\ UNCHANGED <<cur, effect, lastExit, status, attempt, wireVars, histVars>>

-----------------------------------------------------------------------------
(* poll_one_node_action.                                                   *)

SendClaim ==
  /\ phase = "idle"
  /\ phase' = "claim"
  /\ UNCHANGED <<cur, effect, elapsed, lastExit, queueVars, wireVars, histVars, faults>>

\* 204: the queue is empty.
NothingClaimed ==
  /\ phase = "claim"
  /\ offer = None
  /\ \A c \in Cmd : ~Claimable(c)
  /\ phase' = "sleep"
  /\ UNCHANGED <<cur, effect, elapsed, lastExit, queueVars, wireVars, histVars, faults>>

\* The request or its answer is lost, refused or unreadable.
ClaimFails ==
  /\ phase = "claim"
  /\ phase' = "sleep"
  /\ offer' = None
  /\ Fault
  /\ UNCHANGED <<cur, effect, elapsed, lastExit, queueVars, wire, histVars>>

\* Variant of GotClaim: an empty answer is taken for a claim.
GotAnyAnswer ==
  /\ phase = "claim"
  /\ cur' = offer
  /\ offer' = None
  /\ phase' = "extend"
  /\ UNCHANGED <<effect, elapsed, lastExit, queueVars, wire, histVars, faults>>

GotClaim ==
  /\ phase = "claim"
  /\ offer # None
  /\ cur' = offer
  /\ offer' = None
  /\ phase' = "extend"
  /\ UNCHANGED <<effect, elapsed, lastExit, queueVars, wire, histVars, faults>>

\* Variant of LeaseExtended: deploy is missing from the list of kinds.
LeaseExtendedNotDeploy(kind) == kind \in {"handoff_bundle_import"} \cup HandoffKind

\* The kinds maybe_extend_lease lists.
LeaseExtended(kind) == kind \in {"deploy", "handoff_bundle_import"} \cup HandoffKind

SkipExtend ==
  /\ phase = "extend"
  /\ ~LeaseExtended(KindOf[cur.cmd])
  /\ phase' = "run"
  /\ UNCHANGED <<cur, effect, elapsed, lastExit, queueVars, wireVars, histVars, faults>>

ExtendLease ==
  /\ phase = "extend"
  /\ LeaseExtended(KindOf[cur.cmd])
  /\ phase' = "run"
  /\ lease' = [lease EXCEPT ![cur.cmd] = @ + Extension]
  /\ UNCHANGED <<cur, effect, elapsed, lastExit, status, attempt, wireVars, histVars,
                 faults>>

\* The failure is logged and the command executed all the same.
ExtendFails ==
  /\ phase = "extend"
  /\ LeaseExtended(KindOf[cur.cmd])
  /\ phase' = "run"
  /\ Fault
  /\ UNCHANGED <<cur, effect, elapsed, lastExit, queueVars, wireVars, histVars>>

-----------------------------------------------------------------------------
(* execute_claimed_node_action.                                            *)

Blocking == HandoffKind \cup GenericKind

\* Missing fields, another node's payload, a policy, or an unsupported kind.
Refused(c) == c \in Malformed \/ KindOf[c] \notin InlineKind \cup Blocking

Refuse ==
  /\ phase = "run"
  /\ Refused(cur.cmd)
  /\ phase' = "report"
  /\ effect' = "refused"
  /\ UNCHANGED <<cur, elapsed, lastExit, queueVars, wireVars, histVars, faults>>

Execute ==
  /\ phase = "run"
  /\ ~Refused(cur.cmd)
  /\ phase' = "busy"
  /\ elapsed' = 0
  /\ runs' = [runs EXCEPT ![cur.cmd] = @ + 1]
  /\ UNCHANGED <<cur, effect, lastExit, queueVars, wireVars, achieved, orphans,
                 faults>>

Executed ==
  /\ phase = "busy"
  /\ \E e \in {"ok", "failed"} :
       /\ effect' = e
       /\ achieved' = IF e = "ok" THEN achieved \cup {cur} ELSE achieved
  /\ phase' = "report"
  /\ UNCHANGED <<cur, elapsed, lastExit, queueVars, wireVars, runs, orphans, faults>>

\* The text of the failure is clipped on the main task, not in spawn_blocking:
\* in run_health_check and run_handoff_bundle_import, and for every Err in
\* clip_action_error_summary.
ClippedOnMain(kind, e) ==
  kind \notin Blocking \/ (e = "refused" /\ kind \in HandoffKind)

\* &s[..n] panics when n falls inside a character.
ClipPanics == effect # "ok" /\ cur.cmd \in Unclippable

\* Variant of ReportsSuccess: a failed join is reported as what the task did.
ReportsSuccessOfAll(kind) == effect \in {"ok", "failed"}

\* generic.rs makes a success report of every Ok, with the short fixed message of
\* the executor as its text.  A panic in spawn_blocking is a join error, reported
\* as a failure.
ReportsSuccess(kind) ==
  \/ effect = "ok"
  \/ effect = "failed" /\ kind \in SoftKind /\ ~ClipPanics

\* Variant of PostResult: the loop goes back to the same command.
PostResultAndRetry ==
  /\ phase = "report"
  /\ ~(ClipPanics /\ ClippedOnMain(KindOf[cur.cmd], effect))
  /\ wire' = wire \cup {[cmd |-> cur.cmd, attempt |-> cur.attempt,
                         success |-> ReportsSuccess(KindOf[cur.cmd])]}
  /\ phase' = IF runs[cur.cmd] < MaxAttempt THEN "run" ELSE "sleep"
  /\ effect' = "none" /\ elapsed' = 0
  /\ cur' = IF runs[cur.cmd] < MaxAttempt THEN cur ELSE None
  /\ UNCHANGED <<lastExit, queueVars, offer, histVars, faults>>

\* Variant of PostResult: a failed command is logged and not reported.
PostSuccessOnly ==
  /\ phase = "report"
  /\ ~(ClipPanics /\ ClippedOnMain(KindOf[cur.cmd], effect))
  /\ wire' = IF ReportsSuccess(KindOf[cur.cmd])
             THEN wire \cup {[cmd |-> cur.cmd, attempt |-> cur.attempt, success |-> TRUE]}
             ELSE wire
  /\ phase' = "sleep"
  /\ cur' = None /\ effect' = "none" /\ elapsed' = 0
  /\ UNCHANGED <<lastExit, queueVars, offer, histVars, faults>>

\* The report is built and posted; whether it arrives is only logged.
PostResult ==
  /\ phase = "report"
  /\ ~(ClipPanics /\ ClippedOnMain(KindOf[cur.cmd], effect))
  /\ wire' = wire \cup {[cmd |-> cur.cmd, attempt |-> cur.attempt,
                         success |-> ReportsSuccess(KindOf[cur.cmd])]}
  /\ phase' = "sleep"
  /\ cur' = None /\ effect' = "none" /\ elapsed' = 0
  /\ UNCHANGED <<lastExit, queueVars, offer, histVars, faults>>

-----------------------------------------------------------------------------
(* The life of the process.                                                *)

ProcessEnds(reason) ==
  /\ phase' = "down"
  /\ lastExit' = reason
  /\ cur' = None /\ effect' = "none" /\ elapsed' = 0
  /\ offer' = None
  /\ UNCHANGED <<queueVars, wire, runs, achieved>>

\* A panic on the main task unwinds out of main.
Panic ==
  /\ phase = "report"
  /\ ClipPanics /\ ClippedOnMain(KindOf[cur.cmd], effect)
  /\ ProcessEnds("panic")
  /\ UNCHANGED <<orphans, faults>>

\* Killed at any point.  The docker command it had started may go on.
Kill ==
  /\ phase # "down"
  /\ ProcessEnds("killed")
  /\ \/ UNCHANGED orphans
     \/ phase = "busy" /\ orphans' = orphans \cup {cur}
  /\ Fault

\* The command a killed agent left behind ends at any later time: after the
\* restart, another attempt, or the settlement.  Nobody waits for it.
OrphanEnds ==
  /\ \E o \in orphans :
       /\ orphans' = orphans \ {o}
       /\ achieved' \in {achieved, achieved \cup {o}}
  /\ UNCHANGED <<agentVars, queueVars, wireVars, runs, faults>>

Restart ==
  /\ phase = "down"
  /\ phase' = "idle"
  /\ UNCHANGED <<cur, effect, elapsed, lastExit, queueVars, wireVars, histVars, faults>>

-----------------------------------------------------------------------------
(* The specification.                                                      *)

Agent ==
  \/ SendClaim \/ NothingClaimed \/ GotClaim
  \/ SkipExtend \/ ExtendLease
  \/ Refuse \/ Execute \/ Executed \/ PostResult \/ Panic

Queue == CpClaims \/ CpTakes \/ CpExpires

Faulty == ClaimFails \/ ExtendFails \/ LoseResult \/ Kill

Next == Agent \/ Queue \/ Faulty \/ OrphanEnds \/ Tick \/ Restart

Spec == Init /\ [][Next]_vars

\* The process runs and is restarted, an action ends within its time, the
\* queue answers, takes what arrives and ends leases, and time passes.
FairSpec ==
  /\ Spec
  /\ WF_vars(Agent) /\ WF_vars(Restart) /\ WF_vars(Tick)
  /\ WF_vars(CpClaims) /\ WF_vars(CpTakes) /\ WF_vars(CpExpires)

-----------------------------------------------------------------------------
(* Properties.                                                             *)

\* Every variable keeps its type through claims, kills and lost messages.
TypeOK ==
  /\ phase \in {"idle", "claim", "extend", "run", "busy", "report", "sleep", "down"}
  /\ cur \in Claim \cup {None}
  /\ cur # None <=> phase \in {"extend", "run", "busy", "report"}
  /\ effect \in {"none", "refused", "ok", "failed"}
  /\ elapsed \in Nat
  /\ lastExit \in {"none", "killed", "panic"}
  /\ status \in [Cmd -> {"pending", "leased", "ok", "failed"}]
  /\ attempt \in [Cmd -> 0..MaxAttempt]
  /\ lease \in [Cmd -> Nat]
  /\ offer \in Claim \cup {None}
  /\ wire \subseteq Result
  /\ faults \in 0..MaxFault
  /\ runs \in [Cmd -> Nat]
  /\ achieved \subseteq Claim
  /\ orphans \subseteq Claim

Trusted == {c \in Cmd : KindOf[c] \notin SoftKind}

\* A command is settled as a success only if the execution of that very
\* attempt succeeded, whatever results were late, lost or reported by an
\* earlier process (run_claimed_action, report.rs).  The kinds whose failure
\* comes back as Ok are excepted.
SuccessIsEarned ==
  \A c \in Trusted :
    status[c] = "ok" => [cmd |-> c, attempt |-> attempt[c]] \in achieved

\* The lease the agent asks for covers the execution, and its failure text
\* does not kill the agent.
Covered(c) ==
  MaxRun[c] < Lease + (IF KindOf[c] \in {"deploy"} \cup HandoffKind
                                  \cup {"handoff_bundle_import"}
                       THEN Extension ELSE 0)
Healthy(c) == Covered(c) /\ c \notin Unclippable

\* As long as no message is lost or late and nobody kills the process, a
\* command whose execution fits its lease is executed once: the lease is
\* extended before the execution starts (maybe_extend_lease).
NoFaultNoRepeat ==
  faults = 0 => \A c \in Cmd : Healthy(c) => runs[c] <= 1

\* The queue keeps the promise of CommandPromise: in particular the agent has
\* no execution under way once the command is settled, though results arrive
\* late and commands are offered again (poll_one_node_action runs one at a
\* time).  Only the docker command an agent left behind when it was killed
\* before the settlement can take effect after it.
Promise == INSTANCE CommandPromise WITH
  verdict <- [c \in Cmd |-> IF status[c] \in {"ok", "failed"} THEN status[c] ELSE "open"],
  Execution <- Claim,
  achieved <- {c \in Cmd : \E a \in achieved : a.cmd = c},
  left <- orphans
KeepsPromise == Promise!Spec

\* Every command whose execution fits its lease is settled in the end, lost
\* results and killed processes notwithstanding: the lease runs out and it is
\* claimed again.
EventuallySettled ==
  \A c \in Cmd : Healthy(c) => <>(status[c] \in {"ok", "failed"})

-----------------------------------------------------------------------------
(* What the documentation says and the code does not do.                   *)

\* A failed execution is reported with success = false, for every kind (the
\* doc of execute_claimed_node_action).
FailureIsNotSuccess ==
  \A c \in Cmd :
    status[c] = "ok" => [cmd |-> c, attempt |-> attempt[c]] \in achieved

\* A failure is turned into a report, never into the end of the agent (the doc
\* of run_claimed_action).
FailureIsReported == lastExit # "panic"
=============================================================================
